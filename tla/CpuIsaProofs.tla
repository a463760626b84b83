---------------------------- MODULE CpuIsaProofs ----------------------------
(***************************************************************************)
(* The cycles of Cpu implement the instructions of Isa: for every set of   *)
(* starts that fit and every memory image, with the table opcodes[] of the *)
(* program, a behaviour of CpuIsa changes retired only as Isa says.        *)
(*                                                                         *)
(* The proof knows where every instruction stands after every cycle.       *)
(* Midway(s, c, m) says it: s is the machine of Isa at the opcode fetch, c *)
(* the processor and m the memory now, and the stage in IR tells how many  *)
(* bytes have been read, what is in AD and on the data bus, what has been  *)
(* pushed, pulled or stored.  Each shape of instruction has its own        *)
(* account (ArgAt, StoreAt, ModifyAt, BranchAt, PushAt, PullAt, CallAt,    *)
(* ReturnAt, RtiAt, JumpAt, BreakAt).                                      *)
(*                                                                         *)
(* The parts, in order: the operators of Isa are those of Cpu; opcodes[]   *)
(* is what the bits of the opcode say; what an operation makes of the      *)
(* registers is what Isa makes of them; the stages of get_arg_*; a whole   *)
(* cycle, for each shape; BRK and the reset; the behaviours; the count of  *)
(* the clock cycles.                                                       *)
(***************************************************************************)
EXTENDS CpuIsa, CpuProofs

(* The machine of Isa, from its registers and its memory. *)
Regs(A, X, Y, S, PC, status) ==
  [A |-> A, X |-> X, Y |-> Y, S |-> S, PC |-> PC, status |-> status]

State(A, X, Y, S, PC, status, m) == [r |-> Regs(A, X, Y, S, PC, status), m |-> m]

(* PC and S as they are i bytes further than in s. *)
At(s, i)  == U16(s.r.PC + i)
Top(s, i) == U8(s.r.S + i)

(* The processor shows the registers of s, but for S, PC and the flags. *)
Shows(s, c, S, PC, status) ==
  /\ c.A = s.r.A /\ c.X = s.r.X /\ c.Y = s.r.Y
  /\ c.S = S /\ c.PC = PC
  /\ c.status \ {BF, XF} = status

(* The bytes after the opcode, the pointers in page zero, the stack. *)
First(s)     == Read(s.m, At(s, 1))
Second(s)    == Read(s.m, At(s, 2))
Absolute(s)  == First(s) + 256 * Second(s)
Pointed(s, z) == Read(s.m, z) + 256 * Read(s.m, Low(z + 1))
Indexed(s)   == Low(First(s) + s.r.X)
OnStack(s, i) == Read(s.m, 256 + Top(s, i))

Target(s, mode) ==
  CASE mode = "zpg"   -> First(s)
    [] mode = "zpg_x" -> Indexed(s)
    [] mode = "zpg_y" -> Low(First(s) + s.r.Y)
    [] mode = "abs"   -> Absolute(s)
    [] mode = "abs_x" -> U16(Absolute(s) + s.r.X)
    [] mode = "abs_y" -> U16(Absolute(s) + s.r.Y)
    [] mode = "x_ind" -> Pointed(s, Indexed(s))
    [] mode = "ind_y" -> U16(Pointed(s, First(s)) + s.r.Y)
    [] OTHER          -> At(s, 1)

Value(s, mode) == Read(s.m, Target(s, mode))

TwoBytes == {"abs", "abs_x", "abs_y", "ind"}

(* The bytes of the instruction that have been read after k cycles. *)
Passed(mode, k) == IF k = 0 THEN 1 ELSE IF k = 1 \/ mode \notin TwoBytes THEN 2 ELSE 3

(***************************************************************************)
(* How far get_arg_* has come when k of its cycles have been run: what is  *)
(* in AD, and the byte b on the data bus.                                  *)
(***************************************************************************)
Argued(s, ad, b, mode, k) ==
  /\ k = 1 => b = First(s)
  /\ k = 2 /\ mode # "zpg" => ad = First(s)
  /\ k = 2 /\ mode = "ind_y" => b = Read(s.m, First(s))
  /\ k = 2 /\ mode \in TwoBytes => b = Second(s)
  /\ k = 3 /\ mode \in {"abs_x", "abs_y"} => ad = Absolute(s)
  /\ k = 3 /\ mode = "x_ind" => /\ ad = Indexed(s)
                                /\ b = Read(s.m, Indexed(s))
  /\ k = 3 /\ mode = "ind_y" => /\ ad = Read(s.m, First(s))
                                /\ b = Read(s.m, Low(First(s) + 1))
  /\ k = 4 /\ mode = "x_ind" =>
       /\ ad = Read(s.m, Indexed(s))
       /\ b = Read(s.m, Low(Indexed(s) + 1))
  /\ k = 4 /\ mode = "ind_y" => ad = Pointed(s, First(s))

ArgAt(s, c, m, mode, k) ==
  /\ m = s.m
  /\ Shows(s, c, s.r.S, At(s, Passed(mode, k)), s.r.status)
  /\ Argued(s, c.AD, c.data_bus, mode, k)
  /\ k = ArgStages(mode) => c.addr_bus = Target(s, mode) /\ c.data_bus = Value(s, mode)

After(s, mode) == At(s, IF mode \in TwoBytes THEN 3 ELSE 2)

StoreAt(s, c, m, op, mode, k) ==
  IF k < ArgStages(mode) THEN ArgAt(s, c, m, mode, k)
  ELSE /\ Shows(s, c, s.r.S, After(s, mode), s.r.status)
       /\ m = Store(s.m, Target(s, mode), Stored(s.r, op))

ModifyAt(s, c, m, op, mode, k) ==
  LET n   == ArgStages(mode)
      old == Value(s, mode)
      new == Modified(op, s.r.status, old)
  IN  /\ k <= n => ArgAt(s, c, m, mode, k)
      /\ k = n + 1 => /\ Shows(s, c, s.r.S, After(s, mode), s.r.status)
                      /\ c.AD = old /\ c.addr_bus = Target(s, mode)
                      /\ m = Store(s.m, Target(s, mode), old)
      /\ k = n + 2 => /\ Shows(s, c, s.r.S, After(s, mode), new.status)
                      /\ m = Store(s.m, Target(s, mode), new.res)

IdleAt(s, c, m) == m = s.m /\ Shows(s, c, s.r.S, At(s, 1), s.r.status)

BranchAt(s, c, m, op, k) ==
  /\ m = s.m
  /\ Shows(s, c, s.r.S, At(s, IF k = 0 THEN 1 ELSE 2), s.r.status)
  /\ k = 1 => c.data_bus = First(s)
  /\ k >= 2 => Taken(op, s.r.status) /\ c.AD = U16(At(s, 2) + Signed(First(s)))

(* PHA and PHP, which push b. *)
PushAt(s, c, m, b, k) ==
  IF k < 2 THEN IdleAt(s, c, m)
  ELSE /\ Shows(s, c, Top(s, -1), At(s, 1), s.r.status)
       /\ m = Store(s.m, 256 + Top(s, 0), b)

(* S has been counted up from the second cycle on. *)
PullAt(s, c, m, k) ==
  /\ m = s.m
  /\ Shows(s, c, IF k < 2 THEN s.r.S ELSE Top(s, 1), At(s, 1), s.r.status)
  /\ k = 3 => c.data_bus = OnStack(s, 1)

(* The memory when the return address has been pushed, one byte or both, *)
(* and the status byte.                                                  *)
PushedHigh(s)  == Store(s.m, 256 + Top(s, 0), High(At(s, 2)))
PushedBoth(s)  == Store(PushedHigh(s), 256 + Top(s, -1), Low(At(s, 2)))
PushedAll(s)   == Store(PushedBoth(s), 256 + Top(s, -2), ByteOf(s.r.status \cup {BF, XF}))

CallAt(s, c, m, k) ==
  /\ Shows(s, c, CASE k <= 2 -> s.r.S [] k = 3 -> Top(s, -1) [] OTHER -> Top(s, -2),
              At(s, IF k = 0 THEN 1 ELSE 2), s.r.status)
  /\ m = CASE k <= 2 -> s.m [] k = 3 -> PushedHigh(s) [] OTHER -> PushedBoth(s)
  /\ k = 1 => c.data_bus = First(s)
  /\ k >= 2 => c.AD = First(s)
  /\ k = 5 => c.data_bus = Read(PushedBoth(s), At(s, 2))

ReturnAt(s, c, m, k) ==
  /\ m = s.m
  /\ Shows(s, c, CASE k <= 1 -> s.r.S [] k = 2 -> Top(s, 1) [] OTHER -> Top(s, 2),
              IF k <= 4 THEN At(s, 1) ELSE U16(OnStack(s, 1) + 256 * OnStack(s, 2) + 1),
              s.r.status)
  /\ k = 3 => c.data_bus = OnStack(s, 1)
  /\ k = 4 => c.AD = OnStack(s, 1) /\ c.data_bus = OnStack(s, 2)

RtiAt(s, c, m, k) ==
  /\ m = s.m
  /\ Shows(s, c, CASE k <= 1 -> s.r.S [] k = 2 -> Top(s, 1) [] k = 3 -> Top(s, 2)
                   [] OTHER -> Top(s, 3),
              c.PC, IF k <= 3 THEN s.r.status ELSE Bits(OnStack(s, 1)) \ {BF, XF})
  /\ k = 3 => c.data_bus = OnStack(s, 1)
  /\ k = 4 => c.data_bus = OnStack(s, 2)
  /\ k = 5 => c.data_bus = OnStack(s, 3) /\ Low(c.PC) = OnStack(s, 2)

JumpAt(s, c, m, mode, k) ==
  /\ m = s.m
  /\ Shows(s, c, s.r.S, At(s, Passed(mode, k)), s.r.status)
  /\ k = 1 => c.data_bus = First(s)
  /\ k = 2 => c.AD = First(s) /\ c.data_bus = Second(s)
  /\ k = 3 => c.AD = Absolute(s) /\ c.data_bus = Read(s.m, Absolute(s))
  /\ k = 4 => /\ c.AD = Read(s.m, Absolute(s))
              /\ c.data_bus = Read(s.m, 256 * High(Absolute(s)) + Low(Absolute(s) + 1))

IsBreak(s)   == Read(s.m, s.r.PC) = 0
Resetting(c) == "RST" \in c.break_status

(* The memory when p bytes of the return address have been pushed. *)
Before(s, p) == CASE p = 0 -> s.m [] p = 1 -> PushedHigh(s) [] OTHER -> PushedBoth(s)

(* Where the sequence of BRK leads and what it has left in memory. *)
Vectored(s, v, m) ==
  \/ IsBreak(s) /\ v = IRQ_VECTOR_ADDR /\ m = PushedAll(s)
  \/ /\ v = RESET_VECTOR_ADDR
     /\ \E p \in 0..(IF IsBreak(s) THEN 2 ELSE 0) : m = Before(s, p)

(* What the k-th cycle of BRK finds: a BRK on its way, or a reset. *)
Breaking(s, c, m, k) ==
  LET p == CASE k <= 1 -> 0 [] k = 2 -> 1 [] OTHER -> 2
  IN  \/ IsBreak(s) /\ c.PC = At(s, IF k <= 1 THEN 1 ELSE 2) /\ m = Before(s, p)
      \/ Resetting(c) /\ \E q \in 0..(IF IsBreak(s) THEN p ELSE 0) : m = Before(s, q)

BreakAt(s, c, m, k) ==
  /\ Shows(s, c, CASE k <= 1 -> s.r.S [] k = 2 -> Top(s, -1) [] k = 3 -> Top(s, -2)
                   [] OTHER -> Top(s, -3),
              c.PC, IF k <= 4 THEN s.r.status ELSE s.r.status \cup {IF_})
  /\ k <= 3 => Breaking(s, c, m, k)
  /\ k = 4 => Vectored(s, c.AD, m)
  /\ k = 5 => Vectored(s, c.AD - 1, m) /\ c.data_bus = Read(m, c.AD - 1)
  /\ k = 6 => \E v \in {IRQ_VECTOR_ADDR, RESET_VECTOR_ADDR} :
       Vectored(s, v, m) /\ c.AD = Read(m, v) /\ c.data_bus = Read(m, v + 1)

Partway(s, c, m) ==
  LET op   == Handler[Opcode(c)][1]
      mode == Handler[Opcode(c)][2]
      k    == Stage(c)
  IN  /\ op \in ReadOps  => ArgAt(s, c, m, mode, k)
      /\ op \in StoreOps => StoreAt(s, c, m, op, mode, k)
      /\ op \in ModifyOps /\ mode # "acc" => ModifyAt(s, c, m, op, mode, k)
      /\ op \in ModifyOps /\ mode = "acc" => IdleAt(s, c, m)
      /\ op \in ImpliedOps => IdleAt(s, c, m)
      /\ op \in BranchOps => BranchAt(s, c, m, op, k)
      /\ op = "PHA" => PushAt(s, c, m, s.r.A, k)
      /\ op = "PHP" => PushAt(s, c, m, ByteOf(s.r.status \cup {BF, XF}), k)
      /\ op \in {"PLA", "PLP"} => PullAt(s, c, m, k)
      /\ op = "JSR" => CallAt(s, c, m, k)
      /\ op = "RTS" => ReturnAt(s, c, m, k)
      /\ op = "RTI" => RtiAt(s, c, m, k)
      /\ op = "JMP" => JumpAt(s, c, m, mode, k)

Midway(s, c, m) ==
  IF Opcode(c) = 0 THEN BreakAt(s, c, m, Stage(c))
  ELSE Opcode(c) = Read(s.m, s.r.PC) /\ Partway(s, c, m)

(* Between two opcode fetches, and at one. *)
Following ==
  /\ phase # "crashed" /\ cpu.SYNC =>
       /\ retired = [r |-> Visible(cpu), m |-> mem]
       /\ cpu.data_bus = Read(mem, cpu.PC)
  /\ phase # "crashed" /\ ~cpu.SYNC => Midway(retired, cpu, mem)

----------------------------------------------------------------------------
(* Isa has the operations of Alu and the memory of Cpu under its own name. *)

LEMMA SameBytes ==
  ASSUME NEW x, NEW y
  PROVE  /\ Program!U8(x) = U8(x) /\ Program!U16(x) = U16(x)
         /\ Program!Signed(x) = Signed(x)
         /\ Program!CarryIn(x) = CarryIn(x)
         /\ Program!Bits(x) = Bits(x) /\ Program!ByteOf(x) = ByteOf(x)
         /\ Program!BitOr(x, y) = BitOr(x, y)
         /\ Program!BitAnd(x, y) = BitAnd(x, y)
         /\ Program!BitXor(x, y) = BitXor(x, y)
         /\ Program!update_flags_register(x, y) = update_flags_register(x, y)
<1>1. Program!Bits(x) = Bits(x) /\ Program!Bits(y) = Bits(y)
  BY DEF Program!Bits, Bits, Program!Bit, Bit, Program!Weight, Weight
<1>2. \A z : Program!ByteOf(z) = ByteOf(z)
  BY DEF Program!ByteOf, ByteOf
<1>3. Program!U8(x) = U8(x) /\ Program!U16(x) = U16(x)
  BY DEF Program!U8, U8, Program!U16, U16
<1>4. Program!Signed(x) = Signed(x)
  BY DEF Program!Signed, Signed
<1>5. Program!CarryIn(x) = CarryIn(x)
  BY DEF Program!CarryIn, CarryIn, Program!CF, CF
<1>6. /\ Program!BitOr(x, y) = BitOr(x, y)
      /\ Program!BitAnd(x, y) = BitAnd(x, y)
      /\ Program!BitXor(x, y) = BitXor(x, y)
  BY <1>1, <1>2 DEF Program!BitOr, BitOr, Program!BitAnd, BitAnd, Program!BitXor, BitXor
<1>7. Program!update_flags_register(x, y) = update_flags_register(x, y)
  BY DEF Program!update_flags_register, update_flags_register, Program!NF, NF,
         Program!ZF, ZF, Program!Negative, Negative, Program!U8, U8
<1>. QED
  BY <1>1, <1>2, <1>3, <1>4, <1>5, <1>6, <1>7

LEMMA SameFlag ==
  ASSUME NEW x, NEW y, NEW z
  PROVE  Program!Flag(x, y, z) = Flag(x, y, z)
BY DEF Program!Flag, Flag

LEMMA SameLoad ==
  ASSUME NEW x, NEW y, NEW z
  PROVE  Program!Load(x, y, z) = Load(x, y, z)
BY SameBytes DEF Program!Load, Load

LEMMA SameReads ==
  ASSUME NEW c, NEW reg
  PROVE  /\ Program!do_ORA(c) = do_ORA(c)
         /\ Program!do_AND(c) = do_AND(c)
         /\ Program!do_EOR(c) = do_EOR(c)
         /\ Program!do_ADC(c) = do_ADC(c)
         /\ Program!do_SBC(c) = do_SBC(c)
         /\ Program!do_BIT(c) = do_BIT(c)
         /\ Program!do_CMP(c, reg) = do_CMP(c, reg)
<1>1. /\ Program!do_ORA(c) = do_ORA(c)
      /\ Program!do_AND(c) = do_AND(c)
      /\ Program!do_EOR(c) = do_EOR(c)
  BY SameBytes, SameLoad
     DEF Program!do_ORA, do_ORA, Program!do_AND, do_AND, Program!do_EOR, do_EOR
<1>2. Program!do_ADC(c) = do_ADC(c)
  BY SameBytes, SameFlag, SameLoad
     DEF Program!do_ADC, do_ADC, Program!DecimalSum, DecimalSum,
         Program!AdcOverflow, AdcOverflow, Program!Negative, Negative,
         Program!DF, DF, Program!CF, CF, Program!VF, VF
<1>3. Program!do_SBC(c) = do_SBC(c)
  BY SameBytes, SameFlag, SameLoad
     DEF Program!do_SBC, do_SBC, Program!DecimalDifference, DecimalDifference,
         Program!SbcOverflow, SbcOverflow, Program!Negative, Negative,
         Program!DF, DF, Program!CF, CF, Program!VF, VF
<1>4. Program!do_BIT(c) = do_BIT(c)
  BY SameBytes DEF Program!do_BIT, do_BIT, Program!ZF, ZF, Program!VF, VF, Program!NF, NF
<1>5. Program!do_CMP(c, reg) = do_CMP(c, reg)
  BY SameBytes, SameFlag DEF Program!do_CMP, do_CMP, Program!CF, CF
<1>. QED  BY <1>1, <1>2, <1>3, <1>4, <1>5

LEMMA SameShifts ==
  ASSUME NEW status, NEW x
  PROVE  /\ Program!do_ASL(status, x) = do_ASL(status, x)
         /\ Program!do_ROL(status, x) = do_ROL(status, x)
         /\ Program!do_LSR(status, x) = do_LSR(status, x)
         /\ Program!do_ROR(status, x) = do_ROR(status, x)
<1>1. \A res, carry : Program!Shifted(status, res, carry) = Shifted(status, res, carry)
  BY SameBytes, SameFlag DEF Program!Shifted, Shifted, Program!CF, CF
<1>. QED
  BY <1>1, SameBytes DEF Program!do_ASL, do_ASL, Program!do_ROL, do_ROL,
                         Program!do_LSR, do_LSR, Program!do_ROR, do_ROR

LEMMA SameChange ==
  ASSUME NEW status, NEW x, NEW op \in ModifyOps
  PROVE  Program!Changing(status, op, x) = Modified(op, status, x)
<1>1. CASE op \in {"ASL", "ROL", "LSR", "ROR"}
  BY <1>1, SameShifts DEF Program!Changing, Modified
<1>2. CASE op = "INC"
  BY <1>2, SameBytes DEF Program!Changing, Modified, Stepped
<1>3. CASE op = "DEC"
  BY <1>3, SameBytes DEF Program!Changing, Modified, Stepped
<1>. QED  BY <1>1, <1>2, <1>3 DEF ModifyOps

LEMMA SameCondition ==
  ASSUME NEW status, NEW op \in BranchOps
  PROVE  Program!Condition(op, status) = Taken(op, status)
BY DEF Program!Condition, Taken, BranchOps, Program!NF, NF, Program!VF, VF,
       Program!CF, CF, Program!ZF, ZF

LEMMA SameMemory ==
  ASSUME NEW m, NEW a, NEW b
  PROVE  Program!Peek(m, a) = Read(m, a) /\ Program!Poke(m, a, b) = Store(m, a, b)
BY DEF Program!Peek, Read, Program!Poke, Store

----------------------------------------------------------------------------
(* The opcodes mean what their bits say. *)

LEMMA SingleOpcodes ==
  /\ DOMAIN Program!Single =
       {0, 8, 24, 32, 40, 56, 64, 72, 88, 96, 104, 120, 136, 138, 152, 154, 168,
        170, 184, 186, 200, 202, 216, 232, 234, 248}
  /\ Program!Single[0] = "BRK" /\ Program!Single[8] = "PHP" /\ Program!Single[24] = "CLC"
  /\ Program!Single[32] = "JSR" /\ Program!Single[40] = "PLP" /\ Program!Single[56] = "SEC"
  /\ Program!Single[64] = "RTI" /\ Program!Single[72] = "PHA" /\ Program!Single[88] = "CLI"
  /\ Program!Single[96] = "RTS" /\ Program!Single[104] = "PLA"
  /\ Program!Single[120] = "SEI" /\ Program!Single[136] = "DEY"
  /\ Program!Single[138] = "TXA" /\ Program!Single[152] = "TYA"
  /\ Program!Single[154] = "TXS" /\ Program!Single[168] = "TAY"
  /\ Program!Single[170] = "TAX" /\ Program!Single[184] = "CLV"
  /\ Program!Single[186] = "TSX" /\ Program!Single[200] = "INY"
  /\ Program!Single[202] = "DEX" /\ Program!Single[216] = "CLD"
  /\ Program!Single[232] = "INX" /\ Program!Single[234] = "NOP"
  /\ Program!Single[248] = "SED"
BY DEF Program!Single

(* The cases of Decode exclude each other. *)
LEMMA DecodeSingle ==
  ASSUME NEW code \in DOMAIN Program!Single
  PROVE  Program!Decode(code) = <<Program!Single[code], "impl">>
<1>1. code % 32 # 16 /\ Program!cc(code) # 1
  BY SingleOpcodes DEF Program!cc
<1>2. ~(Program!cc(code) = 2 /\ Program!Legal10(code))
  BY SingleOpcodes DEF Program!cc, Program!bbb, Program!aaa, Program!Legal10
<1>3. ~(Program!cc(code) = 0 /\ Program!Legal00(code))
  BY SingleOpcodes DEF Program!cc, Program!bbb, Program!aaa, Program!Legal00
<1>. QED  BY <1>1, <1>2, <1>3 DEF Program!Decode

LEMMA DecodeBranch ==
  ASSUME NEW a \in 0..7
  PROVE  Program!Decode(32 * a + 16) = <<Program!Branches[a + 1], "rel">>
<1>. DEFINE code == 32 * a + 16
<1>1. code \notin DOMAIN Program!Single
  BY SingleOpcodes
<1>2. code % 32 = 16 /\ Program!aaa(code) = a /\ Program!bbb(code) = 4 /\ Program!cc(code) = 0
  BY DEF Program!aaa, Program!bbb, Program!cc
<1>3. ~Program!Legal00(code)
  BY <1>2 DEF Program!Legal00
<1>. HIDE DEF code
<1>. QED  BY <1>1, <1>2, <1>3 DEF Program!Decode, code

LEMMA DecodeRegular ==
  ASSUME NEW code \in Byte, code \notin DOMAIN Program!Single, code % 32 # 16
  PROVE  LET a == Program!aaa(code)
             b == Program!bbb(code)
         IN  /\ Program!cc(code) = 1 =>
                  Program!Decode(code) =
                    IF code = 137 THEN <<"none", "impl">>
                    ELSE <<Program!Accumulator[a + 1], Program!Column01[b + 1]>>
             /\ Program!cc(code) = 2 =>
                  Program!Decode(code) =
                    IF ~Program!Legal10(code) THEN <<"none", "impl">>
                    ELSE <<Program!Shift[a + 1],
                           Program!IndexedByX(code, Program!Column10[b + 1])>>
             /\ Program!cc(code) = 0 =>
                  Program!Decode(code) =
                    IF ~Program!Legal00(code) THEN <<"none", "impl">>
                    ELSE <<Program!Control[a + 1],
                           IF a = 3 THEN "ind" ELSE Program!Column10[b + 1]>>
             /\ Program!cc(code) = 3 => Program!Decode(code) = <<"none", "impl">>
<1>1. CASE Program!cc(code) = 1
  BY <1>1 DEF Program!Decode, Program!Legal01
<1>2. CASE Program!cc(code) = 2
  BY <1>2 DEF Program!Decode
<1>3. CASE Program!cc(code) = 0
  BY <1>3 DEF Program!Decode
<1>4. CASE Program!cc(code) = 3
  BY <1>4 DEF Program!Decode
<1>. QED  BY <1>1, <1>2, <1>3, <1>4

(* The table, entry by entry. *)
LEMMA Row0Entries ==
  /\ opcodes[0] = <<"BRK", "impl">> /\ opcodes[1] = <<"ORA", "x_ind">>
  /\ opcodes[2] = XX /\ opcodes[3] = XX
  /\ opcodes[4] = XX /\ opcodes[5] = <<"ORA", "zpg">>
  /\ opcodes[6] = <<"ASL", "zpg">> /\ opcodes[7] = XX
  /\ opcodes[8] = <<"PHP", "impl">> /\ opcodes[9] = <<"ORA", "imm">>
  /\ opcodes[10] = <<"ASL", "acc">> /\ opcodes[11] = XX
  /\ opcodes[12] = XX /\ opcodes[13] = <<"ORA", "abs">>
  /\ opcodes[14] = <<"ASL", "abs">> /\ opcodes[15] = XX
BY DEF opcodes, Row0
LEMMA Row1Entries ==
  /\ opcodes[16] = <<"BPL", "rel">> /\ opcodes[17] = <<"ORA", "ind_y">>
  /\ opcodes[18] = XX /\ opcodes[19] = XX
  /\ opcodes[20] = XX /\ opcodes[21] = <<"ORA", "zpg_x">>
  /\ opcodes[22] = <<"ASL", "zpg_x">> /\ opcodes[23] = XX
  /\ opcodes[24] = <<"CLC", "impl">> /\ opcodes[25] = <<"ORA", "abs_y">>
  /\ opcodes[26] = XX /\ opcodes[27] = XX
  /\ opcodes[28] = XX /\ opcodes[29] = <<"ORA", "abs_x">>
  /\ opcodes[30] = <<"ASL", "abs_x">> /\ opcodes[31] = XX
BY DEF opcodes, Row1
LEMMA Row2Entries ==
  /\ opcodes[32] = <<"JSR", "abs">> /\ opcodes[33] = <<"AND", "x_ind">>
  /\ opcodes[34] = XX /\ opcodes[35] = XX
  /\ opcodes[36] = <<"BIT", "zpg">> /\ opcodes[37] = <<"AND", "zpg">>
  /\ opcodes[38] = <<"ROL", "zpg">> /\ opcodes[39] = XX
  /\ opcodes[40] = <<"PLP", "impl">> /\ opcodes[41] = <<"AND", "imm">>
  /\ opcodes[42] = <<"ROL", "acc">> /\ opcodes[43] = XX
  /\ opcodes[44] = <<"BIT", "abs">> /\ opcodes[45] = <<"AND", "abs">>
  /\ opcodes[46] = <<"ROL", "abs">> /\ opcodes[47] = XX
BY DEF opcodes, Row2
LEMMA Row3Entries ==
  /\ opcodes[48] = <<"BMI", "rel">> /\ opcodes[49] = <<"AND", "ind_y">>
  /\ opcodes[50] = XX /\ opcodes[51] = XX
  /\ opcodes[52] = XX /\ opcodes[53] = <<"AND", "zpg_x">>
  /\ opcodes[54] = <<"ROL", "zpg_x">> /\ opcodes[55] = XX
  /\ opcodes[56] = <<"SEC", "impl">> /\ opcodes[57] = <<"AND", "abs_y">>
  /\ opcodes[58] = XX /\ opcodes[59] = XX
  /\ opcodes[60] = XX /\ opcodes[61] = <<"AND", "abs_x">>
  /\ opcodes[62] = <<"ROL", "abs_x">> /\ opcodes[63] = XX
BY DEF opcodes, Row3
LEMMA Row4Entries ==
  /\ opcodes[64] = <<"RTI", "impl">> /\ opcodes[65] = <<"EOR", "x_ind">>
  /\ opcodes[66] = XX /\ opcodes[67] = XX
  /\ opcodes[68] = XX /\ opcodes[69] = <<"EOR", "zpg">>
  /\ opcodes[70] = <<"LSR", "zpg">> /\ opcodes[71] = XX
  /\ opcodes[72] = <<"PHA", "impl">> /\ opcodes[73] = <<"EOR", "imm">>
  /\ opcodes[74] = <<"LSR", "acc">> /\ opcodes[75] = XX
  /\ opcodes[76] = <<"JMP", "abs">> /\ opcodes[77] = <<"EOR", "abs">>
  /\ opcodes[78] = <<"LSR", "abs">> /\ opcodes[79] = XX
BY DEF opcodes, Row4
LEMMA Row5Entries ==
  /\ opcodes[80] = <<"BVC", "rel">> /\ opcodes[81] = <<"EOR", "ind_y">>
  /\ opcodes[82] = XX /\ opcodes[83] = XX
  /\ opcodes[84] = XX /\ opcodes[85] = <<"EOR", "zpg_x">>
  /\ opcodes[86] = <<"LSR", "zpg_x">> /\ opcodes[87] = XX
  /\ opcodes[88] = <<"CLI", "impl">> /\ opcodes[89] = <<"EOR", "abs_y">>
  /\ opcodes[90] = XX /\ opcodes[91] = XX
  /\ opcodes[92] = XX /\ opcodes[93] = <<"EOR", "abs_x">>
  /\ opcodes[94] = <<"LSR", "abs_x">> /\ opcodes[95] = XX
BY DEF opcodes, Row5
LEMMA Row6Entries ==
  /\ opcodes[96] = <<"RTS", "impl">> /\ opcodes[97] = <<"ADC", "x_ind">>
  /\ opcodes[98] = XX /\ opcodes[99] = XX
  /\ opcodes[100] = XX /\ opcodes[101] = <<"ADC", "zpg">>
  /\ opcodes[102] = <<"ROR", "zpg">> /\ opcodes[103] = XX
  /\ opcodes[104] = <<"PLA", "impl">> /\ opcodes[105] = <<"ADC", "imm">>
  /\ opcodes[106] = <<"ROR", "acc">> /\ opcodes[107] = XX
  /\ opcodes[108] = <<"JMP", "ind">> /\ opcodes[109] = <<"ADC", "abs">>
  /\ opcodes[110] = <<"ROR", "abs">> /\ opcodes[111] = XX
BY DEF opcodes, Row6
LEMMA Row7Entries ==
  /\ opcodes[112] = <<"BVS", "rel">> /\ opcodes[113] = <<"ADC", "ind_y">>
  /\ opcodes[114] = XX /\ opcodes[115] = XX
  /\ opcodes[116] = XX /\ opcodes[117] = <<"ADC", "zpg_x">>
  /\ opcodes[118] = <<"ROR", "zpg_x">> /\ opcodes[119] = XX
  /\ opcodes[120] = <<"SEI", "impl">> /\ opcodes[121] = <<"ADC", "abs_y">>
  /\ opcodes[122] = XX /\ opcodes[123] = XX
  /\ opcodes[124] = XX /\ opcodes[125] = <<"ADC", "abs_x">>
  /\ opcodes[126] = <<"ROR", "abs_x">> /\ opcodes[127] = XX
BY DEF opcodes, Row7
LEMMA Row8Entries ==
  /\ opcodes[128] = XX /\ opcodes[129] = <<"STA", "x_ind">>
  /\ opcodes[130] = XX /\ opcodes[131] = XX
  /\ opcodes[132] = <<"STY", "zpg">> /\ opcodes[133] = <<"STA", "zpg">>
  /\ opcodes[134] = <<"STX", "zpg">> /\ opcodes[135] = XX
  /\ opcodes[136] = <<"DEY", "impl">> /\ opcodes[137] = XX
  /\ opcodes[138] = <<"TXA", "impl">> /\ opcodes[139] = XX
  /\ opcodes[140] = <<"STY", "abs">> /\ opcodes[141] = <<"STA", "abs">>
  /\ opcodes[142] = <<"STX", "abs">> /\ opcodes[143] = XX
BY DEF opcodes, Row8
LEMMA Row9Entries ==
  /\ opcodes[144] = <<"BCC", "rel">> /\ opcodes[145] = <<"STA", "ind_y">>
  /\ opcodes[146] = XX /\ opcodes[147] = XX
  /\ opcodes[148] = <<"STY", "zpg_x">> /\ opcodes[149] = <<"STA", "zpg_x">>
  /\ opcodes[150] = <<"STX", "zpg_y">> /\ opcodes[151] = XX
  /\ opcodes[152] = <<"TYA", "impl">> /\ opcodes[153] = <<"STA", "abs_y">>
  /\ opcodes[154] = <<"TXS", "impl">> /\ opcodes[155] = XX
  /\ opcodes[156] = XX /\ opcodes[157] = <<"STA", "abs_x">>
  /\ opcodes[158] = XX /\ opcodes[159] = XX
BY DEF opcodes, Row9
LEMMA RowAEntries ==
  /\ opcodes[160] = <<"LDY", "imm">> /\ opcodes[161] = <<"LDA", "x_ind">>
  /\ opcodes[162] = <<"LDX", "imm">> /\ opcodes[163] = XX
  /\ opcodes[164] = <<"LDY", "zpg">> /\ opcodes[165] = <<"LDA", "zpg">>
  /\ opcodes[166] = <<"LDX", "zpg">> /\ opcodes[167] = XX
  /\ opcodes[168] = <<"TAY", "impl">> /\ opcodes[169] = <<"LDA", "imm">>
  /\ opcodes[170] = <<"TAX", "impl">> /\ opcodes[171] = XX
  /\ opcodes[172] = <<"LDY", "abs">> /\ opcodes[173] = <<"LDA", "abs">>
  /\ opcodes[174] = <<"LDX", "abs">> /\ opcodes[175] = XX
BY DEF opcodes, RowA
LEMMA RowBEntries ==
  /\ opcodes[176] = <<"BCS", "rel">> /\ opcodes[177] = <<"LDA", "ind_y">>
  /\ opcodes[178] = XX /\ opcodes[179] = XX
  /\ opcodes[180] = <<"LDY", "zpg_x">> /\ opcodes[181] = <<"LDA", "zpg_x">>
  /\ opcodes[182] = <<"LDX", "zpg_y">> /\ opcodes[183] = XX
  /\ opcodes[184] = <<"CLV", "impl">> /\ opcodes[185] = <<"LDA", "abs_y">>
  /\ opcodes[186] = <<"TSX", "impl">> /\ opcodes[187] = XX
  /\ opcodes[188] = <<"LDY", "abs_x">> /\ opcodes[189] = <<"LDA", "abs_x">>
  /\ opcodes[190] = <<"LDX", "abs_y">> /\ opcodes[191] = XX
BY DEF opcodes, RowB
LEMMA RowCEntries ==
  /\ opcodes[192] = <<"CPY", "imm">> /\ opcodes[193] = <<"CMP", "x_ind">>
  /\ opcodes[194] = XX /\ opcodes[195] = XX
  /\ opcodes[196] = <<"CPY", "zpg">> /\ opcodes[197] = <<"CMP", "zpg">>
  /\ opcodes[198] = <<"DEC", "zpg">> /\ opcodes[199] = XX
  /\ opcodes[200] = <<"INY", "impl">> /\ opcodes[201] = <<"CMP", "imm">>
  /\ opcodes[202] = <<"DEX", "impl">> /\ opcodes[203] = XX
  /\ opcodes[204] = <<"CPY", "abs">> /\ opcodes[205] = <<"CMP", "abs">>
  /\ opcodes[206] = <<"DEC", "abs">> /\ opcodes[207] = XX
BY DEF opcodes, RowC
LEMMA RowDEntries ==
  /\ opcodes[208] = <<"BNE", "rel">> /\ opcodes[209] = <<"CMP", "ind_y">>
  /\ opcodes[210] = XX /\ opcodes[211] = XX
  /\ opcodes[212] = XX /\ opcodes[213] = <<"CMP", "zpg_x">>
  /\ opcodes[214] = <<"DEC", "zpg_x">> /\ opcodes[215] = XX
  /\ opcodes[216] = <<"CLD", "impl">> /\ opcodes[217] = <<"CMP", "abs_y">>
  /\ opcodes[218] = XX /\ opcodes[219] = XX
  /\ opcodes[220] = XX /\ opcodes[221] = <<"CMP", "abs_x">>
  /\ opcodes[222] = <<"DEC", "abs_x">> /\ opcodes[223] = XX
BY DEF opcodes, RowD
LEMMA RowEEntries ==
  /\ opcodes[224] = <<"CPX", "imm">> /\ opcodes[225] = <<"SBC", "x_ind">>
  /\ opcodes[226] = XX /\ opcodes[227] = XX
  /\ opcodes[228] = <<"CPX", "zpg">> /\ opcodes[229] = <<"SBC", "zpg">>
  /\ opcodes[230] = <<"INC", "zpg">> /\ opcodes[231] = XX
  /\ opcodes[232] = <<"INX", "impl">> /\ opcodes[233] = <<"SBC", "imm">>
  /\ opcodes[234] = <<"NOP", "impl">> /\ opcodes[235] = XX
  /\ opcodes[236] = <<"CPX", "abs">> /\ opcodes[237] = <<"SBC", "abs">>
  /\ opcodes[238] = <<"INC", "abs">> /\ opcodes[239] = XX
BY DEF opcodes, RowE
LEMMA RowFEntries ==
  /\ opcodes[240] = <<"BEQ", "rel">> /\ opcodes[241] = <<"SBC", "ind_y">>
  /\ opcodes[242] = XX /\ opcodes[243] = XX
  /\ opcodes[244] = XX /\ opcodes[245] = <<"SBC", "zpg_x">>
  /\ opcodes[246] = <<"INC", "zpg_x">> /\ opcodes[247] = XX
  /\ opcodes[248] = <<"SED", "impl">> /\ opcodes[249] = <<"SBC", "abs_y">>
  /\ opcodes[250] = XX /\ opcodes[251] = XX
  /\ opcodes[252] = XX /\ opcodes[253] = <<"SBC", "abs_x">>
  /\ opcodes[254] = <<"INC", "abs_x">> /\ opcodes[255] = XX
BY DEF opcodes, RowF

(* An opcode without a handler is no instruction. *)
Agrees(code) ==
  Program!Decode(code) = IF opcodes[code] = XX THEN <<"none", "impl">> ELSE opcodes[code]

(***************************************************************************)
(* The table gives every opcode the operation and the addressing mode that *)
(* its bits say.  JSR is the exception: Isa names no mode for its operand. *)
(***************************************************************************)
LEMMA OpcodesAgree ==
  /\ \A code \in Byte \ {32} : Agrees(code)
  /\ Program!Decode(32) = <<"JSR", "impl">> /\ opcodes[32] = <<"JSR", "abs">>
<1>1. /\ Agrees(0) /\ Agrees(8) /\ Agrees(24)
  BY SingleOpcodes, DecodeSingle, Row0Entries, Row1Entries
     DEF Agrees, XX
<1>2. Agrees(32 * 0 + 16)
  BY DecodeBranch, Row0Entries, Row1Entries
     DEF Agrees, XX, Program!Branches
<1>3. /\ Agrees(1) /\ Agrees(5) /\ Agrees(9) /\ Agrees(13) /\ Agrees(17)
      /\ Agrees(21) /\ Agrees(25) /\ Agrees(29)
  BY SingleOpcodes, DecodeRegular, Row0Entries, Row1Entries
     DEF Agrees, XX, Byte, Program!aaa, Program!bbb, Program!cc,
         Program!Accumulator, Program!Column01
<1>4. /\ Agrees(2) /\ Agrees(6) /\ Agrees(10) /\ Agrees(14) /\ Agrees(18)
      /\ Agrees(22) /\ Agrees(26) /\ Agrees(30)
  BY SingleOpcodes, DecodeRegular, Row0Entries, Row1Entries
     DEF Agrees, XX, Byte, Program!aaa, Program!bbb, Program!cc,
         Program!Shift, Program!Column10, Program!Legal10, Program!IndexedByX
<1>5. /\ Agrees(4) /\ Agrees(12) /\ Agrees(20) /\ Agrees(28)
  BY SingleOpcodes, DecodeRegular, Row0Entries, Row1Entries
     DEF Agrees, XX, Byte, Program!aaa, Program!bbb, Program!cc,
         Program!Control, Program!Column10, Program!Legal00
<1>6. /\ Agrees(3) /\ Agrees(7) /\ Agrees(11) /\ Agrees(15) /\ Agrees(19)
      /\ Agrees(23) /\ Agrees(27) /\ Agrees(31)
  BY SingleOpcodes, DecodeRegular, Row0Entries, Row1Entries
     DEF Agrees, XX, Byte, Program!aaa, Program!bbb, Program!cc
<1>7. /\ Agrees(40) /\ Agrees(56)
  BY SingleOpcodes, DecodeSingle, Row2Entries, Row3Entries
     DEF Agrees, XX
<1>8. Agrees(32 * 1 + 16)
  BY DecodeBranch, Row2Entries, Row3Entries
     DEF Agrees, XX, Program!Branches
<1>9. /\ Agrees(33) /\ Agrees(37) /\ Agrees(41) /\ Agrees(45) /\ Agrees(49)
      /\ Agrees(53) /\ Agrees(57) /\ Agrees(61)
  BY SingleOpcodes, DecodeRegular, Row2Entries, Row3Entries
     DEF Agrees, XX, Byte, Program!aaa, Program!bbb, Program!cc,
         Program!Accumulator, Program!Column01
<1>10. /\ Agrees(34) /\ Agrees(38) /\ Agrees(42) /\ Agrees(46) /\ Agrees(50)
      /\ Agrees(54) /\ Agrees(58) /\ Agrees(62)
  BY SingleOpcodes, DecodeRegular, Row2Entries, Row3Entries
     DEF Agrees, XX, Byte, Program!aaa, Program!bbb, Program!cc,
         Program!Shift, Program!Column10, Program!Legal10, Program!IndexedByX
<1>11. /\ Agrees(36) /\ Agrees(44) /\ Agrees(52) /\ Agrees(60)
  BY SingleOpcodes, DecodeRegular, Row2Entries, Row3Entries
     DEF Agrees, XX, Byte, Program!aaa, Program!bbb, Program!cc,
         Program!Control, Program!Column10, Program!Legal00
<1>12. /\ Agrees(35) /\ Agrees(39) /\ Agrees(43) /\ Agrees(47) /\ Agrees(51)
      /\ Agrees(55) /\ Agrees(59) /\ Agrees(63)
  BY SingleOpcodes, DecodeRegular, Row2Entries, Row3Entries
     DEF Agrees, XX, Byte, Program!aaa, Program!bbb, Program!cc
<1>13. /\ Agrees(64) /\ Agrees(72) /\ Agrees(88)
  BY SingleOpcodes, DecodeSingle, Row4Entries, Row5Entries
     DEF Agrees, XX
<1>14. Agrees(32 * 2 + 16)
  BY DecodeBranch, Row4Entries, Row5Entries
     DEF Agrees, XX, Program!Branches
<1>15. /\ Agrees(65) /\ Agrees(69) /\ Agrees(73) /\ Agrees(77) /\ Agrees(81)
      /\ Agrees(85) /\ Agrees(89) /\ Agrees(93)
  BY SingleOpcodes, DecodeRegular, Row4Entries, Row5Entries
     DEF Agrees, XX, Byte, Program!aaa, Program!bbb, Program!cc,
         Program!Accumulator, Program!Column01
<1>16. /\ Agrees(66) /\ Agrees(70) /\ Agrees(74) /\ Agrees(78) /\ Agrees(82)
      /\ Agrees(86) /\ Agrees(90) /\ Agrees(94)
  BY SingleOpcodes, DecodeRegular, Row4Entries, Row5Entries
     DEF Agrees, XX, Byte, Program!aaa, Program!bbb, Program!cc,
         Program!Shift, Program!Column10, Program!Legal10, Program!IndexedByX
<1>17. /\ Agrees(68) /\ Agrees(76) /\ Agrees(84) /\ Agrees(92)
  BY SingleOpcodes, DecodeRegular, Row4Entries, Row5Entries
     DEF Agrees, XX, Byte, Program!aaa, Program!bbb, Program!cc,
         Program!Control, Program!Column10, Program!Legal00
<1>18. /\ Agrees(67) /\ Agrees(71) /\ Agrees(75) /\ Agrees(79) /\ Agrees(83)
      /\ Agrees(87) /\ Agrees(91) /\ Agrees(95)
  BY SingleOpcodes, DecodeRegular, Row4Entries, Row5Entries
     DEF Agrees, XX, Byte, Program!aaa, Program!bbb, Program!cc
<1>19. /\ Agrees(96) /\ Agrees(104) /\ Agrees(120)
  BY SingleOpcodes, DecodeSingle, Row6Entries, Row7Entries
     DEF Agrees, XX
<1>20. Agrees(32 * 3 + 16)
  BY DecodeBranch, Row6Entries, Row7Entries
     DEF Agrees, XX, Program!Branches
<1>21. /\ Agrees(97) /\ Agrees(101) /\ Agrees(105) /\ Agrees(109) /\ Agrees(113)
      /\ Agrees(117) /\ Agrees(121) /\ Agrees(125)
  BY SingleOpcodes, DecodeRegular, Row6Entries, Row7Entries
     DEF Agrees, XX, Byte, Program!aaa, Program!bbb, Program!cc,
         Program!Accumulator, Program!Column01
<1>22. /\ Agrees(98) /\ Agrees(102) /\ Agrees(106) /\ Agrees(110) /\ Agrees(114)
      /\ Agrees(118) /\ Agrees(122) /\ Agrees(126)
  BY SingleOpcodes, DecodeRegular, Row6Entries, Row7Entries
     DEF Agrees, XX, Byte, Program!aaa, Program!bbb, Program!cc,
         Program!Shift, Program!Column10, Program!Legal10, Program!IndexedByX
<1>23. /\ Agrees(100) /\ Agrees(108) /\ Agrees(116) /\ Agrees(124)
  BY SingleOpcodes, DecodeRegular, Row6Entries, Row7Entries
     DEF Agrees, XX, Byte, Program!aaa, Program!bbb, Program!cc,
         Program!Control, Program!Column10, Program!Legal00
<1>24. /\ Agrees(99) /\ Agrees(103) /\ Agrees(107) /\ Agrees(111) /\ Agrees(115)
      /\ Agrees(119) /\ Agrees(123) /\ Agrees(127)
  BY SingleOpcodes, DecodeRegular, Row6Entries, Row7Entries
     DEF Agrees, XX, Byte, Program!aaa, Program!bbb, Program!cc
<1>25. /\ Agrees(136) /\ Agrees(138) /\ Agrees(152) /\ Agrees(154)
  BY SingleOpcodes, DecodeSingle, Row8Entries, Row9Entries
     DEF Agrees, XX
<1>26. Agrees(32 * 4 + 16)
  BY DecodeBranch, Row8Entries, Row9Entries
     DEF Agrees, XX, Program!Branches
<1>27. /\ Agrees(129) /\ Agrees(133) /\ Agrees(137) /\ Agrees(141) /\ Agrees(145)
      /\ Agrees(149) /\ Agrees(153) /\ Agrees(157)
  BY SingleOpcodes, DecodeRegular, Row8Entries, Row9Entries
     DEF Agrees, XX, Byte, Program!aaa, Program!bbb, Program!cc,
         Program!Accumulator, Program!Column01
<1>28. /\ Agrees(130) /\ Agrees(134) /\ Agrees(142) /\ Agrees(146) /\ Agrees(150)
      /\ Agrees(158)
  BY SingleOpcodes, DecodeRegular, Row8Entries, Row9Entries
     DEF Agrees, XX, Byte, Program!aaa, Program!bbb, Program!cc,
         Program!Shift, Program!Column10, Program!Legal10, Program!IndexedByX
<1>29. /\ Agrees(128) /\ Agrees(132) /\ Agrees(140) /\ Agrees(148) /\ Agrees(156)
  BY SingleOpcodes, DecodeRegular, Row8Entries, Row9Entries
     DEF Agrees, XX, Byte, Program!aaa, Program!bbb, Program!cc,
         Program!Control, Program!Column10, Program!Legal00
<1>30. /\ Agrees(131) /\ Agrees(135) /\ Agrees(139) /\ Agrees(143) /\ Agrees(147)
      /\ Agrees(151) /\ Agrees(155) /\ Agrees(159)
  BY SingleOpcodes, DecodeRegular, Row8Entries, Row9Entries
     DEF Agrees, XX, Byte, Program!aaa, Program!bbb, Program!cc
<1>31. /\ Agrees(168) /\ Agrees(170) /\ Agrees(184) /\ Agrees(186)
  BY SingleOpcodes, DecodeSingle, RowAEntries, RowBEntries
     DEF Agrees, XX
<1>32. Agrees(32 * 5 + 16)
  BY DecodeBranch, RowAEntries, RowBEntries
     DEF Agrees, XX, Program!Branches
<1>33. /\ Agrees(161) /\ Agrees(165) /\ Agrees(169) /\ Agrees(173) /\ Agrees(177)
      /\ Agrees(181) /\ Agrees(185) /\ Agrees(189)
  BY SingleOpcodes, DecodeRegular, RowAEntries, RowBEntries
     DEF Agrees, XX, Byte, Program!aaa, Program!bbb, Program!cc,
         Program!Accumulator, Program!Column01
<1>34. /\ Agrees(162) /\ Agrees(166) /\ Agrees(174) /\ Agrees(178) /\ Agrees(182)
      /\ Agrees(190)
  BY SingleOpcodes, DecodeRegular, RowAEntries, RowBEntries
     DEF Agrees, XX, Byte, Program!aaa, Program!bbb, Program!cc,
         Program!Shift, Program!Column10, Program!Legal10, Program!IndexedByX
<1>35. /\ Agrees(160) /\ Agrees(164) /\ Agrees(172) /\ Agrees(180) /\ Agrees(188)
  BY SingleOpcodes, DecodeRegular, RowAEntries, RowBEntries
     DEF Agrees, XX, Byte, Program!aaa, Program!bbb, Program!cc,
         Program!Control, Program!Column10, Program!Legal00
<1>36. /\ Agrees(163) /\ Agrees(167) /\ Agrees(171) /\ Agrees(175) /\ Agrees(179)
      /\ Agrees(183) /\ Agrees(187) /\ Agrees(191)
  BY SingleOpcodes, DecodeRegular, RowAEntries, RowBEntries
     DEF Agrees, XX, Byte, Program!aaa, Program!bbb, Program!cc
<1>37. /\ Agrees(200) /\ Agrees(202) /\ Agrees(216)
  BY SingleOpcodes, DecodeSingle, RowCEntries, RowDEntries
     DEF Agrees, XX
<1>38. Agrees(32 * 6 + 16)
  BY DecodeBranch, RowCEntries, RowDEntries
     DEF Agrees, XX, Program!Branches
<1>39. /\ Agrees(193) /\ Agrees(197) /\ Agrees(201) /\ Agrees(205) /\ Agrees(209)
      /\ Agrees(213) /\ Agrees(217) /\ Agrees(221)
  BY SingleOpcodes, DecodeRegular, RowCEntries, RowDEntries
     DEF Agrees, XX, Byte, Program!aaa, Program!bbb, Program!cc,
         Program!Accumulator, Program!Column01
<1>40. /\ Agrees(194) /\ Agrees(198) /\ Agrees(206) /\ Agrees(210) /\ Agrees(214)
      /\ Agrees(218) /\ Agrees(222)
  BY SingleOpcodes, DecodeRegular, RowCEntries, RowDEntries
     DEF Agrees, XX, Byte, Program!aaa, Program!bbb, Program!cc,
         Program!Shift, Program!Column10, Program!Legal10, Program!IndexedByX
<1>41. /\ Agrees(192) /\ Agrees(196) /\ Agrees(204) /\ Agrees(212) /\ Agrees(220)
  BY SingleOpcodes, DecodeRegular, RowCEntries, RowDEntries
     DEF Agrees, XX, Byte, Program!aaa, Program!bbb, Program!cc,
         Program!Control, Program!Column10, Program!Legal00
<1>42. /\ Agrees(195) /\ Agrees(199) /\ Agrees(203) /\ Agrees(207) /\ Agrees(211)
      /\ Agrees(215) /\ Agrees(219) /\ Agrees(223)
  BY SingleOpcodes, DecodeRegular, RowCEntries, RowDEntries
     DEF Agrees, XX, Byte, Program!aaa, Program!bbb, Program!cc
<1>43. /\ Agrees(232) /\ Agrees(234) /\ Agrees(248)
  BY SingleOpcodes, DecodeSingle, RowEEntries, RowFEntries
     DEF Agrees, XX
<1>44. Agrees(32 * 7 + 16)
  BY DecodeBranch, RowEEntries, RowFEntries
     DEF Agrees, XX, Program!Branches
<1>45. /\ Agrees(225) /\ Agrees(229) /\ Agrees(233) /\ Agrees(237) /\ Agrees(241)
      /\ Agrees(245) /\ Agrees(249) /\ Agrees(253)
  BY SingleOpcodes, DecodeRegular, RowEEntries, RowFEntries
     DEF Agrees, XX, Byte, Program!aaa, Program!bbb, Program!cc,
         Program!Accumulator, Program!Column01
<1>46. /\ Agrees(226) /\ Agrees(230) /\ Agrees(238) /\ Agrees(242) /\ Agrees(246)
      /\ Agrees(250) /\ Agrees(254)
  BY SingleOpcodes, DecodeRegular, RowEEntries, RowFEntries
     DEF Agrees, XX, Byte, Program!aaa, Program!bbb, Program!cc,
         Program!Shift, Program!Column10, Program!Legal10, Program!IndexedByX
<1>47. /\ Agrees(224) /\ Agrees(228) /\ Agrees(236) /\ Agrees(244) /\ Agrees(252)
  BY SingleOpcodes, DecodeRegular, RowEEntries, RowFEntries
     DEF Agrees, XX, Byte, Program!aaa, Program!bbb, Program!cc,
         Program!Control, Program!Column10, Program!Legal00
<1>48. /\ Agrees(227) /\ Agrees(231) /\ Agrees(235) /\ Agrees(239) /\ Agrees(243)
      /\ Agrees(247) /\ Agrees(251) /\ Agrees(255)
  BY SingleOpcodes, DecodeRegular, RowEEntries, RowFEntries
     DEF Agrees, XX, Byte, Program!aaa, Program!bbb, Program!cc
<1>49. Program!Decode(32) = <<"JSR", "impl">> /\ opcodes[32] = <<"JSR", "abs">>
  BY SingleOpcodes, DecodeSingle, Row2Entries
<1>. QED
  BY <1>1, <1>2, <1>3, <1>4, <1>5, <1>6, <1>7, <1>8, <1>9, <1>10, <1>11, <1>12, <1>13, <1>14, <1>15, <1>16, <1>17, <1>18, <1>19, <1>20, <1>21, <1>22, <1>23, <1>24, <1>25, <1>26, <1>27, <1>28, <1>29, <1>30, <1>31, <1>32, <1>33, <1>34, <1>35, <1>36, <1>37, <1>38, <1>39, <1>40, <1>41, <1>42, <1>43, <1>44, <1>45, <1>46, <1>47, <1>48, <1>49 DEF Byte

----------------------------------------------------------------------------
(* The machine of Isa, field by field. *)

IsState(s) ==
  /\ s = State(s.r.A, s.r.X, s.r.Y, s.r.S, s.r.PC, s.r.status, s.m)
  /\ s.r \in Program!Registers
  /\ MemoryType(s.m)

LEMMA StateFields ==
  ASSUME NEW A, NEW X, NEW Y, NEW S, NEW PC, NEW status, NEW m
  PROVE  LET s == State(A, X, Y, S, PC, status, m)
         IN  /\ s.r = Regs(A, X, Y, S, PC, status) /\ s.m = m
             /\ s.r.A = A /\ s.r.X = X /\ s.r.Y = Y /\ s.r.S = S
             /\ s.r.PC = PC /\ s.r.status = status
BY DEF State, Regs

LEMMA RegsUpdates ==
  ASSUME NEW A, NEW X, NEW Y, NEW S, NEW PC, NEW status, NEW v
  PROVE  LET r == Regs(A, X, Y, S, PC, status)
         IN  /\ [r EXCEPT !.PC = v] = Regs(A, X, Y, S, v, status)
             /\ [r EXCEPT !.S = v] = Regs(A, X, Y, v, PC, status)
             /\ [r EXCEPT !.A = v] = Regs(v, X, Y, S, PC, status)
             /\ [r EXCEPT !.X = v] = Regs(A, v, Y, S, PC, status)
             /\ [r EXCEPT !.Y = v] = Regs(A, X, v, S, PC, status)
             /\ [r EXCEPT !.status = v] = Regs(A, X, Y, S, PC, v)
BY DEF Regs

LEMMA StateUpdates ==
  ASSUME NEW A, NEW X, NEW Y, NEW S, NEW PC, NEW status, NEW m, NEW v
  PROVE  LET s == State(A, X, Y, S, PC, status, m)
         IN  /\ [s EXCEPT !.r.PC = v] = State(A, X, Y, S, v, status, m)
             /\ [s EXCEPT !.r.S = v] = State(A, X, Y, v, PC, status, m)
             /\ [s EXCEPT !.r.A = v] = State(v, X, Y, S, PC, status, m)
             /\ [s EXCEPT !.r.status = v] = State(A, X, Y, S, PC, v, m)
             /\ [s EXCEPT !.m = v] = State(A, X, Y, S, PC, status, v)
             /\ [s EXCEPT !.r = v] = [r |-> v, m |-> m]
BY DEF State, Regs

LEMMA JumpState ==
  ASSUME NEW A, NEW X, NEW Y, NEW S, NEW PC, NEW status, NEW m, NEW w
  PROVE  Program!Jump(State(A, X, Y, S, PC, status, m), w)
           = State(A, X, Y, S, U16(w), status, m)
BY SameBytes DEF Program!Jump, State, Regs

LEMMA PushedState ==
  ASSUME NEW A, NEW X, NEW Y, NEW S, NEW PC, NEW status, NEW m, NEW b
  PROVE  Program!Pushed(State(A, X, Y, S, PC, status, m), b)
           = State(A, X, Y, U8(S - 1), PC, status, Store(m, 256 + U8(S + 0), b))
<1>. DEFINE s == State(A, X, Y, S, PC, status, m)
<1>1. Program!Pushed(s, b) = [r |-> [s.r EXCEPT !.S = U8(s.r.S - 1)],
                              m |-> Store(s.m, 256 + U8(s.r.S + 0), b)]
  BY SameBytes, SameMemory DEF Program!Pushed, Program!Slot
<1>2. s.r = Regs(A, X, Y, S, PC, status) /\ s.r.S = S /\ s.m = m
  BY StateFields
<1>3. [Regs(A, X, Y, S, PC, status) EXCEPT !.S = U8(S - 1)]
        = Regs(A, X, Y, U8(S - 1), PC, status)
  BY DEF Regs
<1>. QED  BY <1>1, <1>2, <1>3 DEF State

(* The alternatives of Executed. *)
LEMMA BranchNames == {Program!Branches[i] : i \in 1..8} = BranchOps
BY DEF Program!Branches, BranchOps

LEMMA ExecutedCases ==
  ASSUME NEW s, NEW op, NEW mode
  PROVE  LET after == Program!Jump(s, s.r.PC + Program!Length(op, mode))
             E     == Program!Executed(s, op, mode)
         IN  /\ op \in ReadOps =>
                  E = [after EXCEPT !.r = Program!Reading(@, op, Program!Operand(s, mode))]
             /\ op \in StoreOps =>
                  E = [after EXCEPT !.m = Program!Poke(@, Program!EffectiveAddress(s, mode),
                                                       Stored(s.r, op))]
             /\ op \in ImpliedOps => E = [after EXCEPT !.r = Program!Inherent(@, op)]
             /\ op \in BranchOps =>
                  E = IF Program!Condition(op, s.r.status)
                      THEN Program!Jump(after, after.r.PC + Program!Signed(Program!Argument(s, 1)))
                      ELSE after
<1>1. CASE op \in ReadOps
  BY <1>1, BranchNames
     DEF Program!Executed, ReadOps, BranchOps, StoreOps, ImpliedOps, FlagOps, RegOps
<1>2. CASE op \in StoreOps
  BY <1>2, BranchNames
     DEF Program!Executed, ReadOps, BranchOps, StoreOps, ImpliedOps, FlagOps, RegOps, Stored
<1>3. CASE op \in ImpliedOps
  BY <1>3, BranchNames
     DEF Program!Executed, ReadOps, BranchOps, StoreOps, ImpliedOps, FlagOps, RegOps
<1>4. CASE op \in BranchOps
  BY <1>4, BranchNames
     DEF Program!Executed, ReadOps, BranchOps, StoreOps, ImpliedOps, FlagOps, RegOps
<1>. QED  BY <1>1, <1>2, <1>3, <1>4

LEMMA ExecutedOthers ==
  ASSUME NEW s, NEW mode, NEW op
  PROVE  LET after == Program!Jump(s, s.r.PC + Program!Length(op, mode))
             E     == Program!Executed(s, op, mode)
         IN  /\ op \in ModifyOps /\ mode = "acc" =>
                  LET new == Program!Changing(s.r.status, op, s.r.A)
                  IN  E = [after EXCEPT !.r.A = new.res, !.r.status = new.status]
             /\ op \in ModifyOps /\ mode # "acc" =>
                  LET new == Program!Changing(s.r.status, op, Program!Operand(s, mode))
                  IN  E = [after EXCEPT !.m = Program!Poke(@, Program!EffectiveAddress(s, mode),
                                                           new.res),
                                        !.r.status = new.status]
BY BranchNames
   DEF Program!Executed, ModifyOps, BranchOps, StoreOps, ImpliedOps, FlagOps, RegOps

LEMMA ExecutedStack ==
  ASSUME NEW s, NEW mode
  PROVE  /\ Program!Executed(s, "PHA", mode) =
              Program!Pushed(Program!Jump(s, s.r.PC + Program!Length("PHA", mode)), s.r.A)
         /\ Program!Executed(s, "PHP", mode) =
              Program!PushedStatus(Program!Jump(s, s.r.PC + Program!Length("PHP", mode)))
         /\ Program!Executed(s, "PLA", mode) =
              LET after == Program!Jump(s, s.r.PC + Program!Length("PLA", mode))
              IN  [after EXCEPT !.r = Program!Loaded(Program!Popped(after.r, 1), "A",
                                                     Program!Peek(s.m, Program!Slot(s.r, 1)))]
         /\ Program!Executed(s, "PLP", mode) =
              [Program!Jump(s, s.r.PC + Program!Length("PLP", mode)) EXCEPT
                 !.r.S = Program!U8(@ + 1),
                 !.r.status = Program!StatusOf(Program!Peek(s.m, Program!Slot(s.r, 1)))]
<1>1. "PHA" \notin BranchOps /\ "PHP" \notin BranchOps /\ "PLA" \notin BranchOps
      /\ "PLP" \notin BranchOps
  BY DEF BranchOps
<1>2. Program!Executed(s, "PHA", mode) =
        Program!Pushed(Program!Jump(s, s.r.PC + Program!Length("PHA", mode)), s.r.A)
  BY <1>1, BranchNames DEF Program!Executed
<1>3. Program!Executed(s, "PHP", mode) =
        Program!PushedStatus(Program!Jump(s, s.r.PC + Program!Length("PHP", mode)))
  BY <1>1, BranchNames DEF Program!Executed
<1>4. Program!Executed(s, "PLA", mode) =
        LET after == Program!Jump(s, s.r.PC + Program!Length("PLA", mode))
        IN  [after EXCEPT !.r = Program!Loaded(Program!Popped(after.r, 1), "A",
                                               Program!Peek(s.m, Program!Slot(s.r, 1)))]
  BY <1>1, BranchNames DEF Program!Executed
<1>5. Program!Executed(s, "PLP", mode) =
        [Program!Jump(s, s.r.PC + Program!Length("PLP", mode)) EXCEPT
           !.r.S = Program!U8(@ + 1),
           !.r.status = Program!StatusOf(Program!Peek(s.m, Program!Slot(s.r, 1)))]
  BY <1>1, BranchNames DEF Program!Executed
<1>. QED  BY <1>2, <1>3, <1>4, <1>5

LEMMA ExecutedJumps ==
  ASSUME NEW s, NEW mode
  PROVE  /\ Program!Executed(s, "JMP", mode) =
              Program!Jump(s, IF mode = "ind" THEN Program!JumpTarget(s) ELSE Program!Address(s))
         /\ Program!Executed(s, "JSR", mode) =
              LET called == Program!PushedWord(s, Program!U16(s.r.PC + 2))
              IN  Program!Jump(called, Program!Argument(s, 1) + 256 * Program!Argument(called, 2))
         /\ Program!Executed(s, "RTS", mode) =
              Program!Jump([s EXCEPT !.r.S = Program!U8(@ + 2)], Program!WordOnStack(s, 1) + 1)
         /\ Program!Executed(s, "RTI", mode) =
              [Program!Jump([s EXCEPT !.r.S = Program!U8(@ + 3)], Program!WordOnStack(s, 2))
                 EXCEPT !.r.status = Program!StatusOf(Program!Peek(s.m, Program!Slot(s.r, 1)))]
         /\ Program!Executed(s, "BRK", mode) =
              Program!Jump([Program!PushedStatus(
                              Program!PushedWord(s, Program!U16(s.r.PC + 2)))
                              EXCEPT !.r.status = @ \cup {Program!IF_}],
                           Program!BreakVector(s))
<1>1. "JMP" \notin BranchOps /\ "JSR" \notin BranchOps /\ "RTS" \notin BranchOps
      /\ "RTI" \notin BranchOps /\ "BRK" \notin BranchOps
  BY DEF BranchOps
<1>2. Program!Executed(s, "JMP", mode) =
        Program!Jump(s, IF mode = "ind" THEN Program!JumpTarget(s) ELSE Program!Address(s))
  BY <1>1, BranchNames DEF Program!Executed
<1>3. Program!Executed(s, "JSR", mode) =
              LET called == Program!PushedWord(s, Program!U16(s.r.PC + 2))
              IN  Program!Jump(called, Program!Argument(s, 1) + 256 * Program!Argument(called, 2))
  BY <1>1, BranchNames DEF Program!Executed
<1>4. Program!Executed(s, "RTS", mode) =
              Program!Jump([s EXCEPT !.r.S = Program!U8(@ + 2)], Program!WordOnStack(s, 1) + 1)
  BY <1>1, BranchNames DEF Program!Executed
<1>5. Program!Executed(s, "RTI", mode) =
              [Program!Jump([s EXCEPT !.r.S = Program!U8(@ + 3)], Program!WordOnStack(s, 2))
                 EXCEPT !.r.status = Program!StatusOf(Program!Peek(s.m, Program!Slot(s.r, 1)))]
  BY <1>1, BranchNames DEF Program!Executed
<1>6. Program!Executed(s, "BRK", mode) =
              Program!Jump([Program!PushedStatus(
                              Program!PushedWord(s, Program!U16(s.r.PC + 2)))
                              EXCEPT !.r.status = @ \cup {Program!IF_}],
                           Program!BreakVector(s))
  BY <1>1, BranchNames DEF Program!Executed
<1>. QED  BY <1>2, <1>3, <1>4, <1>5, <1>6

----------------------------------------------------------------------------
(* Where the operand is. *)

LEMMA RegistersTypes ==
  ASSUME NEW s, IsState(s)
  PROVE  /\ s.r.A \in Byte /\ s.r.X \in Byte /\ s.r.Y \in Byte /\ s.r.S \in Byte
         /\ s.r.PC \in Word /\ s.r.status \in SUBSET Bit
         /\ s.r.status \ {BF, XF} = s.r.status
<1>0. s.r \in Program!Registers
  BY DEF IsState
<1>1. /\ s.r.A \in Byte /\ s.r.X \in Byte /\ s.r.Y \in Byte /\ s.r.S \in Byte
      /\ s.r.PC \in Word
  <2>1. Program!Byte = Byte /\ Program!Word = Word
    BY DEF Program!Byte, Program!Word, Byte, Word
  <2>. QED  BY <1>0, <2>1 DEF Program!Registers
<1>2. s.r.status \in SUBSET (Bit \ {BF, XF})
  BY <1>0 DEF Program!Registers, Program!Bit, Program!BF, Program!XF, Bit, BF, XF
<1>3. \A t \in SUBSET (Bit \ {BF, XF}) : t \in SUBSET Bit /\ t \ {BF, XF} = t
  OBVIOUS
<1>. QED  BY <1>1, <1>2, <1>3

LEMMA Assembled ==
  ASSUME NEW l \in Byte, NEW h \in Byte
  PROVE  /\ l + 256 * h \in Word /\ 256 + l \in Word /\ l \in Word
         /\ Low(l) = l /\ Low(l + 256 * h) = l /\ High(l + 256 * h) = h
         /\ U16(l + 256 * h) = l + 256 * h
<1>1. /\ l \in Int /\ 0 <= l /\ l < 256 /\ h \in Int /\ 0 <= h /\ h < 256
  BY DEF Byte
<1>2. l + 256 * h \in Word
  BY DEF Byte, Word
<1>6. 256 + l \in Word /\ l \in Word
  BY StackAddress DEF STACK_TOP_ADDR
<1>3. l % 256 = l /\ (l + 256 * h) % 256 = l
  BY <1>1
<1>4. (l + 256 * h) \div 256 = h
  BY <1>1
<1>5. (l + 256 * h) % 65536 = l + 256 * h
  BY <1>1
<1>. QED  BY <1>2, <1>3, <1>4, <1>5, <1>6 DEF Low, High, U16

LEMMA AddressTypes ==
  ASSUME NEW s, IsState(s), NEW i \in -3..3
  PROVE  /\ At(s, i) \in Word /\ Top(s, i) \in Byte
         /\ First(s) \in Byte /\ Second(s) \in Byte /\ Absolute(s) \in Word
         /\ OnStack(s, i) \in Byte
<1>1. s.r.PC \in Word /\ s.r.S \in Byte /\ MemoryType(s.m)
  BY RegistersTypes DEF IsState
<1>2. \A w \in Word, b \in Byte, j \in -3..3 : w + j \in Int /\ b + j \in Int
  BY DEF Word, Byte
<1>3. \A j \in -3..3 : At(s, j) \in Word /\ Top(s, j) \in Byte
  BY <1>1, <1>2, U16Type, U8Type DEF At, Top
<1>4. First(s) \in Byte /\ Second(s) \in Byte
  BY <1>1, <1>3, ReadType DEF First, Second
<1>5. Absolute(s) \in Word
  BY <1>4, Assembled DEF Absolute
<1>6. OnStack(s, i) \in Byte
  BY <1>1, <1>3, Assembled, ReadType DEF OnStack
<1>. QED  BY <1>3, <1>4, <1>5, <1>6

----------------------------------------------------------------------------
(* The bits B and X, which Isa does not have, have no part in an operation. *)

Seen(status) == status \ {BF, XF}

LEMMA FlagNumbers ==
  /\ {CF, ZF, IF_, DF, VF, NF} \cap {BF, XF} = {}
  /\ Program!CF = CF /\ Program!ZF = ZF /\ Program!IF_ = IF_ /\ Program!DF = DF
  /\ Program!BF = BF /\ Program!XF = XF /\ Program!VF = VF /\ Program!NF = NF
BY DEF CF, ZF, IF_, DF, BF, XF, VF, NF, Program!CF, Program!ZF, Program!IF_, Program!DF,
       Program!BF, Program!XF, Program!VF, Program!NF

LEMMA SeenFlags ==
  ASSUME NEW t, NEW f \in {CF, ZF, IF_, DF, VF, NF}, NEW on, NEW v
  PROVE  /\ Seen(Flag(t, f, on)) = Flag(Seen(t), f, on)
         /\ Seen(update_flags_register(t, v)) = update_flags_register(Seen(t), v)
         /\ f \in Seen(t) <=> f \in t
         /\ CarryIn(Seen(t)) = CarryIn(t)
         /\ Seen(t \cup {f}) = Seen(t) \cup {f}
         /\ Seen(t \ {f}) = Seen(t) \ {f}
<1>1. f \notin {BF, XF} /\ CF \notin {BF, XF} /\ NF \notin {BF, XF} /\ ZF \notin {BF, XF}
  BY FlagNumbers
<1>2. Seen(Flag(t, f, on)) = Flag(Seen(t), f, on)
  BY <1>1 DEF Seen, Flag
<1>3. Seen(update_flags_register(t, v)) = update_flags_register(Seen(t), v)
  BY <1>1 DEF Seen, update_flags_register
<1>4. CarryIn(Seen(t)) = CarryIn(t)
  BY <1>1 DEF Seen, CarryIn
<1>5. Seen(t \cup {f}) = Seen(t) \cup {f} /\ Seen(t \ {f}) = Seen(t) \ {f}
      /\ (f \in Seen(t) <=> f \in t)
  BY <1>1 DEF Seen
<1>. QED  BY <1>2, <1>3, <1>4, <1>5

LEMMA SeenUpdate ==
  ASSUME NEW t, NEW v
  PROVE  /\ Seen(update_flags_register(t, v)) = update_flags_register(Seen(t), v)
         /\ CarryIn(Seen(t)) = CarryIn(t)
BY SeenFlags

LEMMA SeenConditions ==
  ASSUME NEW t, NEW op
  PROVE  Taken(op, Seen(t)) <=> Taken(op, t)
BY SeenFlags DEF Taken

LEMMA SeenShifts ==
  ASSUME NEW t, NEW x
  PROVE  /\ do_ASL(Seen(t), x).res = do_ASL(t, x).res
         /\ Seen(do_ASL(t, x).status) = do_ASL(Seen(t), x).status
         /\ do_ROL(Seen(t), x).res = do_ROL(t, x).res
         /\ Seen(do_ROL(t, x).status) = do_ROL(Seen(t), x).status
         /\ do_LSR(Seen(t), x).res = do_LSR(t, x).res
         /\ Seen(do_LSR(t, x).status) = do_LSR(Seen(t), x).status
         /\ do_ROR(Seen(t), x).res = do_ROR(t, x).res
         /\ Seen(do_ROR(t, x).status) = do_ROR(Seen(t), x).status
<1>1. ASSUME NEW res, NEW carry
      PROVE  /\ Shifted(t, res, carry).res = res
             /\ Shifted(Seen(t), res, carry).res = res
             /\ Seen(Shifted(t, res, carry).status) = Shifted(Seen(t), res, carry).status
  <2>1. /\ Shifted(t, res, carry).res = res
        /\ Shifted(Seen(t), res, carry).res = res
        /\ Shifted(t, res, carry).status = update_flags_register(Flag(t, CF, carry), res)
        /\ Shifted(Seen(t), res, carry).status
             = update_flags_register(Flag(Seen(t), CF, carry), res)
    BY DEF Shifted
  <2>2. Seen(Flag(t, CF, carry)) = Flag(Seen(t), CF, carry)
    BY FlagNumbers DEF Seen, Flag
  <2>. QED  BY <2>1, <2>2, SeenUpdate
<1>2. CarryIn(Seen(t)) = CarryIn(t)
  BY SeenFlags
<1>3. do_ASL(Seen(t), x).res = do_ASL(t, x).res
      /\ Seen(do_ASL(t, x).status) = do_ASL(Seen(t), x).status
  BY <1>1 DEF do_ASL
<1>4. do_ROL(Seen(t), x).res = do_ROL(t, x).res
      /\ Seen(do_ROL(t, x).status) = do_ROL(Seen(t), x).status
  BY <1>1, <1>2 DEF do_ROL
<1>5. do_LSR(Seen(t), x).res = do_LSR(t, x).res
      /\ Seen(do_LSR(t, x).status) = do_LSR(Seen(t), x).status
  BY <1>1 DEF do_LSR
<1>6. do_ROR(Seen(t), x).res = do_ROR(t, x).res
      /\ Seen(do_ROR(t, x).status) = do_ROR(Seen(t), x).status
  BY <1>1, <1>2 DEF do_ROR
<1>. QED  BY <1>3, <1>4, <1>5, <1>6

LEMMA SeenModified ==
  ASSUME NEW t, NEW x, NEW op
  PROVE  /\ Modified(op, Seen(t), x).res = Modified(op, t, x).res
         /\ Seen(Modified(op, t, x).status) = Modified(op, Seen(t), x).status
<1>1. \A by : /\ Stepped(Seen(t), x, by).res = Stepped(t, x, by).res
              /\ Seen(Stepped(t, x, by).status) = Stepped(Seen(t), x, by).status
  BY SeenUpdate DEF Stepped
<1>. QED  BY <1>1, SeenShifts DEF Modified

----------------------------------------------------------------------------
(* What a program sees of an operation is the operation on what it sees. *)

LEMMA VisibleRegs ==
  ASSUME NEW c
  PROVE  Visible(c) = Regs(c.A, c.X, c.Y, c.S, c.PC, Seen(c.status))
BY DEF Visible, Regs, Seen

LEMMA VisibleUpdates ==
  ASSUME NEW c \in Machine, NEW t, NEW v
  PROVE  /\ Visible([c EXCEPT !.status = t]) = Regs(c.A, c.X, c.Y, c.S, c.PC, Seen(t))
         /\ Visible([c EXCEPT !.A = v, !.status = t]) = Regs(v, c.X, c.Y, c.S, c.PC, Seen(t))
         /\ Visible([c EXCEPT !.status = t, !.A = v]) = Regs(v, c.X, c.Y, c.S, c.PC, Seen(t))
         /\ Visible([c EXCEPT !.status = t, !.X = v]) = Regs(c.A, v, c.Y, c.S, c.PC, Seen(t))
         /\ Visible([c EXCEPT !.status = t, !.Y = v]) = Regs(c.A, c.X, v, c.S, c.PC, Seen(t))
         /\ Visible([c EXCEPT !.S = v]) = Regs(c.A, c.X, c.Y, v, c.PC, Seen(c.status))
BY DEF Visible, Regs, Seen, Machine

LEMMA SetRegVisible ==
  ASSUME NEW c \in Machine, NEW v
  PROVE  LET t == update_flags_register(Seen(c.status), v)
         IN  /\ Visible(SetReg(c, "A", v)) = Regs(v, c.X, c.Y, c.S, c.PC, t)
             /\ Visible(SetReg(c, "X", v)) = Regs(c.A, v, c.Y, c.S, c.PC, t)
             /\ Visible(SetReg(c, "Y", v)) = Regs(c.A, c.X, v, c.S, c.PC, t)
<1>. DEFINE t == update_flags_register(c.status, v)
            flagged == [c EXCEPT !.status = update_flags_register(@, v)]
<1>1. Seen(t) = update_flags_register(Seen(c.status), v)
  BY SeenFlags
<1>2. /\ SetReg(c, "A", v) = [flagged EXCEPT !.A = v]
      /\ SetReg(c, "X", v) = [flagged EXCEPT !.X = v]
      /\ SetReg(c, "Y", v) = [flagged EXCEPT !.Y = v]
  BY DEF SetReg
<1>3. flagged = [c EXCEPT !.status = t]
  OBVIOUS
<1>. HIDE DEF t
<1>4. /\ Visible([flagged EXCEPT !.A = v]) = Regs(v, c.X, c.Y, c.S, c.PC, Seen(t))
      /\ Visible([flagged EXCEPT !.X = v]) = Regs(c.A, v, c.Y, c.S, c.PC, Seen(t))
      /\ Visible([flagged EXCEPT !.Y = v]) = Regs(c.A, c.X, v, c.S, c.PC, Seen(t))
  BY <1>3 DEF Visible, Regs, Seen, Machine
<1>. QED  BY <1>1, <1>2, <1>4 DEF t

LEMMA LoadVisible ==
  ASSUME NEW c \in Machine, NEW t, NEW v
  PROVE  Visible(Load(c, t, v))
           = Regs(v, c.X, c.Y, c.S, c.PC, update_flags_register(Seen(t), v))
<1>1. Load(c, t, v) = [c EXCEPT !.A = v, !.status = update_flags_register(t, v)]
  BY DEF Load
<1>2. Seen(update_flags_register(t, v)) = update_flags_register(Seen(t), v)
  BY SeenUpdate
<1>3. Visible([c EXCEPT !.A = v, !.status = update_flags_register(t, v)])
        = Regs(v, c.X, c.Y, c.S, c.PC, Seen(update_flags_register(t, v)))
  BY DEF Visible, Regs, Seen, Machine
<1>. QED  BY <1>1, <1>2, <1>3

LEMMA LoadedRegs ==
  ASSUME NEW A, NEW X, NEW Y, NEW S, NEW PC, NEW t, NEW v
  PROVE  LET r == Regs(A, X, Y, S, PC, t)
             u == update_flags_register(t, v)
         IN  /\ Program!Loaded(r, "A", v) = Regs(v, X, Y, S, PC, u)
             /\ Program!Loaded(r, "X", v) = Regs(A, v, Y, S, PC, u)
             /\ Program!Loaded(r, "Y", v) = Regs(A, X, v, S, PC, u)
<1>. DEFINE u == update_flags_register(t, v)
<1>1. \A reg : Program!Loaded(Regs(A, X, Y, S, PC, t), reg, v)
                 = [Regs(A, X, Y, S, PC, t) EXCEPT ![reg] = v, !.status = u]
  BY SameBytes DEF Program!Loaded, Regs
<1>. HIDE DEF u
<1>2. Program!Loaded(Regs(A, X, Y, S, PC, t), "A", v) = Regs(v, X, Y, S, PC, u)
  BY <1>1 DEF Regs
<1>3. Program!Loaded(Regs(A, X, Y, S, PC, t), "X", v) = Regs(A, v, Y, S, PC, u)
  BY <1>1 DEF Regs
<1>4. Program!Loaded(Regs(A, X, Y, S, PC, t), "Y", v) = Regs(A, X, v, S, PC, u)
  BY <1>1 DEF Regs
<1>. QED  BY <1>2, <1>3, <1>4 DEF u

LEMMA FromLoad ==
  ASSUME NEW c, NEW t, NEW v
  PROVE  LET r == Visible(c)
             w == Program!WithOperand(r, c.data_bus)
         IN  /\ w.A = c.A /\ w.status = Seen(c.status) /\ w.data_bus = c.data_bus
             /\ Program!From(r, Load(w, t, v))
                  = Regs(v, c.X, c.Y, c.S, c.PC, update_flags_register(t, v))
<1>. DEFINE r == Visible(c)
            w == Program!WithOperand(r, c.data_bus)
            u == update_flags_register(t, v)
<1>1. w = [A |-> c.A, status |-> Seen(c.status), data_bus |-> c.data_bus]
  BY DEF Visible, Seen, Program!WithOperand
<1>2. Load(w, t, v) = [w EXCEPT !.A = v, !.status = u]
  BY DEF Load
<1>. HIDE DEF w, u
<1>3. Load(w, t, v).A = v /\ Load(w, t, v).status = u
      /\ [w EXCEPT !.status = t].A = c.A /\ [w EXCEPT !.status = t].status = t
  BY <1>1, <1>2
<1>4. ASSUME NEW x
      PROVE  Program!From(r, x) = Regs(x.A, c.X, c.Y, c.S, c.PC, x.status)
  <2>1. Program!From(r, x) = [[r EXCEPT !.A = x.A] EXCEPT !.status = x.status]
    BY DEF Program!From
  <2>2. [r EXCEPT !.A = x.A] = Regs(x.A, c.X, c.Y, c.S, c.PC, Seen(c.status))
    BY DEF Visible, Regs, Seen
  <2>3. [Regs(x.A, c.X, c.Y, c.S, c.PC, Seen(c.status)) EXCEPT !.status = x.status]
          = Regs(x.A, c.X, c.Y, c.S, c.PC, x.status)
    BY DEF Regs
  <2>. QED  BY <2>1, <2>2, <2>3
<1>5. w.A = c.A /\ w.status = Seen(c.status) /\ w.data_bus = c.data_bus
  BY <1>1
<1>6. Program!From(r, Load(w, t, v)) = Regs(v, c.X, c.Y, c.S, c.PC, u)
  BY <1>3, <1>4
<1>. QED  BY <1>5, <1>6 DEF w, u

LEMMA FromStatus ==
  ASSUME NEW c, NEW t
  PROVE  Program!From(Visible(c),
                      [Program!WithOperand(Visible(c), c.data_bus) EXCEPT !.status = t])
           = Regs(c.A, c.X, c.Y, c.S, c.PC, t)
<1>. DEFINE r == Visible(c)
            w == Program!WithOperand(r, c.data_bus)
            x == [w EXCEPT !.status = t]
<1>1. w = [A |-> c.A, status |-> Seen(c.status), data_bus |-> c.data_bus]
  BY DEF Visible, Seen, Program!WithOperand
<1>. HIDE DEF w
<1>2. x.A = c.A /\ x.status = t
  BY <1>1
<1>. HIDE DEF x
<1>3. Program!From(r, x) = [[r EXCEPT !.A = x.A] EXCEPT !.status = x.status]
  BY DEF Program!From
<1>4. [r EXCEPT !.A = x.A] = Regs(x.A, c.X, c.Y, c.S, c.PC, Seen(c.status))
  BY DEF Visible, Regs, Seen
<1>5. [Regs(x.A, c.X, c.Y, c.S, c.PC, Seen(c.status)) EXCEPT !.status = x.status]
        = Regs(x.A, c.X, c.Y, c.S, c.PC, x.status)
  BY DEF Regs
<1>. QED  BY <1>2, <1>3, <1>4, <1>5 DEF x, w

(* ADC and SBC set the carry and the overflow, and then load A. *)
LEMMA SeenSum ==
  ASSUME NEW t, NEW k, NEW o
  PROVE  Seen(Flag(Flag(t, CF, k), VF, o)) = Flag(Flag(Seen(t), CF, k), VF, o)
<1>1. \A u : Seen(Flag(u, CF, k)) = Flag(Seen(u), CF, k)
  BY FlagNumbers DEF Seen, Flag
<1>2. \A u : Seen(Flag(u, VF, o)) = Flag(Seen(u), VF, o)
  BY FlagNumbers DEF Seen, Flag
<1>. QED  BY <1>1, <1>2

LEMMA SumsVisible ==
  ASSUME NEW c \in Machine
  PROVE  LET r == Visible(c)
             w == Program!WithOperand(r, c.data_bus)
         IN  /\ Visible(do_ADC(c)) = Program!From(r, do_ADC(w))
             /\ Visible(do_SBC(c)) = Program!From(r, do_SBC(w))
<1>. DEFINE r == Visible(c)
            w == Program!WithOperand(r, c.data_bus)
            t == c.status
<1>1. r = Regs(c.A, c.X, c.Y, c.S, c.PC, Seen(t))
  BY VisibleRegs
<1>2. w.A = c.A /\ w.status = Seen(t) /\ w.data_bus = c.data_bus
  BY FromLoad
<1>3. (DF \in Seen(t) <=> DF \in t) /\ (VF \in Seen(t) <=> VF \in t)
      /\ CarryIn(Seen(t)) = CarryIn(t)
  BY FlagNumbers, SeenUpdate DEF Seen
<1>4. ASSUME NEW u, NEW v
      PROVE  Visible(Load(c, u, v)) = Program!From(r, Load(w, Seen(u), v))
  BY FromLoad, LoadVisible
<1>. HIDE DEF r, w, t
<1>5. Visible(do_ADC(c)) = Program!From(r, do_ADC(w))
  <2>. DEFINE decimal == DecimalSum(c.A, c.data_bus, CarryIn(t))
              new     == IF DF \in t THEN decimal.value
                         ELSE c.A + c.data_bus + CarryIn(t)
              carry   == IF DF \in t THEN decimal.carry
                         ELSE c.A + c.data_bus + CarryIn(t) > 255
              over    == AdcOverflow(c.A, c.data_bus, new)
  <2>1. do_ADC(c) = Load(c, Flag(Flag(t, CF, carry), VF, over), U8(new))
    BY DEF do_ADC, t
  <2>2. do_ADC(w) = Load(w, Flag(Flag(Seen(t), CF, carry), VF, over), U8(new))
    BY <1>2, <1>3 DEF do_ADC
  <2>. HIDE DEF carry, over, new
  <2>. QED  BY <1>4, <2>1, <2>2, SeenSum
<1>6. Visible(do_SBC(c)) = Program!From(r, do_SBC(w))
  <2>. DEFINE borrow  == 1 - CarryIn(t)
              decimal == DecimalDifference(c.A, c.data_bus, borrow)
              new     == IF DF \in t THEN decimal.value ELSE U16(c.A - c.data_bus - borrow)
              carry   == IF DF \in t THEN decimal.carry ELSE new < 256
              stale   == DF \in t /\ VF \in t
              over    == stale \/ SbcOverflow(c.A, c.data_bus, new)
  <2>1. do_SBC(c) = Load(c, Flag(Flag(t, CF, carry), VF, over), U8(new))
    BY DEF do_SBC, t
  <2>2. do_SBC(w) = Load(w, Flag(Flag(Seen(t), CF, carry), VF, over), U8(new))
    BY <1>2, <1>3 DEF do_SBC
  <2>. HIDE DEF carry, over, new
  <2>. QED  BY <1>4, <2>1, <2>2, SeenSum
<1>. QED  BY <1>5, <1>6 DEF r, w

LEMMA LogicVisible ==
  ASSUME NEW c \in Machine
  PROVE  LET r == Visible(c)
             w == Program!WithOperand(r, c.data_bus)
         IN  /\ Visible(do_ORA(c)) = Program!From(r, do_ORA(w))
             /\ Visible(do_AND(c)) = Program!From(r, do_AND(w))
             /\ Visible(do_EOR(c)) = Program!From(r, do_EOR(w))
<1>. DEFINE r == Visible(c)
            w == Program!WithOperand(r, c.data_bus)
            t == c.status
<1>1. r = Regs(c.A, c.X, c.Y, c.S, c.PC, Seen(t))
  BY VisibleRegs
<1>2. w.A = c.A /\ w.status = Seen(t) /\ w.data_bus = c.data_bus
  BY FromLoad
<1>3. ASSUME NEW u, NEW v
      PROVE  Visible(Load(c, u, v)) = Program!From(r, Load(w, Seen(u), v))
  BY FromLoad, LoadVisible
<1>. HIDE DEF r, w, t
<1>4. Visible(do_ORA(c)) = Program!From(r, do_ORA(w))
  BY <1>2, <1>3 DEF do_ORA, t
<1>5. Visible(do_AND(c)) = Program!From(r, do_AND(w))
  BY <1>2, <1>3 DEF do_AND, t
<1>6. Visible(do_EOR(c)) = Program!From(r, do_EOR(w))
  BY <1>2, <1>3 DEF do_EOR, t
<1>. QED  BY <1>4, <1>5, <1>6 DEF r, w

LEMMA ComparesVisible ==
  ASSUME NEW c \in Machine, NEW reg
  PROVE  LET r == Visible(c)
             w == Program!WithOperand(r, c.data_bus)
         IN  /\ Visible(do_CMP(c, reg)) = Program!From(r, do_CMP(w, reg))
             /\ Visible(do_BIT(c)) = Program!From(r, do_BIT(w))
<1>. DEFINE r == Visible(c)
            w == Program!WithOperand(r, c.data_bus)
            t == c.status
<1>1. r = Regs(c.A, c.X, c.Y, c.S, c.PC, Seen(t))
  BY VisibleRegs
<1>2. w.A = c.A /\ w.status = Seen(t) /\ w.data_bus = c.data_bus
  BY FromLoad
<1>3. ASSUME NEW u
      PROVE  Visible([c EXCEPT !.status = u]) = Program!From(r, [w EXCEPT !.status = Seen(u)])
  <2>1. Visible([c EXCEPT !.status = u]) = Regs(c.A, c.X, c.Y, c.S, c.PC, Seen(u))
    BY DEF Visible, Regs, Seen, Machine
  <2>. QED  BY <2>1, FromStatus
<1>. HIDE DEF r, w, t
<1>4. Visible(do_CMP(c, reg)) = Program!From(r, do_CMP(w, reg))
  <2>. DEFINE d == U16(reg - c.data_bus)
              k == reg >= c.data_bus
  <2>1. do_CMP(c, reg) = [c EXCEPT !.status = Flag(update_flags_register(t, d), CF, k)]
    BY DEF do_CMP, t
  <2>2. do_CMP(w, reg) = [w EXCEPT !.status = Flag(update_flags_register(Seen(t), d), CF, k)]
    BY <1>2 DEF do_CMP
  <2>. HIDE DEF d, k
  <2>3. Seen(Flag(update_flags_register(t, d), CF, k))
          = Flag(update_flags_register(Seen(t), d), CF, k)
    <3>1. \A u : Seen(Flag(u, CF, k)) = Flag(Seen(u), CF, k)
      BY FlagNumbers DEF Seen, Flag
    <3>. QED  BY <3>1, SeenUpdate
  <2>. QED  BY <1>3, <2>1, <2>2, <2>3
<1>5. Visible(do_BIT(c)) = Program!From(r, do_BIT(w))
  <2>. DEFINE z == IF BitAnd(c.A, c.data_bus) = 0 THEN {ZF} ELSE {}
              n == Bits(c.data_bus) \cap {VF, NF}
  <2>1. do_BIT(c) = [c EXCEPT !.status = ((t \ {ZF, NF, VF}) \cup z) \cup n]
    BY DEF do_BIT, t
  <2>2. do_BIT(w) = [w EXCEPT !.status = ((Seen(t) \ {ZF, NF, VF}) \cup z) \cup n]
    BY <1>2 DEF do_BIT
  <2>3. z \in SUBSET {ZF} /\ n \in SUBSET {VF, NF}
    OBVIOUS
  <2>. HIDE DEF z, n
  <2>4. Seen(((t \ {ZF, NF, VF}) \cup z) \cup n) = ((Seen(t) \ {ZF, NF, VF}) \cup z) \cup n
    BY <2>3, FlagNumbers DEF Seen
  <2>. QED  BY <1>3, <2>1, <2>2, <2>4
<1>. QED  BY <1>4, <1>5 DEF r, w

(* The alternatives of ReadOperand and of Reading. *)
LEMMA ReadOperandCases ==
  ASSUME NEW c
  PROVE  /\ ReadOperand(c, "ORA") = do_ORA(c)
         /\ ReadOperand(c, "AND") = do_AND(c)
         /\ ReadOperand(c, "EOR") = do_EOR(c)
         /\ ReadOperand(c, "ADC") = do_ADC(c)
         /\ ReadOperand(c, "SBC") = do_SBC(c)
         /\ ReadOperand(c, "BIT") = do_BIT(c)
         /\ ReadOperand(c, "CMP") = do_CMP(c, c.A)
         /\ ReadOperand(c, "CPX") = do_CMP(c, c.X)
         /\ ReadOperand(c, "CPY") = do_CMP(c, c.Y)
         /\ ReadOperand(c, "LDA") = do_LD_(c, "A")
         /\ ReadOperand(c, "LDX") = do_LD_(c, "X")
         /\ ReadOperand(c, "LDY") = do_LD_(c, "Y")
BY DEF ReadOperand

LEMMA ReadingCases ==
  ASSUME NEW r, NEW b
  PROVE  /\ Program!Reading(r, "ORA", b) = Program!From(r, Program!do_ORA(Program!WithOperand(r, b)))
         /\ Program!Reading(r, "AND", b) = Program!From(r, Program!do_AND(Program!WithOperand(r, b)))
         /\ Program!Reading(r, "EOR", b) = Program!From(r, Program!do_EOR(Program!WithOperand(r, b)))
         /\ Program!Reading(r, "ADC", b) = Program!From(r, Program!do_ADC(Program!WithOperand(r, b)))
         /\ Program!Reading(r, "SBC", b) = Program!From(r, Program!do_SBC(Program!WithOperand(r, b)))
         /\ Program!Reading(r, "BIT", b) = Program!From(r, Program!do_BIT(Program!WithOperand(r, b)))
         /\ Program!Reading(r, "CMP", b) = Program!From(r, Program!do_CMP(Program!WithOperand(r, b), r.A))
         /\ Program!Reading(r, "CPX", b) = Program!From(r, Program!do_CMP(Program!WithOperand(r, b), r.X))
         /\ Program!Reading(r, "CPY", b) = Program!From(r, Program!do_CMP(Program!WithOperand(r, b), r.Y))
         /\ Program!Reading(r, "LDA", b) = Program!Loaded(r, "A", b)
         /\ Program!Reading(r, "LDX", b) = Program!Loaded(r, "X", b)
         /\ Program!Reading(r, "LDY", b) = Program!Loaded(r, "Y", b)
BY DEF Program!Reading

LEMMA ReadVisible ==
  ASSUME NEW c \in Machine, NEW op \in ReadOps
  PROVE  Visible(ReadOperand(c, op)) = Program!Reading(Visible(c), op, c.data_bus)
<1>. DEFINE r == Visible(c)
            w == Program!WithOperand(r, c.data_bus)
<1>1. /\ r.A = c.A /\ r.X = c.X /\ r.Y = c.Y
      /\ r = Regs(c.A, c.X, c.Y, c.S, c.PC, Seen(c.status))
  BY VisibleRegs DEF Visible
<1>2. CASE op \in {"ORA", "AND", "EOR", "ADC", "SBC", "BIT"}
  <2>1. /\ Visible(do_ADC(c)) = Program!From(r, Program!do_ADC(w))
        /\ Visible(do_SBC(c)) = Program!From(r, Program!do_SBC(w))
        /\ Visible(do_ORA(c)) = Program!From(r, Program!do_ORA(w))
        /\ Visible(do_AND(c)) = Program!From(r, Program!do_AND(w))
        /\ Visible(do_EOR(c)) = Program!From(r, Program!do_EOR(w))
        /\ Visible(do_BIT(c)) = Program!From(r, Program!do_BIT(w))
    BY SumsVisible, LogicVisible, ComparesVisible, SameReads
  <2>. QED  BY <1>2, <2>1, ReadOperandCases, ReadingCases
<1>3. CASE op \in {"CMP", "CPX", "CPY"}
  <2>1. /\ Visible(do_CMP(c, c.A)) = Program!From(r, Program!do_CMP(w, r.A))
        /\ Visible(do_CMP(c, c.X)) = Program!From(r, Program!do_CMP(w, r.X))
        /\ Visible(do_CMP(c, c.Y)) = Program!From(r, Program!do_CMP(w, r.Y))
    BY <1>1, ComparesVisible, SameReads
  <2>. QED  BY <1>3, <2>1, ReadOperandCases, ReadingCases
<1>4. CASE op \in {"LDA", "LDX", "LDY"}
  <2>1. /\ Visible(do_LD_(c, "A")) = Program!Loaded(r, "A", c.data_bus)
        /\ Visible(do_LD_(c, "X")) = Program!Loaded(r, "X", c.data_bus)
        /\ Visible(do_LD_(c, "Y")) = Program!Loaded(r, "Y", c.data_bus)
    BY <1>1, SetRegVisible, LoadedRegs DEF do_LD_
  <2>. QED  BY <1>4, <2>1, ReadOperandCases, ReadingCases
<1>. QED  BY <1>2, <1>3, <1>4 DEF ReadOps

(* A flag lowered or raised, of the processor and of Isa; TXS. *)
Lowered(c, f) == [c EXCEPT !.status = @ \ {f}]
Raised(c, f)  == [c EXCEPT !.status = @ \cup {f}]
FlagOff(r, f) == [r EXCEPT !.status = Program!Flag(@, f, FALSE)]
FlagOn(r, f)  == [r EXCEPT !.status = Program!Flag(@, f, TRUE)]
SetS(c)       == [c EXCEPT !.S = c.X]

(* The alternatives of Implied and of Inherent. *)
LEMMA ImpliedCases ==
  ASSUME NEW c
  PROVE  /\ Implied(c, "CLC") = Lowered(c, CF)
         /\ Implied(c, "SEC") = Raised(c, CF)
         /\ Implied(c, "CLI") = Lowered(c, IF_)
         /\ Implied(c, "SEI") = Raised(c, IF_)
         /\ Implied(c, "CLV") = Lowered(c, VF)
         /\ Implied(c, "CLD") = Lowered(c, DF)
         /\ Implied(c, "SED") = Raised(c, DF)
         /\ Implied(c, "DEX") = SetReg(c, "X", U8(c.X - 1))
         /\ Implied(c, "INX") = SetReg(c, "X", U8(c.X + 1))
         /\ Implied(c, "DEY") = SetReg(c, "Y", U8(c.Y - 1))
         /\ Implied(c, "INY") = SetReg(c, "Y", U8(c.Y + 1))
         /\ Implied(c, "TAX") = SetReg(c, "X", c.A)
         /\ Implied(c, "TXA") = SetReg(c, "A", c.X)
         /\ Implied(c, "TAY") = SetReg(c, "Y", c.A)
         /\ Implied(c, "TYA") = SetReg(c, "A", c.Y)
         /\ Implied(c, "TSX") = SetReg(c, "X", c.S)
         /\ Implied(c, "TXS") = SetS(c)
         /\ Implied(c, "NOP") = c
<1>1. Implied(c, "CLC") = Lowered(c, CF)
  BY DEF Implied, Lowered, Raised, SetS
<1>2. Implied(c, "SEC") = Raised(c, CF)
  BY DEF Implied, Lowered, Raised, SetS
<1>3. Implied(c, "CLI") = Lowered(c, IF_)
  BY DEF Implied, Lowered, Raised, SetS
<1>4. Implied(c, "SEI") = Raised(c, IF_)
  BY DEF Implied, Lowered, Raised, SetS
<1>5. Implied(c, "CLV") = Lowered(c, VF)
  BY DEF Implied, Lowered, Raised, SetS
<1>6. Implied(c, "CLD") = Lowered(c, DF)
  BY DEF Implied, Lowered, Raised, SetS
<1>7. Implied(c, "SED") = Raised(c, DF)
  BY DEF Implied, Lowered, Raised, SetS
<1>8. Implied(c, "DEX") = SetReg(c, "X", U8(c.X - 1))
  BY DEF Implied, Lowered, Raised, SetS
<1>9. Implied(c, "INX") = SetReg(c, "X", U8(c.X + 1))
  BY DEF Implied, Lowered, Raised, SetS
<1>10. Implied(c, "DEY") = SetReg(c, "Y", U8(c.Y - 1))
  BY DEF Implied, Lowered, Raised, SetS
<1>11. Implied(c, "INY") = SetReg(c, "Y", U8(c.Y + 1))
  BY DEF Implied, Lowered, Raised, SetS
<1>12. Implied(c, "TAX") = SetReg(c, "X", c.A)
  BY DEF Implied, Lowered, Raised, SetS
<1>13. Implied(c, "TXA") = SetReg(c, "A", c.X)
  BY DEF Implied, Lowered, Raised, SetS
<1>14. Implied(c, "TAY") = SetReg(c, "Y", c.A)
  BY DEF Implied, Lowered, Raised, SetS
<1>15. Implied(c, "TYA") = SetReg(c, "A", c.Y)
  BY DEF Implied, Lowered, Raised, SetS
<1>16. Implied(c, "TSX") = SetReg(c, "X", c.S)
  BY DEF Implied, Lowered, Raised, SetS
<1>17. Implied(c, "TXS") = SetS(c)
  BY DEF Implied, Lowered, Raised, SetS
<1>18. Implied(c, "NOP") = c
  BY DEF Implied, Lowered, Raised, SetS
<1>. QED
  BY <1>1, <1>2, <1>3, <1>4, <1>5, <1>6, <1>7, <1>8, <1>9, <1>10, <1>11, <1>12, <1>13, <1>14, <1>15, <1>16, <1>17, <1>18

LEMMA InherentCases ==
  ASSUME NEW r
  PROVE  /\ Program!Inherent(r, "CLC") = FlagOff(r, Program!CF)
         /\ Program!Inherent(r, "SEC") = FlagOn(r, Program!CF)
         /\ Program!Inherent(r, "CLI") = FlagOff(r, Program!IF_)
         /\ Program!Inherent(r, "SEI") = FlagOn(r, Program!IF_)
         /\ Program!Inherent(r, "CLV") = FlagOff(r, Program!VF)
         /\ Program!Inherent(r, "CLD") = FlagOff(r, Program!DF)
         /\ Program!Inherent(r, "SED") = FlagOn(r, Program!DF)
         /\ Program!Inherent(r, "DEX") = Program!Loaded(r, "X", Program!U8(r.X - 1))
         /\ Program!Inherent(r, "INX") = Program!Loaded(r, "X", Program!U8(r.X + 1))
         /\ Program!Inherent(r, "DEY") = Program!Loaded(r, "Y", Program!U8(r.Y - 1))
         /\ Program!Inherent(r, "INY") = Program!Loaded(r, "Y", Program!U8(r.Y + 1))
         /\ Program!Inherent(r, "TAX") = Program!Loaded(r, "X", r.A)
         /\ Program!Inherent(r, "TXA") = Program!Loaded(r, "A", r.X)
         /\ Program!Inherent(r, "TAY") = Program!Loaded(r, "Y", r.A)
         /\ Program!Inherent(r, "TYA") = Program!Loaded(r, "A", r.Y)
         /\ Program!Inherent(r, "TSX") = Program!Loaded(r, "X", r.S)
         /\ Program!Inherent(r, "TXS") = SetS(r)
         /\ Program!Inherent(r, "NOP") = r
<1>1. Program!Inherent(r, "CLC") = FlagOff(r, Program!CF)
  BY DEF Program!Inherent, FlagOff, FlagOn, SetS
<1>2. Program!Inherent(r, "SEC") = FlagOn(r, Program!CF)
  BY DEF Program!Inherent, FlagOff, FlagOn, SetS
<1>3. Program!Inherent(r, "CLI") = FlagOff(r, Program!IF_)
  BY DEF Program!Inherent, FlagOff, FlagOn, SetS
<1>4. Program!Inherent(r, "SEI") = FlagOn(r, Program!IF_)
  BY DEF Program!Inherent, FlagOff, FlagOn, SetS
<1>5. Program!Inherent(r, "CLV") = FlagOff(r, Program!VF)
  BY DEF Program!Inherent, FlagOff, FlagOn, SetS
<1>6. Program!Inherent(r, "CLD") = FlagOff(r, Program!DF)
  BY DEF Program!Inherent, FlagOff, FlagOn, SetS
<1>7. Program!Inherent(r, "SED") = FlagOn(r, Program!DF)
  BY DEF Program!Inherent, FlagOff, FlagOn, SetS
<1>8. Program!Inherent(r, "DEX") = Program!Loaded(r, "X", Program!U8(r.X - 1))
  BY DEF Program!Inherent, FlagOff, FlagOn, SetS
<1>9. Program!Inherent(r, "INX") = Program!Loaded(r, "X", Program!U8(r.X + 1))
  BY DEF Program!Inherent, FlagOff, FlagOn, SetS
<1>10. Program!Inherent(r, "DEY") = Program!Loaded(r, "Y", Program!U8(r.Y - 1))
  BY DEF Program!Inherent, FlagOff, FlagOn, SetS
<1>11. Program!Inherent(r, "INY") = Program!Loaded(r, "Y", Program!U8(r.Y + 1))
  BY DEF Program!Inherent, FlagOff, FlagOn, SetS
<1>12. Program!Inherent(r, "TAX") = Program!Loaded(r, "X", r.A)
  BY DEF Program!Inherent, FlagOff, FlagOn, SetS
<1>13. Program!Inherent(r, "TXA") = Program!Loaded(r, "A", r.X)
  BY DEF Program!Inherent, FlagOff, FlagOn, SetS
<1>14. Program!Inherent(r, "TAY") = Program!Loaded(r, "Y", r.A)
  BY DEF Program!Inherent, FlagOff, FlagOn, SetS
<1>15. Program!Inherent(r, "TYA") = Program!Loaded(r, "A", r.Y)
  BY DEF Program!Inherent, FlagOff, FlagOn, SetS
<1>16. Program!Inherent(r, "TSX") = Program!Loaded(r, "X", r.S)
  BY DEF Program!Inherent, FlagOff, FlagOn, SetS
<1>17. Program!Inherent(r, "TXS") = SetS(r)
  BY DEF Program!Inherent, FlagOff, FlagOn, SetS
<1>18. Program!Inherent(r, "NOP") = r
  BY DEF Program!Inherent, FlagOff, FlagOn, SetS
<1>. QED
  BY <1>1, <1>2, <1>3, <1>4, <1>5, <1>6, <1>7, <1>8, <1>9, <1>10, <1>11, <1>12, <1>13, <1>14, <1>15, <1>16, <1>17, <1>18

LEMMA ImpliedVisible ==
  ASSUME NEW c \in Machine, NEW op \in ImpliedOps
  PROVE  Visible(Implied(c, op)) = Program!Inherent(Visible(c), op)
<1>. DEFINE r == Visible(c)
<1>1. /\ r.A = c.A /\ r.X = c.X /\ r.Y = c.Y /\ r.S = c.S
      /\ r = Regs(c.A, c.X, c.Y, c.S, c.PC, Seen(c.status))
  BY VisibleRegs DEF Visible
<1>2. ASSUME NEW f \in {CF, IF_, VF, DF}
      PROVE  /\ Visible(Lowered(c, f)) = FlagOff(r, f)
             /\ Visible(Raised(c, f)) = FlagOn(r, f)
  <2>1. /\ Seen(c.status \ {f}) = Seen(c.status) \ {f}
        /\ Seen(c.status \cup {f}) = Seen(c.status) \cup {f}
    BY FlagNumbers DEF Seen
  <2>2. /\ Visible(Lowered(c, f)) = Regs(c.A, c.X, c.Y, c.S, c.PC, Seen(c.status \ {f}))
        /\ Visible(Raised(c, f)) = Regs(c.A, c.X, c.Y, c.S, c.PC, Seen(c.status \cup {f}))
    BY DEF Visible, Regs, Seen, Machine, Lowered, Raised
  <2>3. r.status = Seen(c.status)
    BY DEF Visible, Seen
  <2>4. /\ Program!Flag(r.status, f, FALSE) = Seen(c.status) \ {f}
        /\ Program!Flag(r.status, f, TRUE) = Seen(c.status) \cup {f}
    BY <2>3 DEF Program!Flag
  <2>5. ASSUME NEW t
        PROVE  [r EXCEPT !.status = t] = Regs(c.A, c.X, c.Y, c.S, c.PC, t)
    BY DEF Visible, Regs
  <2>6. /\ FlagOff(r, f)
             = Regs(c.A, c.X, c.Y, c.S, c.PC, Program!Flag(r.status, f, FALSE))
        /\ FlagOn(r, f)
             = Regs(c.A, c.X, c.Y, c.S, c.PC, Program!Flag(r.status, f, TRUE))
    BY <2>5 DEF FlagOff, FlagOn
  <2>. QED  BY <2>1, <2>2, <2>4, <2>6
<1>3. ASSUME NEW v
      PROVE  /\ Visible(SetReg(c, "A", v)) = Program!Loaded(r, "A", v)
             /\ Visible(SetReg(c, "X", v)) = Program!Loaded(r, "X", v)
             /\ Visible(SetReg(c, "Y", v)) = Program!Loaded(r, "Y", v)
  BY <1>1, SetRegVisible, LoadedRegs
<1>10. Visible(SetS(c)) = SetS(r)
  BY DEF SetS, Visible, Machine
<1>4. CASE op \in {"CLC", "CLI", "CLV", "CLD"}
  BY <1>2, <1>4, ImpliedCases, InherentCases, FlagNumbers
<1>5. CASE op \in {"SEC", "SEI", "SED"}
  BY <1>2, <1>5, ImpliedCases, InherentCases, FlagNumbers
<1>6. CASE op \in {"DEX", "INX", "DEY", "INY"}
  BY <1>1, <1>3, <1>6, ImpliedCases, InherentCases, SameBytes
<1>7. CASE op \in {"TAX", "TXA", "TAY", "TYA", "TSX"}
  BY <1>1, <1>3, <1>7, ImpliedCases, InherentCases
<1>8. CASE op = "TXS"
  BY <1>8, <1>10, ImpliedCases, InherentCases
<1>9. CASE op = "NOP"
  BY <1>9, ImpliedCases, InherentCases
<1>. QED
  BY <1>4, <1>5, <1>6, <1>7, <1>8, <1>9 DEF ImpliedOps, FlagOps, RegOps

----------------------------------------------------------------------------
(* An instruction of Isa, by its shape. *)

LEMMA ArgumentBytes ==
  ASSUME NEW s, NEW i
  PROVE  /\ Program!Argument(s, i) = Read(s.m, At(s, i))
         /\ Program!Argument(s, 1) = First(s) /\ Program!Argument(s, 2) = Second(s)
         /\ Program!Address(s) = Absolute(s)
BY SameBytes, SameMemory DEF Program!Argument, Program!Address, At, First, Second, Absolute

(* Counting on in a byte, and in a word, after the carry is dropped. *)
LEMMA CountOn ==
  ASSUME NEW x \in Int, NEW j \in Int
  PROVE  /\ U8(U8(x) + j) = U8(x + j) /\ Low(Low(x) + j) = Low(x + j)
         /\ U16(U16(x) + j) = U16(x + j)
BY DEF U8, U16, Low

LEMMA PointerBytes ==
  ASSUME NEW s, NEW z \in Int
  PROVE  Program!ZeroPagePointer(s, z) = Pointed(s, Low(z))
<1>1. Low(Low(z) + 1) = Low(z + 1)
  BY CountOn
<1>. QED
  BY <1>1, SameMemory DEF Program!ZeroPagePointer, Program!PeekWord, Pointed, Low

LEMMA SameTarget ==
  ASSUME NEW s, IsState(s), NEW mode \in MemModes \cup {"imm"}
  PROVE  /\ Program!EffectiveAddress(s, mode) = Target(s, mode)
         /\ Program!Operand(s, mode) = Value(s, mode)
<1>1. First(s) \in Byte /\ s.r.X \in Byte
  BY AddressTypes, RegistersTypes
<1>2. Program!ZeroPagePointer(s, First(s) + s.r.X) = Pointed(s, Indexed(s))
  <2>. \A a, b \in Byte : a + b \in Int
    BY DEF Byte
  <2>1. First(s) + s.r.X \in Int
    BY <1>1
  <2>. QED  BY <2>1, PointerBytes DEF Indexed
<1>3. Program!ZeroPagePointer(s, First(s)) = Pointed(s, First(s))
  <2>1. First(s) \in Int /\ Low(First(s)) = First(s)
    BY <1>1 DEF Byte, Low
  <2>. QED  BY <2>1, PointerBytes
<1>4. Program!EffectiveAddress(s, mode) = Target(s, mode)
  <2>1. CASE mode \in {"zpg", "zpg_x", "zpg_y"}
    BY <2>1, ArgumentBytes DEF Program!EffectiveAddress, Target, Indexed, Low
  <2>2. CASE mode \in {"abs", "abs_x", "abs_y"}
    BY <2>2, ArgumentBytes, SameBytes DEF Program!EffectiveAddress, Target
  <2>3. CASE mode = "x_ind"
    BY <2>3, <1>2, ArgumentBytes DEF Program!EffectiveAddress, Target
  <2>4. CASE mode = "ind_y"
    BY <2>4, <1>3, ArgumentBytes, SameBytes DEF Program!EffectiveAddress, Target
  <2>5. CASE mode = "imm"
    BY <2>5, SameBytes DEF Program!EffectiveAddress, Target, At
  <2>. QED  BY <2>1, <2>2, <2>3, <2>4, <2>5 DEF MemModes
<1>. QED  BY <1>4, SameMemory DEF Program!Operand, Value

LEMMA Lengths ==
  ASSUME NEW op, NEW mode
  PROVE  /\ op # "JSR" /\ mode \in MemModes \cup {"imm"} =>
              Program!Length(op, mode) = IF mode \in TwoBytes THEN 3 ELSE 2
         /\ op # "JSR" /\ mode = "rel" => Program!Length(op, mode) = 2
         /\ op # "JSR" /\ mode \in {"impl", "acc"} => Program!Length(op, mode) = 1
<1>1. CASE mode \in MemModes \cup {"imm"}
  BY <1>1 DEF Program!Length, TwoBytes, MemModes
<1>2. CASE mode \in {"rel", "impl", "acc"}
  BY <1>2 DEF Program!Length, MemModes
<1>. QED  BY <1>1, <1>2

(* The instruction after this one, with the registers as they are. *)
Moved(s, PC) == State(s.r.A, s.r.X, s.r.Y, s.r.S, PC, s.r.status, s.m)

LEMMA MovedFields ==
  ASSUME NEW s, NEW PC
  PROVE  /\ Moved(s, PC).r = Regs(s.r.A, s.r.X, s.r.Y, s.r.S, PC, s.r.status)
         /\ Moved(s, PC).r.A = s.r.A /\ Moved(s, PC).r.S = s.r.S
         /\ Moved(s, PC).r.PC = PC /\ Moved(s, PC).r.status = s.r.status
         /\ Moved(s, PC).m = s.m
BY StateFields DEF Moved

LEMMA JumpMoves ==
  ASSUME NEW s, IsState(s), NEW w
  PROVE  Program!Jump(s, w) = Moved(s, U16(w))
BY JumpState DEF IsState, Moved

LEMMA Afterwards ==
  ASSUME NEW s, IsState(s), NEW op, NEW mode, op # "JSR"
  PROVE  LET after == Program!Jump(s, s.r.PC + Program!Length(op, mode))
         IN  /\ mode \in MemModes \cup {"imm"} => after = Moved(s, After(s, mode))
             /\ mode = "rel" => after = Moved(s, At(s, 2))
             /\ mode \in {"impl", "acc"} => after = Moved(s, At(s, 1))
BY Lengths, JumpMoves DEF After, At

LEMMA ReadExecuted ==
  ASSUME NEW s, IsState(s), NEW op \in ReadOps, NEW mode \in MemModes \cup {"imm"}
  PROVE  Program!Executed(s, op, mode) =
           [r |-> Program!Reading(Regs(s.r.A, s.r.X, s.r.Y, s.r.S, After(s, mode), s.r.status),
                                  op, Value(s, mode)),
            m |-> s.m]
<1>1. op # "JSR"
  BY DEF ReadOps
<1>. DEFINE after == Program!Jump(s, s.r.PC + Program!Length(op, mode))
<1>2. after = Moved(s, After(s, mode))
  BY <1>1, Afterwards
<1>3. Program!Executed(s, op, mode)
        = [after EXCEPT !.r = Program!Reading(@, op, Program!Operand(s, mode))]
  BY ExecutedCases
<1>4. Program!Operand(s, mode) = Value(s, mode)
  BY SameTarget
<1>. HIDE DEF after
<1>. QED  BY <1>2, <1>3, <1>4 DEF Moved, State

LEMMA StoreExecuted ==
  ASSUME NEW s, IsState(s), NEW op \in StoreOps, NEW mode \in MemModes
  PROVE  Program!Executed(s, op, mode) =
           State(s.r.A, s.r.X, s.r.Y, s.r.S, After(s, mode), s.r.status,
                 Store(s.m, Target(s, mode), Stored(s.r, op)))
<1>1. op # "JSR"
  BY DEF StoreOps
<1>. DEFINE after == Program!Jump(s, s.r.PC + Program!Length(op, mode))
<1>2. after = Moved(s, After(s, mode))
  BY <1>1, Afterwards
<1>3. Program!Executed(s, op, mode)
        = [after EXCEPT !.m = Program!Poke(@, Program!EffectiveAddress(s, mode),
                                           Stored(s.r, op))]
  BY ExecutedCases
<1>4. Program!EffectiveAddress(s, mode) = Target(s, mode)
  BY SameTarget
<1>. HIDE DEF after
<1>. QED  BY <1>2, <1>3, <1>4, SameMemory DEF Moved, State

LEMMA ImpliedExecuted ==
  ASSUME NEW s, IsState(s), NEW op \in ImpliedOps
  PROVE  Program!Executed(s, op, "impl") =
           [r |-> Program!Inherent(Regs(s.r.A, s.r.X, s.r.Y, s.r.S, At(s, 1), s.r.status), op),
            m |-> s.m]
<1>1. op # "JSR"
  BY DEF ImpliedOps, FlagOps, RegOps
<1>. DEFINE after == Program!Jump(s, s.r.PC + Program!Length(op, "impl"))
<1>2. after = Moved(s, At(s, 1))
  BY <1>1, Afterwards
<1>3. Program!Executed(s, op, "impl") = [after EXCEPT !.r = Program!Inherent(@, op)]
  BY ExecutedCases
<1>. HIDE DEF after
<1>. QED  BY <1>2, <1>3 DEF Moved, State

LEMMA BranchExecuted ==
  ASSUME NEW s, IsState(s), NEW op \in BranchOps
  PROVE  Program!Executed(s, op, "rel") =
           Moved(s, IF Taken(op, s.r.status)
                    THEN U16(At(s, 2) + Signed(First(s))) ELSE At(s, 2))
<1>1. op # "JSR"
  BY DEF BranchOps
<1>. DEFINE after == Program!Jump(s, s.r.PC + Program!Length(op, "rel"))
<1>2. after = Moved(s, At(s, 2))
  BY <1>1, Afterwards
<1>3. Program!Executed(s, op, "rel") =
        IF Program!Condition(op, s.r.status)
        THEN Program!Jump(after, after.r.PC + Program!Signed(Program!Argument(s, 1)))
        ELSE after
  BY ExecutedCases
<1>. HIDE DEF after
<1>4. after.r.PC = At(s, 2)
  BY <1>2, MovedFields
<1>5. \A w : Program!Jump(Moved(s, At(s, 2)), w) = Moved(s, U16(w))
  BY JumpState DEF Moved
<1>. QED  BY <1>2, <1>3, <1>4, <1>5, SameCondition, SameBytes, ArgumentBytes

LEMMA AccumulatorExecuted ==
  ASSUME NEW s, IsState(s), NEW op \in ModifyOps
  PROVE  LET new == Modified(op, s.r.status, s.r.A)
         IN  Program!Executed(s, op, "acc") =
               State(new.res, s.r.X, s.r.Y, s.r.S, At(s, 1), new.status, s.m)
<1>1. op # "JSR"
  BY DEF ModifyOps
<1>. DEFINE after == Program!Jump(s, s.r.PC + Program!Length(op, "acc"))
            new   == Program!Changing(s.r.status, op, s.r.A)
<1>2. after = Moved(s, At(s, 1))
  BY <1>1, Afterwards
<1>3. Program!Executed(s, op, "acc") = [after EXCEPT !.r.A = new.res, !.r.status = new.status]
  BY ExecutedOthers
<1>4. new = Modified(op, s.r.status, s.r.A)
  BY SameChange
<1>. HIDE DEF after, new
<1>5. [after EXCEPT !.r.A = new.res]
        = State(new.res, s.r.X, s.r.Y, s.r.S, At(s, 1), s.r.status, s.m)
  BY <1>2 DEF Moved, State, Regs
<1>6. [State(new.res, s.r.X, s.r.Y, s.r.S, At(s, 1), s.r.status, s.m)
         EXCEPT !.r.status = new.status]
        = State(new.res, s.r.X, s.r.Y, s.r.S, At(s, 1), new.status, s.m)
  BY DEF State, Regs
<1>. QED  BY <1>3, <1>4, <1>5, <1>6

LEMMA ModifyExecuted ==
  ASSUME NEW s, IsState(s), NEW op \in ModifyOps, NEW mode \in MemModes
  PROVE  LET new == Modified(op, s.r.status, Value(s, mode))
         IN  Program!Executed(s, op, mode) =
               State(s.r.A, s.r.X, s.r.Y, s.r.S, After(s, mode), new.status,
                     Store(s.m, Target(s, mode), new.res))
<1>1. op # "JSR" /\ mode # "acc"
  BY DEF ModifyOps, MemModes
<1>. DEFINE after == Program!Jump(s, s.r.PC + Program!Length(op, mode))
            new   == Program!Changing(s.r.status, op, Program!Operand(s, mode))
            a     == Program!EffectiveAddress(s, mode)
<1>2. after = Moved(s, After(s, mode))
  BY <1>1, Afterwards
<1>3. Program!Executed(s, op, mode)
        = [after EXCEPT !.m = Program!Poke(@, a, new.res), !.r.status = new.status]
  BY <1>1, ExecutedOthers
<1>4. new = Modified(op, s.r.status, Value(s, mode)) /\ a = Target(s, mode)
  BY SameChange, SameTarget
<1>. HIDE DEF after, new, a
<1>5. [after EXCEPT !.m = Program!Poke(@, a, new.res)]
        = State(s.r.A, s.r.X, s.r.Y, s.r.S, After(s, mode), s.r.status, Store(s.m, a, new.res))
  BY <1>2, SameMemory DEF Moved, State
<1>6. [State(s.r.A, s.r.X, s.r.Y, s.r.S, After(s, mode), s.r.status, Store(s.m, a, new.res))
         EXCEPT !.r.status = new.status]
        = State(s.r.A, s.r.X, s.r.Y, s.r.S, After(s, mode), new.status, Store(s.m, a, new.res))
  BY DEF State, Regs
<1>. QED  BY <1>3, <1>4, <1>5, <1>6

----------------------------------------------------------------------------
(* The instructions on the stack, and the jumps. *)

LEMMA StackBytes ==
  ASSUME NEW s, IsState(s), NEW i \in 0..3
  PROVE  /\ Program!Slot(s.r, i) = 256 + Top(s, i)
         /\ Program!Peek(s.m, Program!Slot(s.r, i)) = OnStack(s, i)
         /\ Program!WordOnStack(s, i) = OnStack(s, i) + 256 * OnStack(s, i + 1)
BY SameBytes, SameMemory
   DEF Program!Slot, Program!WordOnStack, Program!PeekWord, Top, OnStack

(* S moves by one with every byte pushed. *)
LEMMA TopMoves ==
  ASSUME NEW s, IsState(s)
  PROVE  /\ U8(Top(s, -1) - 1) = Top(s, -2) /\ U8(Top(s, -2) - 1) = Top(s, -3)
         /\ U8(Top(s, -1) + 0) = Top(s, -1) /\ U8(Top(s, -2) + 0) = Top(s, -2)
         /\ U8(s.r.S - 1) = Top(s, -1) /\ U8(s.r.S - 3) = Top(s, -3)
         /\ Top(s, 0) = s.r.S
<1>1. s.r.S \in Byte
  BY RegistersTypes
<1>2. ASSUME NEW b \in Byte
      PROVE  /\ (((b - 1) % 256) - 1) % 256 = (b - 2) % 256
             /\ (((b - 2) % 256) - 1) % 256 = (b - 3) % 256
             /\ (((b - 1) % 256) + 0) % 256 = (b - 1) % 256
             /\ (((b - 2) % 256) + 0) % 256 = (b - 2) % 256
             /\ (b + 0) % 256 = b
             /\ b + -1 = b - 1 /\ b + -2 = b - 2 /\ b + -3 = b - 3
  BY DEF Byte
<1>. QED  BY <1>1, <1>2 DEF Top, U8

LEMMA PushExecuted ==
  ASSUME NEW s, IsState(s)
  PROVE  /\ Program!Executed(s, "PHA", "impl") =
              State(s.r.A, s.r.X, s.r.Y, Top(s, -1), At(s, 1), s.r.status,
                    Store(s.m, 256 + Top(s, 0), s.r.A))
         /\ Program!Executed(s, "PHP", "impl") =
              State(s.r.A, s.r.X, s.r.Y, Top(s, -1), At(s, 1), s.r.status,
                    Store(s.m, 256 + Top(s, 0), ByteOf(s.r.status \cup {BF, XF})))
<1>. DEFINE a == Program!Jump(s, s.r.PC + Program!Length("PHA", "impl"))
            p == Program!Jump(s, s.r.PC + Program!Length("PHP", "impl"))
<1>1. a = Moved(s, At(s, 1)) /\ p = Moved(s, At(s, 1))
  BY Afterwards
<1>2. Program!Executed(s, "PHA", "impl") = Program!Pushed(a, s.r.A)
      /\ Program!Executed(s, "PHP", "impl") = Program!PushedStatus(p)
  BY ExecutedStack
<1>. HIDE DEF a, p
<1>3. p.r.status = s.r.status
  BY <1>1, MovedFields
<1>4. Program!PushedStatus(p) = Program!Pushed(p, ByteOf(s.r.status \cup {BF, XF}))
  BY <1>3, SameBytes, FlagNumbers DEF Program!PushedStatus
<1>5. \A b : Program!Pushed(Moved(s, At(s, 1)), b) =
               State(s.r.A, s.r.X, s.r.Y, Top(s, -1), At(s, 1), s.r.status,
                     Store(s.m, 256 + Top(s, 0), b))
  BY PushedState, TopMoves DEF Moved, Top
<1>. QED  BY <1>1, <1>2, <1>4, <1>5

LEMMA PullExecuted ==
  ASSUME NEW s, IsState(s)
  PROVE  /\ Program!Executed(s, "PLA", "impl") =
              State(OnStack(s, 1), s.r.X, s.r.Y, Top(s, 1), At(s, 1),
                    update_flags_register(s.r.status, OnStack(s, 1)), s.m)
         /\ Program!Executed(s, "PLP", "impl") =
              State(s.r.A, s.r.X, s.r.Y, Top(s, 1), At(s, 1),
                    Bits(OnStack(s, 1)) \ {BF, XF}, s.m)
<1>. DEFINE a == Program!Jump(s, s.r.PC + Program!Length("PLA", "impl"))
            p == Program!Jump(s, s.r.PC + Program!Length("PLP", "impl"))
            b == OnStack(s, 1)
            t == s.r.status
<1>1. a = Moved(s, At(s, 1)) /\ p = Moved(s, At(s, 1))
  BY Afterwards
<1>2. Program!Peek(s.m, Program!Slot(s.r, 1)) = b
  BY StackBytes
<1>3. Program!Executed(s, "PLA", "impl")
        = [a EXCEPT !.r = Program!Loaded(Program!Popped(a.r, 1), "A", b)]
  BY <1>2, ExecutedStack
<1>4. Program!Executed(s, "PLP", "impl")
        = [p EXCEPT !.r.S = Program!U8(@ + 1), !.r.status = Program!StatusOf(b)]
  BY <1>2, ExecutedStack
<1>. HIDE DEF a, p, b, t
<1>5. Program!Executed(s, "PLA", "impl") =
        State(b, s.r.X, s.r.Y, Top(s, 1), At(s, 1), update_flags_register(t, b), s.m)
  <2>1. a.r = Regs(s.r.A, s.r.X, s.r.Y, s.r.S, At(s, 1), t) /\ a.m = s.m
    BY <1>1, MovedFields DEF t
  <2>2. Program!Popped(a.r, 1) = Regs(s.r.A, s.r.X, s.r.Y, Top(s, 1), At(s, 1), t)
    BY <2>1, SameBytes DEF Program!Popped, Regs, Top
  <2>3. Program!Loaded(Program!Popped(a.r, 1), "A", b)
          = Regs(b, s.r.X, s.r.Y, Top(s, 1), At(s, 1), update_flags_register(t, b))
    BY <2>2, LoadedRegs
  <2>. QED  BY <1>1, <1>3, <2>3 DEF Moved, State
<1>6. Program!Executed(s, "PLP", "impl") =
        State(s.r.A, s.r.X, s.r.Y, Top(s, 1), At(s, 1), Bits(b) \ {BF, XF}, s.m)
  <2>1. [p EXCEPT !.r.S = Program!U8(@ + 1)]
          = State(s.r.A, s.r.X, s.r.Y, Top(s, 1), At(s, 1), t, s.m)
    BY <1>1, SameBytes DEF Moved, State, Regs, Top, t
  <2>2. Program!StatusOf(b) = Bits(b) \ {BF, XF}
    BY SameBytes, FlagNumbers DEF Program!StatusOf
  <2>3. [State(s.r.A, s.r.X, s.r.Y, Top(s, 1), At(s, 1), t, s.m)
           EXCEPT !.r.status = Program!StatusOf(b)]
          = State(s.r.A, s.r.X, s.r.Y, Top(s, 1), At(s, 1), Program!StatusOf(b), s.m)
    BY DEF State, Regs
  <2>. QED  BY <1>4, <2>1, <2>2, <2>3
<1>. QED  BY <1>5, <1>6 DEF b, t

LEMMA WordFits == ASSUME NEW w \in Word PROVE U16(w) = w
<1>1. w \in Int /\ w >= 0 /\ w < 65536
  BY DEF Word
<1>2. w % 65536 = w
  BY <1>1
<1>. QED  BY <1>2 DEF U16

LEMMA JumpExecuted ==
  ASSUME NEW s, IsState(s)
  PROVE  /\ Program!Executed(s, "JMP", "abs") = Moved(s, Absolute(s))
         /\ Program!Executed(s, "JMP", "ind") =
              Moved(s, Read(s.m, Absolute(s))
                         + 256 * Read(s.m, 256 * High(Absolute(s)) + Low(Absolute(s) + 1)))
<1>. DEFINE l == Read(s.m, Absolute(s))
            a == 256 * High(Absolute(s)) + Low(Absolute(s) + 1)
            h == Read(s.m, a)
<1>1. Absolute(s) \in Word /\ MemoryType(s.m)
  BY AddressTypes DEF IsState
<1>2. U16(Absolute(s)) = Absolute(s)
  BY <1>1, WordFits
<1>3. a \in Word
  <2>1. High(Absolute(s)) \in Byte /\ Low(Absolute(s) + 1) \in Byte
    BY <1>1, BytesOfWord, CountWord
  <2>. HIDE DEF a
  <2>. QED  BY <2>1, WordOfBytes DEF a
<1>. HIDE DEF a
<1>4. l \in Byte /\ h \in Byte
  BY <1>1, <1>3, ReadType
<1>5. Program!Executed(s, "JMP", "abs") = Moved(s, Absolute(s))
  <2>1. Program!Executed(s, "JMP", "abs") = Program!Jump(s, Program!Address(s))
    BY ExecutedJumps
  <2>. QED  BY <1>2, <2>1, JumpMoves, ArgumentBytes
<1>6. Program!JumpTarget(s) = l + 256 * h
  BY ArgumentBytes, SameMemory DEF Program!JumpTarget, Program!PeekWord, a, High, Low
<1>7. U16(l + 256 * h) = l + 256 * h
  BY <1>4, Assembled
<1>8. Program!Executed(s, "JMP", "ind") = Moved(s, l + 256 * h)
  <2>1. Program!Executed(s, "JMP", "ind") = Program!Jump(s, Program!JumpTarget(s))
    BY ExecutedJumps
  <2>. QED  BY <1>6, <1>7, <2>1, JumpMoves
<1>. QED  BY <1>5, <1>8 DEF a

LEMMA PushWord ==
  ASSUME NEW s, IsState(s)
  PROVE  /\ Program!U16(s.r.PC + 2) = At(s, 2)
         /\ Program!Pushed(s, At(s, 2) \div 256) =
              State(s.r.A, s.r.X, s.r.Y, Top(s, -1), s.r.PC, s.r.status, PushedHigh(s))
         /\ Program!PushedWord(s, At(s, 2)) =
              State(s.r.A, s.r.X, s.r.Y, Top(s, -2), s.r.PC, s.r.status, PushedBoth(s))
         /\ Program!PushedStatus(Program!PushedWord(s, At(s, 2))) =
              State(s.r.A, s.r.X, s.r.Y, Top(s, -3), s.r.PC, s.r.status, PushedAll(s))
<1>1. Program!U16(s.r.PC + 2) = At(s, 2)
  BY SameBytes DEF At
<1>2. s = State(s.r.A, s.r.X, s.r.Y, s.r.S, s.r.PC, s.r.status, s.m)
  BY DEF IsState
<1>3. ASSUME NEW S, NEW m, NEW b
      PROVE  Program!Pushed(State(s.r.A, s.r.X, s.r.Y, S, s.r.PC, s.r.status, m), b) =
               State(s.r.A, s.r.X, s.r.Y, U8(S - 1), s.r.PC, s.r.status,
                     Store(m, 256 + U8(S + 0), b))
  BY PushedState
<1>4. U8(s.r.S + 0) = Top(s, 0) /\ U8(s.r.S - 1) = Top(s, -1)
  BY TopMoves DEF Top
<1>5. Program!Pushed(s, At(s, 2) \div 256) =
        State(s.r.A, s.r.X, s.r.Y, Top(s, -1), s.r.PC, s.r.status, PushedHigh(s))
  BY <1>2, <1>3, <1>4 DEF PushedHigh, High
<1>6. Program!PushedWord(s, At(s, 2)) =
        State(s.r.A, s.r.X, s.r.Y, Top(s, -2), s.r.PC, s.r.status, PushedBoth(s))
  BY <1>3, <1>5, TopMoves DEF Program!PushedWord, PushedBoth, Low
<1>7. Program!PushedStatus(Program!PushedWord(s, At(s, 2))) =
        State(s.r.A, s.r.X, s.r.Y, Top(s, -3), s.r.PC, s.r.status, PushedAll(s))
  <2>. DEFINE w == State(s.r.A, s.r.X, s.r.Y, Top(s, -2), s.r.PC, s.r.status, PushedBoth(s))
  <2>1. w.r.status = s.r.status
    BY StateFields
  <2>2. Program!PushedStatus(w) = Program!Pushed(w, ByteOf(s.r.status \cup {BF, XF}))
    BY <2>1, SameBytes, FlagNumbers DEF Program!PushedStatus
  <2>. QED  BY <1>3, <1>6, <2>2, TopMoves DEF PushedAll
<1>. QED  BY <1>1, <1>5, <1>6, <1>7

LEMMA CallExecuted ==
  ASSUME NEW s, IsState(s), NEW mode
  PROVE  Program!Executed(s, "JSR", mode) =
           State(s.r.A, s.r.X, s.r.Y, Top(s, -2),
                 U16(First(s) + 256 * Read(PushedBoth(s), At(s, 2))), s.r.status, PushedBoth(s))
<1>. DEFINE called == Program!PushedWord(s, Program!U16(s.r.PC + 2))
<1>1. Program!Executed(s, "JSR", mode) =
        Program!Jump(called, Program!Argument(s, 1) + 256 * Program!Argument(called, 2))
  BY ExecutedJumps
<1>4. called = State(s.r.A, s.r.X, s.r.Y, Top(s, -2), s.r.PC, s.r.status, PushedBoth(s))
  BY PushWord
<1>. HIDE DEF called
<1>2. called.m = PushedBoth(s) /\ called.r.PC = s.r.PC
  BY <1>4, StateFields
<1>3. Program!Argument(called, 2) = Read(PushedBoth(s), At(s, 2))
  BY <1>2, SameBytes, SameMemory DEF Program!Argument, At
<1>. QED  BY <1>1, <1>3, <1>4, ArgumentBytes, JumpState

LEMMA ReturnExecuted ==
  ASSUME NEW s, IsState(s), NEW mode
  PROVE  /\ Program!Executed(s, "RTS", mode) =
              State(s.r.A, s.r.X, s.r.Y, Top(s, 2),
                    U16(OnStack(s, 1) + 256 * OnStack(s, 2) + 1), s.r.status, s.m)
         /\ Program!Executed(s, "RTI", mode) =
              State(s.r.A, s.r.X, s.r.Y, Top(s, 3), OnStack(s, 2) + 256 * OnStack(s, 3),
                    Bits(OnStack(s, 1)) \ {BF, XF}, s.m)
<1>1. s = State(s.r.A, s.r.X, s.r.Y, s.r.S, s.r.PC, s.r.status, s.m)
  BY DEF IsState
<1>2. [s EXCEPT !.r.S = Program!U8(@ + 2)]
        = State(s.r.A, s.r.X, s.r.Y, Top(s, 2), s.r.PC, s.r.status, s.m)
  BY <1>1, SameBytes DEF State, Regs, Top
<1>3. [s EXCEPT !.r.S = Program!U8(@ + 3)]
        = State(s.r.A, s.r.X, s.r.Y, Top(s, 3), s.r.PC, s.r.status, s.m)
  BY <1>1, SameBytes DEF State, Regs, Top
<1>4. Program!Executed(s, "RTS", mode) =
        State(s.r.A, s.r.X, s.r.Y, Top(s, 2),
              U16(OnStack(s, 1) + 256 * OnStack(s, 2) + 1), s.r.status, s.m)
  <2>1. Program!WordOnStack(s, 1) = OnStack(s, 1) + 256 * OnStack(s, 2)
    BY StackBytes
  <2>. DEFINE popped == [s EXCEPT !.r.S = Program!U8(@ + 2)]
  <2>2. Program!Executed(s, "RTS", mode) = Program!Jump(popped, Program!WordOnStack(s, 1) + 1)
    BY ExecutedJumps
  <2>3. popped = State(s.r.A, s.r.X, s.r.Y, Top(s, 2), s.r.PC, s.r.status, s.m)
    BY <1>2
  <2>. HIDE DEF popped
  <2>. QED  BY <2>1, <2>2, <2>3, JumpState
<1>5. OnStack(s, 2) \in Byte /\ OnStack(s, 3) \in Byte
  BY AddressTypes
<1>6. U16(OnStack(s, 2) + 256 * OnStack(s, 3)) = OnStack(s, 2) + 256 * OnStack(s, 3)
  BY <1>5, Assembled
<1>7. Program!WordOnStack(s, 2) = OnStack(s, 2) + 256 * OnStack(s, 3)
  BY StackBytes
<1>8. Program!StatusOf(Program!Peek(s.m, Program!Slot(s.r, 1))) = Bits(OnStack(s, 1)) \ {BF, XF}
  BY StackBytes, SameBytes, FlagNumbers DEF Program!StatusOf
<1>. DEFINE t == Program!StatusOf(Program!Peek(s.m, Program!Slot(s.r, 1)))
            w == OnStack(s, 2) + 256 * OnStack(s, 3)
<1>9. Program!Jump(State(s.r.A, s.r.X, s.r.Y, Top(s, 3), s.r.PC, s.r.status, s.m), w)
        = State(s.r.A, s.r.X, s.r.Y, Top(s, 3), w, s.r.status, s.m)
  BY <1>6, JumpState
<1>10. Program!Executed(s, "RTI", mode) =
         [Program!Jump([s EXCEPT !.r.S = Program!U8(@ + 3)], Program!WordOnStack(s, 2))
            EXCEPT !.r.status = t]
  BY ExecutedJumps
<1>. HIDE DEF t, w
<1>11. [State(s.r.A, s.r.X, s.r.Y, Top(s, 3), w, s.r.status, s.m) EXCEPT !.r.status = t]
         = State(s.r.A, s.r.X, s.r.Y, Top(s, 3), w, t, s.m)
  BY DEF State, Regs
<1>12. Program!Executed(s, "RTI", mode) = State(s.r.A, s.r.X, s.r.Y, Top(s, 3), w, t, s.m)
  BY <1>3, <1>7, <1>9, <1>10, <1>11 DEF w
<1>. QED  BY <1>4, <1>8, <1>12 DEF t, w

LEMMA BreakExecuted ==
  ASSUME NEW s, IsState(s), NEW mode
  PROVE  Program!Executed(s, "BRK", mode) =
           State(s.r.A, s.r.X, s.r.Y, Top(s, -3),
                 U16(Read(PushedAll(s), IRQ_VECTOR_ADDR)
                       + 256 * Read(PushedAll(s), IRQ_VECTOR_ADDR + 1)),
                 s.r.status \cup {IF_}, PushedAll(s))
<1>. DEFINE p == State(s.r.A, s.r.X, s.r.Y, Top(s, -3), s.r.PC, s.r.status, PushedAll(s))
            q == [p EXCEPT !.r.status = @ \cup {Program!IF_}]
<1>1. Program!PushedStatus(Program!PushedWord(s, Program!U16(s.r.PC + 2))) = p
  BY PushWord
<1>2. Program!Executed(s, "BRK", mode) = Program!Jump(q, Program!BreakVector(s))
  BY <1>1, ExecutedJumps
<1>3. q = State(s.r.A, s.r.X, s.r.Y, Top(s, -3), s.r.PC, s.r.status \cup {IF_}, PushedAll(s))
  BY FlagNumbers DEF State, Regs
<1>4. Program!BreakVector(s) = Read(PushedAll(s), 65534) + 256 * Read(PushedAll(s), 65535)
  <2>1. p.m = PushedAll(s)
    BY StateFields
  <2>. QED  BY <1>1, <2>1, SameMemory DEF Program!BreakVector, Program!PeekWord
<1>5. IRQ_VECTOR_ADDR = 65534 /\ IRQ_VECTOR_ADDR + 1 = 65535
  BY DEF IRQ_VECTOR_ADDR
<1>. HIDE DEF q
<1>. QED  BY <1>2, <1>3, <1>4, <1>5, JumpState

LEMMA ResetExecuted ==
  ASSUME NEW s, IsState(s), NEW k \in 0..2
  PROVE  Program!AfterReset(s, k) =
           State(s.r.A, s.r.X, s.r.Y, Top(s, -3),
                 Read(Before(s, k), RESET_VECTOR_ADDR)
                   + 256 * Read(Before(s, k), RESET_VECTOR_ADDR + 1),
                 s.r.status \cup {IF_}, Before(s, k))
<1>. DEFINE m == Program!PushedBefore(s, k)
            w == Program!PeekWord(m, 65532, 65533)
<1>1. m = Before(s, k)
  <2>1. Program!Pushed(s, At(s, 2) \div 256).m = PushedHigh(s)
        /\ Program!PushedWord(s, At(s, 2)).m = PushedBoth(s)
    BY PushWord, StateFields
  <2>2. CASE k = 0
    BY <2>2 DEF Program!PushedBefore, Before
  <2>3. CASE k = 1
    BY <2>1, <2>3, PushWord DEF Program!PushedBefore, Before
  <2>4. CASE k = 2
    BY <2>1, <2>4, PushWord DEF Program!PushedBefore, Before
  <2>. QED  BY <2>2, <2>3, <2>4
<1>2. RESET_VECTOR_ADDR = 65532 /\ RESET_VECTOR_ADDR + 1 = 65533
  BY DEF RESET_VECTOR_ADDR
<1>3. w = Read(m, RESET_VECTOR_ADDR) + 256 * Read(m, RESET_VECTOR_ADDR + 1)
  BY <1>2, SameMemory DEF Program!PeekWord
<1>. HIDE DEF m, w
<1>4. s.r = Regs(s.r.A, s.r.X, s.r.Y, s.r.S, s.r.PC, s.r.status)
  BY StateFields DEF IsState
<1>. DEFINE t == s.r.status \cup {IF_}
<1>5. [s.r EXCEPT !.S = Program!U8(@ - 3), !.status = @ \cup {Program!IF_}, !.PC = w]
        = Regs(s.r.A, s.r.X, s.r.Y, Top(s, -3), w, t)
  <2>1. Program!U8(s.r.S - 3) = Top(s, -3) /\ s.r.status \cup {Program!IF_} = t
    BY SameBytes, FlagNumbers, TopMoves
  <2>2. [s.r EXCEPT !.S = Program!U8(s.r.S - 3)]
          = Regs(s.r.A, s.r.X, s.r.Y, Top(s, -3), s.r.PC, s.r.status)
    BY <1>4, <2>1 DEF Regs
  <2>3. [Regs(s.r.A, s.r.X, s.r.Y, Top(s, -3), s.r.PC, s.r.status)
           EXCEPT !.status = @ \cup {Program!IF_}]
          = Regs(s.r.A, s.r.X, s.r.Y, Top(s, -3), s.r.PC, t)
    BY <2>1 DEF Regs
  <2>. HIDE DEF t
  <2>4. [Regs(s.r.A, s.r.X, s.r.Y, Top(s, -3), s.r.PC, t) EXCEPT !.PC = w]
          = Regs(s.r.A, s.r.X, s.r.Y, Top(s, -3), w, t)
    BY DEF Regs
  <2>. QED  BY <2>2, <2>3, <2>4
<1>6. Program!AfterReset(s, k) =
        [m |-> m, r |-> [s.r EXCEPT !.S = Program!U8(@ - 3), !.status = @ \cup {Program!IF_},
                                    !.PC = w]]
  BY DEF Program!AfterReset, m, w
<1>. QED  BY <1>1, <1>3, <1>5, <1>6 DEF State

----------------------------------------------------------------------------
(* The bytes of an address. *)

LEMMA OrNothing ==
  ASSUME NEW b \in Byte
  PROVE  BitOr(0, b) = b /\ BitOr(b, 0) = b
<1>1. Bits(0) = {}
  BY DEF Bits, Bit, Weight
<1>2. ByteOf(Bits(b)) = b
  BY ByteOfBits DEF Byte
<1>. QED  BY <1>1, <1>2 DEF BitOr

(* OrHigh puts two bytes together, and adds nothing to page zero. *)
LEMMA OrHighBytes ==
  ASSUME NEW l \in Byte, NEW h \in Byte
  PROVE  OrHigh(l, h) = l + 256 * h
<1>1. l \in Int /\ h \in Int /\ l >= 0 /\ l < 256
  BY DEF Byte
<1>2. High(l) = 0 /\ Low(l) = l
  BY <1>1 DEF High, Low
<1>3. OrHigh(l, h) = 256 * h + l
  BY <1>2, OrNothing DEF OrHigh
<1>. QED  BY <1>1, <1>3

LEMMA OrHighZero ==
  ASSUME NEW w \in Word
  PROVE  OrHigh(w, 0) = w
<1>1. w \in Int /\ w >= 0 /\ w < 65536
  BY DEF Word
<1>2. w = 256 * (w \div 256) + (w % 256)
  BY <1>1
<1>3. BitOr(High(w), 0) = High(w)
  BY BytesOfWord, OrNothing
<1>. QED  BY <1>2, <1>3 DEF OrHigh, High, Low

LEMMA AtMoves ==
  ASSUME NEW s, IsState(s), NEW i \in 0..2
  PROVE  U16(At(s, i) + 1) = At(s, i + 1)
<1>1. s.r.PC \in Word
  BY RegistersTypes
<1>2. ASSUME NEW w \in Word
      PROVE  U16(U16(w + i) + 1) = U16(w + (i + 1))
  <2>1. w + i \in Int /\ (w + i) + 1 = w + (i + 1)
    BY DEF Word
  <2>. QED  BY <2>1, CountOn
<1>. QED  BY <1>1, <1>2 DEF At

----------------------------------------------------------------------------
(* A cycle that reads at addr and leaves the registers, but for PC. *)
Reads(c, d, PC, AD, addr) ==
  /\ d.A = c.A /\ d.X = c.X /\ d.Y = c.Y /\ d.S = c.S
  /\ d.status = c.status
  /\ d.PC = PC /\ d.AD = AD /\ d.addr_bus = addr
  /\ d.RW /\ ~d.SYNC

LEMMA ByteReads ==
  ASSUME NEW c, Running(c)
  PROVE  /\ Reads(c, NextByte(c), U16(c.PC + 1), c.AD, c.PC) /\ NextByte(c).IR = c.IR
         /\ Reads(c, IdleRead(c), c.PC, c.AD, c.PC) /\ IdleRead(c).IR = c.IR
         /\ Stage(c) = 0 => Reads(c, AddressLow(c), U16(c.PC + 1), c.AD, c.PC)
         /\ Stage(c) # 0 => Reads(c, AddressLow(c), U16(c.PC + 1), c.data_bus, c.PC)
         /\ AddressLow(c).IR = c.IR
BY DEF Running, Machine, NextByte, IdleRead, AddressLow, Reads

(* get_arg_*, stage by stage. *)
LEMMA ZeroPageReads ==
  ASSUME NEW c, Running(c), NEW x
  PROVE  LET g == get_arg_zero_page(c)
             h == get_arg_zero_page_index(c, x)
         IN  /\ Stage(c) = 0 => Reads(c, g, U16(c.PC + 1), c.AD, c.PC)
             /\ Stage(c) = 1 => Reads(c, g, c.PC, c.data_bus, c.data_bus)
             /\ g.IR = c.IR /\ h.IR = c.IR
             /\ Stage(c) \in 0..1 => h = g
             /\ Stage(c) = 2 => Reads(c, h, c.PC, c.AD, Low(c.AD + x))
<1>1. Stage(c) \in 0..7
  BY StageType DEF Running
<1>2. get_arg_zero_page(c).IR = c.IR
  BY DEF Running, Machine, NextByte, get_arg_zero_page
<1>3. get_arg_zero_page_index(c, x).IR = c.IR
  BY <1>2 DEF Running, Machine, get_arg_zero_page_index
<1>4. Stage(c) = 0 => Reads(c, get_arg_zero_page(c), U16(c.PC + 1), c.AD, c.PC)
  BY ByteReads DEF get_arg_zero_page
<1>5. Stage(c) = 1 => Reads(c, get_arg_zero_page(c), c.PC, c.data_bus, c.data_bus)
  <2>. DEFINE g == get_arg_zero_page(c)
  <2>1. Stage(c) = 1 => g = [c EXCEPT !.AD = c.data_bus, !.addr_bus = c.data_bus]
    BY DEF get_arg_zero_page
  <2>. HIDE DEF g
  <2>2. Stage(c) = 1 => Reads(c, g, c.PC, c.data_bus, c.data_bus)
    BY <2>1 DEF Running, Machine, Reads
  <2>. QED  BY <2>2 DEF g
<1>6. Stage(c) = 2 => Reads(c, get_arg_zero_page_index(c, x), c.PC, c.AD, Low(c.AD + x))
  BY DEF Running, Machine, get_arg_zero_page_index, Reads
<1>7. Stage(c) \in 0..1 => get_arg_zero_page_index(c, x) = get_arg_zero_page(c)
  BY DEF get_arg_zero_page_index
<1>. QED  BY <1>2, <1>3, <1>4, <1>5, <1>6, <1>7

LEMMA AbsoluteReads ==
  ASSUME NEW c, Running(c)
  PROVE  LET g == get_arg_absolute(c)
         IN  /\ Stage(c) = 0 => Reads(c, g, U16(c.PC + 1), c.AD, c.PC)
             /\ Stage(c) = 1 => Reads(c, g, U16(c.PC + 1), c.data_bus, c.PC)
             /\ Stage(c) = 2 => Reads(c, g, c.PC, c.AD, OrHigh(c.AD, c.data_bus))
             /\ g.IR = c.IR
<1>1. Stage(c) \in 0..7
  BY StageType DEF Running
<1>2. Stage(c) \in 0..1 => get_arg_absolute(c) = AddressLow(c)
  BY DEF get_arg_absolute
<1>3. Stage(c) = 2 => /\ Reads(c, get_arg_absolute(c), c.PC, c.AD, OrHigh(c.AD, c.data_bus))
                      /\ get_arg_absolute(c).IR = c.IR
  BY DEF Running, Machine, get_arg_absolute, Reads
<1>4. Stage(c) > 2 => get_arg_absolute(c) = c
  BY <1>1 DEF get_arg_absolute
<1>. QED  BY <1>1, <1>2, <1>3, <1>4, ByteReads

LEMMA AbsoluteIndexReads ==
  ASSUME NEW c, Running(c), NEW x
  PROVE  LET g  == get_arg_absolute_index(c, x)
             ad == OrHigh(c.AD, c.data_bus)
         IN  /\ Stage(c) = 0 => Reads(c, g, U16(c.PC + 1), c.AD, c.PC)
             /\ Stage(c) = 1 => Reads(c, g, U16(c.PC + 1), c.data_bus, c.PC)
             /\ Stage(c) = 2 => /\ Reads(c, g, c.PC, ad, U16(ad + x))
                                /\ g.IR = Skip(c, Low(ad) + x < 256)
             /\ Stage(c) = 3 => Reads(c, g, c.PC, c.AD, U16(c.AD + x))
             /\ Stage(c) # 2 => g.IR = c.IR
<1>. DEFINE ad == OrHigh(c.AD, c.data_bus)
            g  == get_arg_absolute_index(c, x)
            ir == Skip(c, Low(ad) + x < 256)
<1>1. Stage(c) \in 0..7
  BY StageType DEF Running
<1>2. Stage(c) \in 0..1 => g = AddressLow(c)
  BY DEF get_arg_absolute_index
<1>3. Stage(c) = 2 => g = [c EXCEPT !.AD = ad, !.addr_bus = U16(ad + x), !.IR = ir]
  BY DEF get_arg_absolute_index
<1>4. Stage(c) = 3 => g = [c EXCEPT !.addr_bus = U16(c.AD + x)]
  BY DEF get_arg_absolute_index
<1>5. Stage(c) > 3 => g = c
  BY <1>1 DEF get_arg_absolute_index
<1>. HIDE DEF g, ad, ir
<1>6. Stage(c) = 2 => Reads(c, g, c.PC, ad, U16(ad + x)) /\ g.IR = ir
  BY <1>3 DEF Running, Machine, Reads
<1>7. Stage(c) = 3 => Reads(c, g, c.PC, c.AD, U16(c.AD + x)) /\ g.IR = c.IR
  BY <1>4 DEF Running, Machine, Reads
<1>. QED  BY <1>1, <1>2, <1>5, <1>6, <1>7, ByteReads DEF g, ad, ir

LEMMA IndirectIndexReads ==
  ASSUME NEW c, Running(c)
  PROVE  LET g  == get_arg_indirect_index(c)
             ad == OrHigh(c.AD, c.data_bus)
         IN  /\ Stage(c) = 0 => Reads(c, g, U16(c.PC + 1), c.AD, c.PC)
             /\ Stage(c) = 1 => Reads(c, g, c.PC, c.data_bus, c.data_bus)
             /\ Stage(c) = 2 => Reads(c, g, c.PC, c.data_bus, Low(c.AD + 1))
             /\ Stage(c) = 3 => /\ Reads(c, g, c.PC, ad, OrHigh(U16(ad + c.Y), High(ad)))
                                /\ g.IR = Skip(c, ad + c.Y <= 255)
             /\ Stage(c) = 4 => Reads(c, g, c.PC, c.AD, U16(c.AD + c.Y))
             /\ Stage(c) # 3 => g.IR = c.IR
<1>. DEFINE ad    == OrHigh(c.AD, c.data_bus)
            g     == get_arg_indirect_index(c)
            ir    == Skip(c, ad + c.Y <= 255)
            guess == OrHigh(U16(ad + c.Y), High(ad))
<1>1. Stage(c) \in 0..7
  BY StageType DEF Running
<1>2. Stage(c) \in 0..1 => g = get_arg_zero_page(c)
  BY DEF get_arg_indirect_index
<1>3. Stage(c) = 2 => g = [c EXCEPT !.addr_bus = Low(c.AD + 1), !.AD = c.data_bus]
  BY DEF get_arg_indirect_index
<1>4. Stage(c) = 3 => g = [c EXCEPT !.AD = ad, !.addr_bus = guess, !.IR = ir]
  BY DEF get_arg_indirect_index
<1>5. Stage(c) = 4 => g = [c EXCEPT !.addr_bus = U16(c.AD + c.Y)]
  BY DEF get_arg_indirect_index
<1>6. Stage(c) > 4 => g = c
  BY <1>1 DEF get_arg_indirect_index
<1>. HIDE DEF g, ad, ir, guess
<1>7. Stage(c) = 2 => Reads(c, g, c.PC, c.data_bus, Low(c.AD + 1)) /\ g.IR = c.IR
  BY <1>3 DEF Running, Machine, Reads
<1>8. Stage(c) = 3 => Reads(c, g, c.PC, ad, guess) /\ g.IR = ir
  BY <1>4 DEF Running, Machine, Reads
<1>9. Stage(c) = 4 => Reads(c, g, c.PC, c.AD, U16(c.AD + c.Y)) /\ g.IR = c.IR
  BY <1>5 DEF Running, Machine, Reads
<1>. QED  BY <1>1, <1>2, <1>6, <1>7, <1>8, <1>9, ZeroPageReads DEF g, ad, ir, guess

LEMMA IndexIndirectReads ==
  ASSUME NEW c, Running(c)
  PROVE  LET g == get_arg_index_indirect(c)
             pointer == Low(c.AD + c.X)
         IN  /\ Stage(c) = 0 => Reads(c, g, U16(c.PC + 1), c.AD, c.PC)
             /\ Stage(c) = 1 => Reads(c, g, c.PC, c.data_bus, c.data_bus)
             /\ Stage(c) = 2 => Reads(c, g, c.PC, pointer, pointer)
             /\ Stage(c) = 3 => Reads(c, g, c.PC, c.data_bus, Low(c.AD + 1))
             /\ Stage(c) = 4 => Reads(c, g, c.PC, c.AD, OrHigh(c.AD, c.data_bus))
             /\ g.IR = c.IR
<1>. DEFINE g == get_arg_index_indirect(c)
            pointer == Low(c.AD + c.X)
<1>1. Stage(c) \in 0..7
  BY StageType DEF Running
<1>2. Stage(c) \in 0..1 => g = get_arg_zero_page(c)
  BY DEF get_arg_index_indirect
<1>3. Stage(c) = 2 => g = [c EXCEPT !.AD = pointer, !.addr_bus = pointer]
  BY DEF get_arg_index_indirect
<1>4. Stage(c) = 3 => g = [c EXCEPT !.addr_bus = Low(c.AD + 1), !.AD = c.data_bus]
  BY DEF get_arg_index_indirect
<1>5. Stage(c) = 4 => g = [c EXCEPT !.addr_bus = OrHigh(c.AD, c.data_bus)]
  BY DEF get_arg_index_indirect
<1>6. Stage(c) > 4 => g = c
  BY <1>1 DEF get_arg_index_indirect
<1>. HIDE DEF g, pointer
<1>7. Stage(c) = 2 => Reads(c, g, c.PC, pointer, pointer) /\ g.IR = c.IR
  BY <1>3 DEF Running, Machine, Reads
<1>8. Stage(c) = 3 => Reads(c, g, c.PC, c.data_bus, Low(c.AD + 1)) /\ g.IR = c.IR
  BY <1>4 DEF Running, Machine, Reads
<1>9. Stage(c) = 4 => Reads(c, g, c.PC, c.AD, OrHigh(c.AD, c.data_bus)) /\ g.IR = c.IR
  BY <1>5 DEF Running, Machine, Reads
<1>. QED  BY <1>1, <1>2, <1>6, <1>7, <1>8, <1>9, ZeroPageReads DEF g, pointer

----------------------------------------------------------------------------
(* get_arg_* goes on with the address of the operand. *)

(***************************************************************************)
(* g is c after a cycle of get_arg_*, which leads to the k-th one.         *)
(***************************************************************************)
Progress(c, s, g, mode, k) ==
  /\ Reads(c, g, At(s, Passed(mode, k)), g.AD, g.addr_bus)
  /\ Argued(s, g.AD, Read(s.m, g.addr_bus), mode, k)
  /\ k = ArgStages(mode) => g.addr_bus = Target(s, mode)
  /\ g.IR = c.IR + (k - Stage(c) - 1)

(* What a cycle of get_arg_* finds. *)
Arguing(s, c, m, mode) ==
  /\ Running(c) /\ IsState(s)
  /\ ArgAt(s, c, m, mode, Stage(c))
  /\ Stage(c) < ArgStages(mode)

LEMMA Found ==
  ASSUME NEW c, NEW s, NEW m, NEW mode, Arguing(s, c, m, mode)
  PROVE  /\ Running(c) /\ IsState(s) /\ c.IR \in Int
         /\ c.X = s.r.X /\ c.Y = s.r.Y
         /\ c.PC = At(s, Passed(mode, Stage(c)))
         /\ Argued(s, c.AD, c.data_bus, mode, Stage(c))
         /\ Stage(c) \in 0..4 /\ Stage(c) < ArgStages(mode)
<1>1. Running(c) /\ Stage(c) < ArgStages(mode)
  BY DEF Arguing
<1>2. ArgStages(mode) \in 1..5 /\ Stage(c) \in 0..7
  BY <1>1, ArgStagesType, StageType DEF Running
<1>3. Stage(c) \in 0..4
  BY <1>1, <1>2
<1>4. c.IR \in Int
  BY <1>1 DEF Running, Machine
<1>. QED  BY <1>1, <1>3, <1>4 DEF Arguing, ArgAt, Shows

LEMMA PassedBytes ==
  ASSUME NEW mode
  PROVE  /\ Passed(mode, 0) = 1 /\ Passed(mode, 1) = 2
         /\ \A k \in 2..5 : Passed(mode, k) = IF mode \in TwoBytes THEN 3 ELSE 2
BY DEF Passed

LEMMA AtMovesOn ==
  ASSUME NEW s, IsState(s)
  PROVE  U16(At(s, 1) + 1) = At(s, 2) /\ U16(At(s, 2) + 1) = At(s, 3)
<1>1. U16(At(s, 1) + 1) = At(s, 1 + 1)
  BY AtMoves
<1>2. U16(At(s, 2) + 1) = At(s, 2 + 1)
  BY AtMoves
<1>. QED  BY <1>1, <1>2

LEMMA ImmediateArg ==
  ASSUME NEW c, NEW s, NEW m, Arguing(s, c, m, "imm")
  PROVE  Progress(c, s, GetArg(c, "imm"), "imm", Stage(c) + 1)
<1>1. ArgStages("imm") = 1
  BY DEF ArgStages
<1>2. Stage(c) = 0 /\ c.PC = At(s, 1) /\ c.IR \in Int
  BY <1>1, Found, PassedBytes
<1>. DEFINE g == GetArg(c, "imm")
<1>3. g = NextByte(c)
  BY DEF GetArg
<1>. HIDE DEF g
<1>4. Running(c) /\ IsState(s)
  BY Found
<1>5. Reads(c, g, At(s, 2), c.AD, At(s, 1)) /\ g.IR = c.IR
  BY <1>2, <1>3, <1>4, ByteReads, AtMovesOn
<1>6. Argued(s, g.AD, Read(s.m, g.addr_bus), "imm", 1)
  BY <1>5 DEF Argued, Reads, First
<1>7. g.addr_bus = Target(s, "imm")
  BY <1>5 DEF Target, Reads
<1>8. Reads(c, g, At(s, Passed("imm", 1)), g.AD, g.addr_bus)
  BY <1>5, PassedBytes DEF Reads
<1>. QED  BY <1>1, <1>2, <1>5, <1>6, <1>7, <1>8 DEF Progress, g

(* The first cycle is the same for all modes but #operand. *)
LEMMA FirstArg ==
  ASSUME NEW c, NEW s, NEW m, NEW mode \in MemModes, Arguing(s, c, m, mode), Stage(c) = 0,
         NEW g, Reads(c, g, U16(c.PC + 1), c.AD, c.PC), g.IR = c.IR
  PROVE  Progress(c, s, g, mode, 1)
<1>1. ArgStages(mode) # 1
  BY DEF ArgStages, MemModes
<1>2. c.PC = At(s, 1) /\ c.IR \in Int /\ IsState(s)
  BY Found, PassedBytes
<1>3. Reads(c, g, At(s, 2), c.AD, At(s, 1))
  BY <1>2, AtMovesOn
<1>4. Argued(s, g.AD, Read(s.m, g.addr_bus), mode, 1)
  BY <1>3 DEF Argued, Reads, First
<1>5. Reads(c, g, At(s, Passed(mode, 1)), g.AD, g.addr_bus)
  BY <1>3, PassedBytes DEF Reads
<1>. QED  BY <1>1, <1>2, <1>4, <1>5 DEF Progress

LEMMA ZeroPageArg ==
  ASSUME NEW c, NEW s, NEW m, Arguing(s, c, m, "zpg")
  PROVE  Progress(c, s, GetArg(c, "zpg"), "zpg", Stage(c) + 1)
<1>. DEFINE g == GetArg(c, "zpg")
<1>1. g = get_arg_zero_page(c)
  BY DEF GetArg
<1>2. /\ Running(c) /\ IsState(s) /\ c.IR \in Int /\ Stage(c) \in 0..1
      /\ c.PC = At(s, Passed("zpg", Stage(c)))
      /\ Argued(s, c.AD, c.data_bus, "zpg", Stage(c))
  BY Found DEF ArgStages
<1>3. /\ Stage(c) = 0 => Reads(c, g, U16(c.PC + 1), c.AD, c.PC)
      /\ Stage(c) = 1 => Reads(c, g, c.PC, c.data_bus, c.data_bus)
      /\ g.IR = c.IR
  BY <1>1, <1>2, ZeroPageReads
<1>. HIDE DEF g
<1>4. CASE Stage(c) = 0
  BY <1>3, <1>4, FirstArg DEF MemModes, g
<1>5. CASE Stage(c) = 1
  <2>1. c.data_bus = First(s) /\ c.PC = At(s, 2)
    BY <1>2, <1>5, PassedBytes DEF Argued
  <2>2. Reads(c, g, At(s, 2), g.AD, g.addr_bus) /\ g.addr_bus = First(s)
    BY <1>3, <1>5, <2>1 DEF Reads
  <2>3. Reads(c, g, At(s, Passed("zpg", 2)), g.AD, g.addr_bus)
    BY <2>2, PassedBytes DEF TwoBytes
  <2>4. Argued(s, g.AD, Read(s.m, g.addr_bus), "zpg", 2)
    BY DEF Argued, TwoBytes
  <2>. QED  BY <1>2, <1>3, <1>5, <2>2, <2>3, <2>4 DEF Progress, Target, g
<1>. QED  BY <1>2, <1>4, <1>5

(* zpg,X and zpg,Y; x is the index register. *)
LEMMA ZeroPageIndexArg ==
  ASSUME NEW c, NEW s, NEW m, NEW mode \in {"zpg_x", "zpg_y"}, Arguing(s, c, m, mode),
         NEW x, x = IF mode = "zpg_x" THEN c.X ELSE c.Y
  PROVE  Progress(c, s, get_arg_zero_page_index(c, x), mode, Stage(c) + 1)
<1>. DEFINE g == get_arg_zero_page_index(c, x)
            z == get_arg_zero_page(c)
<1>1. ArgStages(mode) = 3 /\ mode \in MemModes /\ mode \notin TwoBytes /\ mode # "zpg"
      /\ mode \notin {"abs_x", "abs_y", "x_ind", "ind_y"}
  BY DEF ArgStages, MemModes, TwoBytes
<1>2. /\ Running(c) /\ IsState(s) /\ c.IR \in Int /\ Stage(c) \in 0..2
      /\ c.PC = At(s, Passed(mode, Stage(c)))
      /\ Argued(s, c.AD, c.data_bus, mode, Stage(c))
      /\ c.X = s.r.X /\ c.Y = s.r.Y
  BY <1>1, Found
<1>3. /\ Stage(c) = 0 => Reads(c, g, U16(c.PC + 1), c.AD, c.PC)
      /\ Stage(c) = 1 => Reads(c, g, c.PC, c.data_bus, c.data_bus)
      /\ Stage(c) = 2 => Reads(c, g, c.PC, c.AD, Low(c.AD + x))
      /\ g.IR = c.IR
  <2>1. /\ Stage(c) = 0 => Reads(c, z, U16(c.PC + 1), c.AD, c.PC)
        /\ Stage(c) = 1 => Reads(c, z, c.PC, c.data_bus, c.data_bus)
        /\ Stage(c) = 2 => Reads(c, g, c.PC, c.AD, Low(c.AD + x))
        /\ g.IR = c.IR
        /\ Stage(c) \in 0..1 => g = z
    BY <1>2, ZeroPageReads
  <2>. QED  BY <2>1
<1>. HIDE DEF g
<1>4. CASE Stage(c) = 0
  BY <1>1, <1>3, <1>4, FirstArg DEF g
<1>5. CASE Stage(c) = 1
  <2>1. c.data_bus = First(s) /\ c.PC = At(s, 2)
    BY <1>2, <1>5, PassedBytes DEF Argued
  <2>2. Reads(c, g, At(s, 2), g.AD, g.addr_bus) /\ g.AD = First(s)
    BY <1>3, <1>5, <2>1 DEF Reads
  <2>3. Reads(c, g, At(s, Passed(mode, 2)), g.AD, g.addr_bus)
    BY <1>1, <2>2, PassedBytes
  <2>4. Argued(s, g.AD, Read(s.m, g.addr_bus), mode, 2)
    BY <1>1, <2>2 DEF Argued
  <2>. QED  BY <1>1, <1>2, <1>3, <1>5, <2>3, <2>4 DEF Progress, g
<1>6. CASE Stage(c) = 2
  <2>1. c.AD = First(s) /\ c.PC = At(s, 2)
    BY <1>1, <1>2, <1>6, PassedBytes DEF Argued
  <2>2. Reads(c, g, At(s, 2), g.AD, g.addr_bus) /\ g.addr_bus = Low(First(s) + x)
    BY <1>3, <1>6, <2>1 DEF Reads
  <2>3. Reads(c, g, At(s, Passed(mode, 3)), g.AD, g.addr_bus)
    BY <1>1, <2>2, PassedBytes
  <2>4. Argued(s, g.AD, Read(s.m, g.addr_bus), mode, 3)
    BY <1>1 DEF Argued
  <2>5. g.addr_bus = Target(s, mode)
    BY <1>2, <2>2 DEF Target, Indexed
  <2>. QED  BY <1>1, <1>2, <1>3, <1>6, <2>3, <2>4, <2>5 DEF Progress, g
<1>. QED  BY <1>2, <1>4, <1>5, <1>6

(* The two bytes of an address. *)
LEMMA SecondArg ==
  ASSUME NEW c, NEW s, NEW m, NEW mode \in {"abs", "abs_x", "abs_y"}, Arguing(s, c, m, mode),
         Stage(c) = 1, NEW g, Reads(c, g, U16(c.PC + 1), c.data_bus, c.PC), g.IR = c.IR
  PROVE  Progress(c, s, g, mode, 2)
<1>1. ArgStages(mode) \in {3, 4} /\ mode \in TwoBytes /\ mode # "ind_y"
  BY DEF ArgStages, TwoBytes
<1>2. /\ IsState(s) /\ c.IR \in Int
      /\ c.PC = At(s, 2) /\ c.data_bus = First(s)
  BY Found, PassedBytes DEF Argued
<1>3. Reads(c, g, At(s, 3), First(s), At(s, 2))
  BY <1>2, AtMovesOn
<1>4. Argued(s, g.AD, Read(s.m, g.addr_bus), mode, 2)
  BY <1>1, <1>3 DEF Argued, Reads, Second
<1>5. Reads(c, g, At(s, Passed(mode, 2)), g.AD, g.addr_bus)
  BY <1>1, <1>3, PassedBytes DEF Reads
<1>. QED  BY <1>1, <1>2, <1>4, <1>5 DEF Progress

LEMMA AbsoluteFound ==
  ASSUME NEW c, NEW s, NEW m, NEW mode \in {"abs", "abs_x", "abs_y"}, Arguing(s, c, m, mode),
         Stage(c) = 2
  PROVE  OrHigh(c.AD, c.data_bus) = Absolute(s) /\ c.PC = At(s, 3) /\ Absolute(s) \in Word
<1>1. mode \in TwoBytes /\ mode # "zpg"
  BY DEF TwoBytes
<1>2. /\ IsState(s) /\ c.PC = At(s, 3) /\ c.AD = First(s) /\ c.data_bus = Second(s)
  BY <1>1, Found, PassedBytes DEF Argued
<1>3. First(s) \in Byte /\ Second(s) \in Byte /\ Absolute(s) \in Word
  BY <1>2, AddressTypes
<1>4. OrHigh(First(s), Second(s)) = First(s) + 256 * Second(s)
  BY <1>3, OrHighBytes
<1>. QED  BY <1>2, <1>3, <1>4 DEF Absolute

LEMMA AbsoluteArg ==
  ASSUME NEW c, NEW s, NEW m, Arguing(s, c, m, "abs")
  PROVE  Progress(c, s, GetArg(c, "abs"), "abs", Stage(c) + 1)
<1>. DEFINE g == GetArg(c, "abs")
<1>1. g = get_arg_absolute(c) /\ ArgStages("abs") = 3
  BY DEF GetArg, ArgStages
<1>2. /\ Running(c) /\ IsState(s) /\ c.IR \in Int /\ Stage(c) \in 0..2
  BY <1>1, Found
<1>3. /\ Stage(c) = 0 => Reads(c, g, U16(c.PC + 1), c.AD, c.PC)
      /\ Stage(c) = 1 => Reads(c, g, U16(c.PC + 1), c.data_bus, c.PC)
      /\ Stage(c) = 2 => Reads(c, g, c.PC, c.AD, OrHigh(c.AD, c.data_bus))
      /\ g.IR = c.IR
  BY <1>1, <1>2, AbsoluteReads
<1>. HIDE DEF g
<1>4. CASE Stage(c) = 0
  BY <1>3, <1>4, FirstArg DEF MemModes, g
<1>5. CASE Stage(c) = 1
  BY <1>3, <1>5, SecondArg DEF g
<1>6. CASE Stage(c) = 2
  <2>1. Reads(c, g, At(s, 3), g.AD, g.addr_bus) /\ g.addr_bus = Absolute(s)
    BY <1>3, <1>6, AbsoluteFound DEF Reads
  <2>2. Reads(c, g, At(s, Passed("abs", 3)), g.AD, g.addr_bus)
    BY <2>1, PassedBytes DEF TwoBytes
  <2>3. Argued(s, g.AD, Read(s.m, g.addr_bus), "abs", 3)
    BY DEF Argued
  <2>4. g.addr_bus = Target(s, "abs")
    BY <2>1 DEF Target
  <2>. QED  BY <1>1, <1>2, <1>3, <1>6, <2>2, <2>3, <2>4 DEF Progress, g
<1>. QED  BY <1>2, <1>4, <1>5, <1>6

LEMMA SkipCases ==
  ASSUME NEW c, NEW shortcut
  PROVE  /\ Skip(c, shortcut) \in {c.IR, c.IR + 1}
         /\ Skip(c, shortcut) # c.IR => shortcut
BY DEF Skip

(* abs,X and abs,Y: within a page, a cycle is left out. *)
LEMMA AbsoluteIndexArg ==
  ASSUME NEW c, NEW s, NEW m, NEW mode \in {"abs_x", "abs_y"}, Arguing(s, c, m, mode),
         NEW x, x = IF mode = "abs_x" THEN c.X ELSE c.Y
  PROVE  LET g == get_arg_absolute_index(c, x)
         IN  \/ Progress(c, s, g, mode, Stage(c) + 1)
             \/ Stage(c) = 2 /\ Progress(c, s, g, mode, 4)
<1>. DEFINE g  == get_arg_absolute_index(c, x)
            ad == OrHigh(c.AD, c.data_bus)
<1>1. ArgStages(mode) = 4 /\ mode \in MemModes /\ mode \in TwoBytes /\ mode # "zpg"
      /\ mode \notin {"x_ind", "ind_y"}
  BY DEF ArgStages, MemModes, TwoBytes
<1>2. /\ Running(c) /\ IsState(s) /\ c.IR \in Int /\ Stage(c) \in 0..3
      /\ c.PC = At(s, Passed(mode, Stage(c)))
      /\ Argued(s, c.AD, c.data_bus, mode, Stage(c))
      /\ c.X = s.r.X /\ c.Y = s.r.Y
  BY <1>1, Found
<1>3. /\ Stage(c) = 0 => Reads(c, g, U16(c.PC + 1), c.AD, c.PC)
      /\ Stage(c) = 1 => Reads(c, g, U16(c.PC + 1), c.data_bus, c.PC)
      /\ Stage(c) = 2 => /\ Reads(c, g, c.PC, ad, U16(ad + x))
                         /\ g.IR = Skip(c, Low(ad) + x < 256)
      /\ Stage(c) = 3 => Reads(c, g, c.PC, c.AD, U16(c.AD + x))
      /\ Stage(c) # 2 => g.IR = c.IR
  BY <1>2, AbsoluteIndexReads
<1>. HIDE DEF g
<1>4. CASE Stage(c) = 0
  BY <1>1, <1>3, <1>4, FirstArg DEF g
<1>5. CASE Stage(c) = 1
  BY <1>1, <1>3, <1>5, SecondArg DEF g
<1>7. Target(s, mode) = U16(Absolute(s) + x)
  BY <1>2 DEF Target
<1>8. \A k \in {3, 4} : Passed(mode, k) = 3
  BY <1>1, PassedBytes
<1>6. CASE Stage(c) = 2
  <2>1. ad = Absolute(s) /\ c.PC = At(s, 3)
    BY <1>6, AbsoluteFound
  <2>. HIDE DEF ad
  <2>2. Reads(c, g, At(s, 3), g.AD, g.addr_bus) /\ g.AD = Absolute(s)
        /\ g.addr_bus = Target(s, mode)
    BY <1>3, <1>6, <1>7, <2>1 DEF Reads
  <2>3. \A k \in {3, 4} : Argued(s, g.AD, Read(s.m, g.addr_bus), mode, k)
    BY <1>1, <2>2 DEF Argued
  <2>4. g.IR \in {c.IR, c.IR + 1}
    BY <1>3, <1>6, SkipCases DEF ad
  <2>. QED  BY <1>1, <1>2, <1>6, <1>8, <2>2, <2>3, <2>4 DEF Progress, g
<1>9. CASE Stage(c) = 3
  <2>1. c.AD = Absolute(s) /\ c.PC = At(s, 3)
    BY <1>2, <1>8, <1>9 DEF Argued
  <2>2. Reads(c, g, At(s, 3), g.AD, g.addr_bus) /\ g.addr_bus = Target(s, mode)
    BY <1>3, <1>7, <1>9, <2>1 DEF Reads
  <2>3. Argued(s, g.AD, Read(s.m, g.addr_bus), mode, 4)
    BY <1>1 DEF Argued
  <2>. QED  BY <1>1, <1>2, <1>3, <1>8, <1>9, <2>2, <2>3 DEF Progress, g
<1>. QED  BY <1>2, <1>4, <1>5, <1>6, <1>9 DEF g

(* The pointer in page zero: the second cycle of both indirect modes. *)
LEMMA PointerArg ==
  ASSUME NEW c, NEW s, NEW m, NEW mode \in {"x_ind", "ind_y"}, Arguing(s, c, m, mode),
         Stage(c) = 1, NEW g, Reads(c, g, c.PC, c.data_bus, c.data_bus), g.IR = c.IR
  PROVE  Progress(c, s, g, mode, 2)
<1>1. ArgStages(mode) = 5 /\ mode \notin TwoBytes
  BY DEF ArgStages, TwoBytes
<1>2. c.IR \in Int /\ c.PC = At(s, 2) /\ c.data_bus = First(s)
  BY Found, PassedBytes DEF Argued
<1>3. Reads(c, g, At(s, 2), First(s), First(s))
  BY <1>2
<1>4. Argued(s, g.AD, Read(s.m, g.addr_bus), mode, 2)
  BY <1>1, <1>3 DEF Argued, Reads
<1>5. Reads(c, g, At(s, Passed(mode, 2)), g.AD, g.addr_bus)
  BY <1>1, <1>3, PassedBytes DEF Reads
<1>. QED  BY <1>1, <1>2, <1>4, <1>5 DEF Progress

LEMMA PointedTypes ==
  ASSUME NEW s, IsState(s), NEW z \in Byte
  PROVE  /\ Read(s.m, z) \in Byte /\ Read(s.m, Low(z + 1)) \in Byte
         /\ OrHigh(Read(s.m, z), Read(s.m, Low(z + 1))) = Pointed(s, z)
         /\ Pointed(s, z) \in Word /\ U16(Pointed(s, z)) = Pointed(s, z)
         /\ High(Pointed(s, z)) \in Byte
<1>1. z \in Word /\ Low(z + 1) \in Word
  <2>1. z \in Word
    BY Assembled
  <2>2. Low(z + 1) \in Byte
    BY <2>1, CountWord
  <2>. QED  BY <2>1, <2>2, Assembled
<1>2. Read(s.m, z) \in Byte /\ Read(s.m, Low(z + 1)) \in Byte
  BY <1>1, ReadType DEF IsState
<1>3. OrHigh(Read(s.m, z), Read(s.m, Low(z + 1))) = Pointed(s, z)
  BY <1>2, OrHighBytes DEF Pointed
<1>4. Pointed(s, z) \in Word /\ U16(Pointed(s, z)) = Pointed(s, z)
  BY <1>2, Assembled DEF Pointed
<1>. QED  BY <1>2, <1>3, <1>4, BytesOfWord

LEMMA IndexIndirectArg ==
  ASSUME NEW c, NEW s, NEW m, Arguing(s, c, m, "x_ind")
  PROVE  Progress(c, s, GetArg(c, "x_ind"), "x_ind", Stage(c) + 1)
<1>. DEFINE g == GetArg(c, "x_ind")
            z == Indexed(s)
<1>1. g = get_arg_index_indirect(c) /\ ArgStages("x_ind") = 5
  BY DEF GetArg, ArgStages
<1>2. /\ Running(c) /\ IsState(s) /\ c.IR \in Int /\ Stage(c) \in 0..4
      /\ c.PC = At(s, Passed("x_ind", Stage(c)))
      /\ Argued(s, c.AD, c.data_bus, "x_ind", Stage(c))
      /\ c.X = s.r.X
  BY Found
<1>3. /\ Stage(c) = 0 => Reads(c, g, U16(c.PC + 1), c.AD, c.PC)
      /\ Stage(c) = 1 => Reads(c, g, c.PC, c.data_bus, c.data_bus)
      /\ Stage(c) = 2 => Reads(c, g, c.PC, Low(c.AD + c.X), Low(c.AD + c.X))
      /\ Stage(c) = 3 => Reads(c, g, c.PC, c.data_bus, Low(c.AD + 1))
      /\ Stage(c) = 4 => Reads(c, g, c.PC, c.AD, OrHigh(c.AD, c.data_bus))
      /\ g.IR = c.IR
  BY <1>1, <1>2, IndexIndirectReads
<1>. HIDE DEF g
<1>4. z \in Byte
  <2>1. First(s) \in Byte /\ s.r.X \in Byte
    BY <1>2, AddressTypes, RegistersTypes
  <2>2. First(s) \in Word
    BY <2>1, Assembled
  <2>. QED  BY <2>1, <2>2, IndexType DEF Indexed
<1>5. \A k \in 2..5 : Passed("x_ind", k) = 2
  BY PassedBytes DEF TwoBytes
<1>6. CASE Stage(c) = 0
  BY <1>3, <1>6, FirstArg DEF MemModes, g
<1>7. CASE Stage(c) = 1
  BY <1>3, <1>7, PointerArg DEF g
<1>8. CASE Stage(c) = 2
  <2>1. c.AD = First(s) /\ c.PC = At(s, 2)
    BY <1>2, <1>5, <1>8 DEF Argued
  <2>2. Reads(c, g, At(s, 2), z, z)
    BY <1>2, <1>3, <1>8, <2>1 DEF Indexed
  <2>3. Argued(s, g.AD, Read(s.m, g.addr_bus), "x_ind", 3)
    BY <2>2 DEF Argued, Reads
  <2>4. Reads(c, g, At(s, Passed("x_ind", 3)), g.AD, g.addr_bus)
    BY <1>5, <2>2 DEF Reads
  <2>. QED  BY <1>1, <1>2, <1>3, <1>8, <2>3, <2>4 DEF Progress, g
<1>9. CASE Stage(c) = 3
  <2>1. c.AD = z /\ c.data_bus = Read(s.m, z) /\ c.PC = At(s, 2)
    BY <1>2, <1>5, <1>9 DEF Argued
  <2>2. Reads(c, g, At(s, 2), Read(s.m, z), Low(z + 1))
    BY <1>3, <1>9, <2>1
  <2>3. Argued(s, g.AD, Read(s.m, g.addr_bus), "x_ind", 4)
    BY <2>2 DEF Argued, Reads
  <2>4. Reads(c, g, At(s, Passed("x_ind", 4)), g.AD, g.addr_bus)
    BY <1>5, <2>2 DEF Reads
  <2>. QED  BY <1>1, <1>2, <1>3, <1>9, <2>3, <2>4 DEF Progress, g
<1>10. CASE Stage(c) = 4
  <2>1. c.AD = Read(s.m, z) /\ c.data_bus = Read(s.m, Low(z + 1)) /\ c.PC = At(s, 2)
    BY <1>2, <1>5, <1>10 DEF Argued
  <2>2. Reads(c, g, At(s, 2), c.AD, Pointed(s, z))
    BY <1>2, <1>3, <1>4, <1>10, <2>1, PointedTypes
  <2>3. Argued(s, g.AD, Read(s.m, g.addr_bus), "x_ind", 5)
    BY DEF Argued
  <2>4. Reads(c, g, At(s, Passed("x_ind", 5)), g.AD, g.addr_bus)
    BY <1>5, <2>2 DEF Reads
  <2>5. g.addr_bus = Target(s, "x_ind")
    BY <2>2 DEF Target, Reads
  <2>. QED  BY <1>1, <1>2, <1>3, <1>10, <2>3, <2>4, <2>5 DEF Progress, g
<1>. QED  BY <1>2, <1>6, <1>7, <1>8, <1>9, <1>10

(* The address that is guessed in page zero is the right one. *)
LEMMA GuessedAddress ==
  ASSUME NEW w \in Word, NEW y \in Byte, w + y <= 255
  PROVE  OrHigh(U16(w + y), High(w)) = U16(w + y)
<1>0. w \in Int /\ 0 <= w /\ y \in Int /\ 0 <= y
  <2>1. \A v \in Word : v \in Int /\ 0 <= v
    BY DEF Word
  <2>2. \A b \in Byte : b \in Int /\ 0 <= b
    BY DEF Byte
  <2>. QED  BY <2>1, <2>2
<1>1. w \in Int /\ 0 <= w /\ w < 256 /\ y \in Int /\ 0 <= y /\ w + y <= 255
  BY <1>0
<1>2. High(w) = 0
  BY <1>1 DEF High
<1>3. U16(w + y) \in Word
  BY <1>1, IndexType DEF U16
<1>. QED  BY <1>2, <1>3, OrHighZero

LEMMA IndirectIndexArg ==
  ASSUME NEW c, NEW s, NEW m, Arguing(s, c, m, "ind_y")
  PROVE  LET g == GetArg(c, "ind_y")
         IN  \/ Progress(c, s, g, "ind_y", Stage(c) + 1)
             \/ Stage(c) = 3 /\ Progress(c, s, g, "ind_y", 5)
<1>. DEFINE g  == GetArg(c, "ind_y")
            z  == First(s)
            ad == OrHigh(c.AD, c.data_bus)
<1>1. g = get_arg_indirect_index(c) /\ ArgStages("ind_y") = 5
  BY DEF GetArg, ArgStages
<1>2. /\ Running(c) /\ IsState(s) /\ c.IR \in Int /\ Stage(c) \in 0..4
      /\ c.PC = At(s, Passed("ind_y", Stage(c)))
      /\ Argued(s, c.AD, c.data_bus, "ind_y", Stage(c))
      /\ c.Y = s.r.Y
  BY Found
<1>3. /\ Stage(c) = 0 => Reads(c, g, U16(c.PC + 1), c.AD, c.PC)
      /\ Stage(c) = 1 => Reads(c, g, c.PC, c.data_bus, c.data_bus)
      /\ Stage(c) = 2 => Reads(c, g, c.PC, c.data_bus, Low(c.AD + 1))
      /\ Stage(c) = 3 => /\ Reads(c, g, c.PC, ad, OrHigh(U16(ad + c.Y), High(ad)))
                         /\ g.IR = Skip(c, ad + c.Y <= 255)
      /\ Stage(c) = 4 => Reads(c, g, c.PC, c.AD, U16(c.AD + c.Y))
      /\ Stage(c) # 3 => g.IR = c.IR
  BY <1>1, <1>2, IndirectIndexReads
<1>. HIDE DEF g
<1>4. z \in Byte /\ s.r.Y \in Byte
  BY <1>2, AddressTypes, RegistersTypes
<1>5. \A k \in 2..5 : Passed("ind_y", k) = 2
  BY PassedBytes DEF TwoBytes
<1>6. CASE Stage(c) = 0
  BY <1>3, <1>6, FirstArg DEF MemModes, g
<1>7. CASE Stage(c) = 1
  BY <1>3, <1>7, PointerArg DEF g
<1>8. CASE Stage(c) = 2
  <2>1. c.AD = z /\ c.data_bus = Read(s.m, z) /\ c.PC = At(s, 2)
    BY <1>2, <1>5, <1>8 DEF Argued
  <2>2. Reads(c, g, At(s, 2), Read(s.m, z), Low(z + 1))
    BY <1>2, <1>3, <1>8, <2>1
  <2>3. Argued(s, g.AD, Read(s.m, g.addr_bus), "ind_y", 3)
    BY <2>2 DEF Argued, Reads, TwoBytes
  <2>4. Reads(c, g, At(s, Passed("ind_y", 3)), g.AD, g.addr_bus)
    BY <1>5, <2>2 DEF Reads
  <2>. QED  BY <1>1, <1>2, <1>3, <1>8, <2>3, <2>4 DEF Progress, g
<1>9. CASE Stage(c) = 3
  <2>1. c.AD = Read(s.m, z) /\ c.data_bus = Read(s.m, Low(z + 1)) /\ c.PC = At(s, 2)
    BY <1>2, <1>5, <1>9 DEF Argued
  <2>2. ad = Pointed(s, z) /\ ad \in Word
    BY <1>2, <1>4, <2>1, PointedTypes
  <2>. HIDE DEF ad
  <2>3. /\ Reads(c, g, At(s, 2), ad, OrHigh(U16(ad + s.r.Y), High(ad)))
        /\ g.IR \in {c.IR, c.IR + 1}
        /\ g.IR # c.IR => ad + s.r.Y <= 255
    <3>1. g.IR = Skip(c, ad + c.Y <= 255)
      BY <1>3, <1>9 DEF ad
    <3>2. g.IR \in {c.IR, c.IR + 1} /\ (g.IR # c.IR => ad + c.Y <= 255)
      BY <3>1, SkipCases
    <3>. QED  BY <1>2, <1>3, <1>9, <2>1, <3>2 DEF ad
  <2>4. \A k \in {4, 5} : Argued(s, g.AD, Read(s.m, g.addr_bus), "ind_y", k)
    BY <2>2, <2>3 DEF Argued, Reads
  <2>5. \A k \in {4, 5} : Reads(c, g, At(s, Passed("ind_y", k)), g.AD, g.addr_bus)
    BY <1>5, <2>3 DEF Reads
  <2>6. CASE g.IR = c.IR
    BY <1>1, <1>2, <1>9, <2>4, <2>5, <2>6 DEF Progress, g
  <2>7. CASE g.IR = c.IR + 1 /\ ad + s.r.Y <= 255
    <3>1. g.addr_bus = U16(ad + s.r.Y)
      BY <1>4, <2>2, <2>3, <2>7, GuessedAddress DEF Reads
    <3>2. g.addr_bus = Target(s, "ind_y")
      BY <2>2, <3>1 DEF Target
    <3>. QED  BY <1>1, <1>2, <1>9, <2>4, <2>5, <2>7, <3>2 DEF Progress, g
  <2>. QED  BY <1>2, <2>3, <2>6, <2>7 DEF g
<1>10. CASE Stage(c) = 4
  <2>1. c.AD = Pointed(s, z) /\ c.PC = At(s, 2)
    BY <1>2, <1>5, <1>10 DEF Argued
  <2>2. Reads(c, g, At(s, 2), c.AD, U16(Pointed(s, z) + s.r.Y))
    BY <1>2, <1>3, <1>10, <2>1
  <2>3. Argued(s, g.AD, Read(s.m, g.addr_bus), "ind_y", 5)
    BY DEF Argued, TwoBytes
  <2>4. Reads(c, g, At(s, Passed("ind_y", 5)), g.AD, g.addr_bus)
    BY <1>5, <2>2 DEF Reads
  <2>5. g.addr_bus = Target(s, "ind_y")
    BY <2>2 DEF Target, Reads
  <2>. QED  BY <1>1, <1>2, <1>3, <1>10, <2>3, <2>4, <2>5 DEF Progress, g
<1>. QED  BY <1>2, <1>6, <1>7, <1>8, <1>9, <1>10 DEF g

(***************************************************************************)
(* A cycle of get_arg_* leads to the next one, or, when one is left out,   *)
(* to the one after it.                                                    *)
(***************************************************************************)
LEMMA ArgStep ==
  ASSUME NEW c, NEW s, NEW m, NEW mode \in MemModes \cup {"imm"}, Arguing(s, c, m, mode)
  PROVE  \E k \in (Stage(c) + 1)..ArgStages(mode) : Progress(c, s, GetArg(c, mode), mode, k)
<1>1. /\ mode = "zpg_x" => GetArg(c, mode) = get_arg_zero_page_index(c, c.X)
      /\ mode = "zpg_y" => GetArg(c, mode) = get_arg_zero_page_index(c, c.Y)
      /\ mode = "abs_x" => GetArg(c, mode) = get_arg_absolute_index(c, c.X)
      /\ mode = "abs_y" => GetArg(c, mode) = get_arg_absolute_index(c, c.Y)
  BY DEF GetArg
<1>2. /\ mode \in {"abs_x", "abs_y"} => ArgStages(mode) = 4
      /\ mode = "ind_y" => ArgStages(mode) = 5
  BY DEF ArgStages
<1>3. Stage(c) \in 0..4 /\ Stage(c) < ArgStages(mode) /\ ArgStages(mode) \in 1..5
  BY Found, ArgStagesType
<1>4. \/ Progress(c, s, GetArg(c, mode), mode, Stage(c) + 1)
      \/ Stage(c) = 2 /\ ArgStages(mode) = 4 /\ Progress(c, s, GetArg(c, mode), mode, 4)
      \/ Stage(c) = 3 /\ ArgStages(mode) = 5 /\ Progress(c, s, GetArg(c, mode), mode, 5)
  <2>1. CASE mode \in {"imm", "zpg", "abs", "x_ind"}
    BY <2>1, ImmediateArg, ZeroPageArg, AbsoluteArg, IndexIndirectArg
  <2>2. CASE mode = "zpg_x"
    BY <1>1, <2>2, ZeroPageIndexArg
  <2>3. CASE mode = "zpg_y"
    BY <1>1, <2>3, ZeroPageIndexArg
  <2>4. CASE mode = "abs_x"
    BY <1>1, <1>2, <2>4, AbsoluteIndexArg
  <2>5. CASE mode = "abs_y"
    BY <1>1, <1>2, <2>5, AbsoluteIndexArg
  <2>6. CASE mode = "ind_y"
    BY <1>2, <2>6, IndirectIndexArg
  <2>. QED  BY <2>1, <2>2, <2>3, <2>4, <2>5, <2>6 DEF MemModes
<1>. QED  BY <1>3, <1>4

(* Where the mark write is set, no cycle is left out. *)
LEMMA WriteArg ==
  ASSUME NEW c, Running(c), NEW mode \in MemModes,
         Handler[Opcode(c)][1] \in WriteOps \/ mode \notin {"abs_x", "abs_y", "ind_y"}
  PROVE  GetArg(c, mode).IR = c.IR
<1>1. Handler[Opcode(c)][1] \in WriteOps => \A shortcut : Skip(c, shortcut) = c.IR
  BY DEF Skip
<1>2. CASE mode \in {"zpg", "zpg_x", "zpg_y"}
  BY <1>2, ZeroPageReads DEF GetArg
<1>3. CASE mode = "abs"
  BY <1>3, AbsoluteReads DEF GetArg
<1>4. CASE mode = "x_ind"
  BY <1>4, IndexIndirectReads DEF GetArg
<1>5. CASE mode \in {"abs_x", "abs_y"}
  BY <1>1, <1>5, AbsoluteIndexReads DEF GetArg
<1>6. CASE mode = "ind_y"
  BY <1>1, <1>6, IndirectIndexReads DEF GetArg
<1>. QED  BY <1>2, <1>3, <1>4, <1>5, <1>6 DEF MemModes

----------------------------------------------------------------------------
(* A whole cycle: the handler, IR++ and the access to memory. *)

(***************************************************************************)
(* The handler has made ran of c; d is what follows IR++ and the rising    *)
(* phi2, and n the memory that was m.                                      *)
(***************************************************************************)
Turned(c, m, ran, d, n) ==
  /\ d.A = ran.A /\ d.X = ran.X /\ d.Y = ran.Y /\ d.S = ran.S /\ d.PC = ran.PC
  /\ d.status = ran.status /\ d.AD = ran.AD /\ d.addr_bus = ran.addr_bus
  /\ d.break_status = ran.break_status /\ d.SYNC = ran.SYNC
  /\ ran.RW => n = m /\ d.data_bus = Read(m, ran.addr_bus)
  /\ ~ran.RW => n = Store(m, ran.addr_bus, ran.data_bus)
  /\ Opcode(d) = Opcode(c)
  /\ Stage(d) = Stage(c) + 1 + (ran.IR - c.IR)

LEMMA AccessTurns ==
  ASSUME NEW c \in CpuState, NEW ran \in Machine, NEW m, NEW k \in Int, Counts(c, k),
         k = 1 + (ran.IR - c.IR)
  PROVE  LET e == [ran EXCEPT !.IR = c.IR + k]
         IN  Turned(c, m, ran, Answered(m, e), Written(m, e))
<1>. DEFINE e == [ran EXCEPT !.IR = c.IR + k]
            d == Answered(m, e)
<1>1. /\ e \in Machine \/ ~(c.IR + k \in Nat)
      /\ e.A = ran.A /\ e.X = ran.X /\ e.Y = ran.Y /\ e.S = ran.S /\ e.PC = ran.PC
      /\ e.status = ran.status /\ e.AD = ran.AD /\ e.addr_bus = ran.addr_bus
      /\ e.break_status = ran.break_status /\ e.SYNC = ran.SYNC
      /\ e.RW = ran.RW /\ e.data_bus = ran.data_bus /\ e.IR = c.IR + k
  BY DEF Machine
<1>2. c.IR + k \in Nat /\ (c.IR + k) % 8 = Stage(c) + k /\ (c.IR + k) \div 8 = Opcode(c)
  BY DEF Counts, IRs
<1>. HIDE DEF e
<1>3. /\ d.A = e.A /\ d.X = e.X /\ d.Y = e.Y /\ d.S = e.S /\ d.PC = e.PC
      /\ d.status = e.status /\ d.AD = e.AD /\ d.addr_bus = e.addr_bus
      /\ d.break_status = e.break_status /\ d.SYNC = e.SYNC /\ d.IR = e.IR
      /\ e.RW => d.data_bus = Read(m, e.addr_bus)
  BY <1>1, <1>2 DEF Machine, Answered
<1>. HIDE DEF d
<1>4. Opcode(d) = Opcode(c) /\ Stage(d) = Stage(c) + k
  BY <1>1, <1>2, <1>3 DEF Opcode, Stage
<1>5. Stage(c) + k = Stage(c) + 1 + (ran.IR - c.IR)
  <2>1. Stage(c) \in Int /\ ran.IR \in Int /\ c.IR \in Int
    BY NarrowIR, StageType DEF Machine
  <2>. QED  BY <2>1
<1>. QED  BY <1>1, <1>3, <1>4, <1>5 DEF Turned, Written, d, e

LEMMA CycleTurns ==
  ASSUME NEW c \in CpuState, Running(c), Stage(c) <= Last(c),
         Handler[Opcode(c)][1] # "XX", NEW m
  PROVE  Turned(c, m, run_opcode(c), Answered(m, Cycled(c)), Written(m, Cycled(c)))
<1>. DEFINE ran == run_opcode(c)
<1>1. Advances(c, ran, Last(c))
  BY RunAdvances
<1>2. Last(c) \in 0..6 /\ Stage(c) \in 0..7
  BY LastType, StageType, NarrowIR
<1>3. Cycled(c) = [ran EXCEPT !.IR = U16(ran.IR + 1)]
  BY DEF Cycled
<1>4. c.IR \in Int
  BY NarrowIR DEF Machine
<1>. HIDE DEF ran
<1>5. PICK k \in 1..2 : ran \in Machine /\ ran.IR = c.IR + (k - 1) /\ Stage(c) + k <= 7
  <2>1. CASE Fetches(c, ran) \/ (Continues(c, ran) /\ Stage(c) < Last(c))
    BY <1>2, <1>4, <2>1 DEF Fetches, Continues
  <2>2. CASE Skips(c, ran) /\ Stage(c) + 1 < Last(c)
    BY <1>2, <1>4, <2>2 DEF Skips
  <2>. QED  BY <1>1, <2>1, <2>2 DEF Advances
<1>6. Counts(c, k)
  BY <1>2, <1>5, NextStage
<1>7. k = 1 + (ran.IR - c.IR) /\ ran.IR + 1 = c.IR + k /\ k \in Int
  BY <1>4, <1>5
<1>8. Cycled(c) = [ran EXCEPT !.IR = c.IR + k]
  BY <1>3, <1>6, <1>7 DEF Counts
<1>. QED  BY <1>5, <1>6, <1>7, <1>8, AccessTurns DEF ran

(* The instruction has been executed: d and n are what Isa makes of s. *)
Retires(s, d, n, op, mode) == [r |-> Visible(d), m |-> n] = Program!Executed(s, op, mode)

LEMMA TurnedVisible ==
  ASSUME NEW c, NEW m, NEW ran, NEW d, NEW n, Turned(c, m, ran, d, n)
  PROVE  Visible(d) = Visible(ran)
BY DEF Turned, Visible

(* fetch shows nothing new. *)
LEMMA FetchVisible ==
  ASSUME NEW c \in Machine
  PROVE  /\ Visible(fetch(c)) = Visible(c) /\ fetch(c).SYNC /\ fetch(c).RW = c.RW
         /\ fetch(c).IR = c.IR
BY DEF Machine, fetch, Visible

LEMMA ShownVisible ==
  ASSUME NEW c, NEW s, NEW S, NEW PC, NEW status, Shows(s, c, S, PC, status)
  PROVE  Visible(c) = Regs(s.r.A, s.r.X, s.r.Y, S, PC, status)
BY DEF Shows, Visible, Regs

(* The operand, or a part of its address, has arrived. *)
LEMMA Arrives ==
  ASSUME NEW c, NEW s, NEW m, NEW d, NEW n, NEW mode \in MemModes \cup {"imm"},
         Arguing(s, c, m, mode), Turned(c, m, GetArg(c, mode), d, n)
  PROVE  /\ ~d.SYNC /\ ArgAt(s, d, n, mode, Stage(d))
         /\ Stage(d) \in (Stage(c) + 1)..ArgStages(mode)
<1>. DEFINE g == GetArg(c, mode)
<1>1. PICK k \in (Stage(c) + 1)..ArgStages(mode) : Progress(c, s, g, mode, k)
  BY ArgStep
<1>. HIDE DEF g
<1>2. Stage(c) \in Int /\ c.IR \in Int /\ k \in Int
  BY <1>1, Found
<1>3. Stage(d) = k
  BY <1>1, <1>2 DEF Turned, Progress, g
<1>4. m = s.m /\ Shows(s, c, s.r.S, c.PC, s.r.status)
  BY DEF Arguing, ArgAt, Shows
<1>5. Reads(c, g, At(s, Passed(mode, k)), g.AD, g.addr_bus)
  BY <1>1 DEF Progress
<1>6. /\ n = m /\ d.data_bus = Read(m, g.addr_bus) /\ d.AD = g.AD /\ d.addr_bus = g.addr_bus
      /\ ~d.SYNC
  BY <1>5 DEF Turned, Reads, g
<1>7. Shows(s, d, s.r.S, At(s, Passed(mode, k)), s.r.status)
  BY <1>4, <1>5 DEF Turned, Reads, Shows, g
<1>. QED  BY <1>1, <1>3, <1>4, <1>6, <1>7 DEF ArgAt, Progress, Value

LEMMA PassedAll ==
  ASSUME NEW mode \in MemModes \cup {"imm"}, NEW s
  PROVE  At(s, Passed(mode, ArgStages(mode))) = After(s, mode)
BY DEF MemModes, Passed, ArgStages, After, TwoBytes

(* What a cycle of a handler leads to. *)
LEMMA ReadStep ==
  ASSUME NEW c, NEW s, NEW m, NEW d, NEW n, Running(c), IsState(s),
         NEW op \in ReadOps, NEW mode \in MemModes \cup {"imm"},
         ArgAt(s, c, m, mode, Stage(c)), Stage(c) <= ArgStages(mode),
         Turned(c, m, do_read(c, op, mode), d, n)
  PROVE  IF d.SYNC THEN Retires(s, d, n, op, mode) ELSE ArgAt(s, d, n, mode, Stage(d))
<1>1. CASE Stage(c) < ArgStages(mode)
  BY <1>1, Arrives DEF do_read, Arguing
<1>2. CASE ~(Stage(c) < ArgStages(mode))
  <2>. DEFINE o == ReadOperand(c, op)
  <2>1. Stage(c) = ArgStages(mode)
    BY <1>2, StageType, ArgStagesType DEF Running
  <2>2. do_read(c, op, mode) = fetch(o)
    BY <1>2 DEF do_read
  <2>3. o \in Machine /\ o.RW
    BY ReadOperandComputes DEF Computes, Continues
  <2>4. Visible(d) = Visible(o) /\ n = m /\ d.SYNC
    BY <2>2, <2>3, TurnedVisible, FetchVisible DEF Turned
  <2>5. Visible(o) = Program!Reading(Visible(c), op, c.data_bus)
    BY ReadVisible DEF Running
  <2>6. /\ Shows(s, c, s.r.S, After(s, mode), s.r.status)
        /\ c.data_bus = Value(s, mode) /\ m = s.m
    BY <2>1, PassedAll DEF ArgAt
  <2>7. Visible(c) = Regs(s.r.A, s.r.X, s.r.Y, s.r.S, After(s, mode), s.r.status)
    BY <2>6, ShownVisible
  <2>. HIDE DEF o
  <2>. QED  BY <2>4, <2>5, <2>6, <2>7, ReadExecuted DEF Retires
<1>. QED  BY <1>1, <1>2

LEMMA StoreTwice ==
  ASSUME NEW m, NEW a, NEW b, NEW v
  PROVE  Store(Store(m, a, b), a, v) = Store(m, a, v)
BY DEF Store

(* A handler's last cycle, which only fetches, shows what it found. *)
LEMMA FetchTurns ==
  ASSUME NEW c, Running(c), NEW m, NEW d, NEW n, Turned(c, m, fetch(c), d, n)
  PROVE  d.SYNC /\ n = m /\ Visible(d) = Visible(c)
<1>1. c \in Machine /\ c.RW
  BY DEF Running
<1>2. Visible(d) = Visible(fetch(c))
  BY TurnedVisible
<1>3. Visible(fetch(c)) = Visible(c) /\ fetch(c).SYNC /\ fetch(c).RW
  BY <1>1, FetchVisible
<1>. QED  BY <1>2, <1>3 DEF Turned

LEMMA StoreStep ==
  ASSUME NEW c, NEW s, NEW m, NEW d, NEW n, Running(c), IsState(s),
         NEW op \in StoreOps, NEW mode \in MemModes,
         Handler[Opcode(c)][1] \in WriteOps \/ mode \notin {"abs_x", "abs_y", "ind_y"},
         StoreAt(s, c, m, op, mode, Stage(c)), Stage(c) <= ArgStages(mode),
         Turned(c, m, do_store(c, op, mode), d, n)
  PROVE  IF d.SYNC THEN Retires(s, d, n, op, mode) ELSE StoreAt(s, d, n, op, mode, Stage(d))
<1>. DEFINE k == ArgStages(mode)
            g == GetArg(c, mode)
<1>1. Stage(c) \in 0..7 /\ k \in 2..5
  BY StageType DEF Running, MemModes, ArgStages
<1>2. CASE Stage(c) < k - 1
  <2>1. Stage(c) < k /\ do_store(c, op, mode) = g
    BY <1>1, <1>2 DEF do_store
  <2>2. Arguing(s, c, m, mode)
    BY <2>1 DEF Arguing, StoreAt
  <2>3. ~d.SYNC /\ ArgAt(s, d, n, mode, Stage(d))
    BY <2>1, <2>2, Arrives
  <2>4. Stage(d) = Stage(c) + 1
    <3>1. g.IR = c.IR /\ c.IR \in Int
      BY WriteArg DEF Running, Machine
    <3>. QED  BY <1>1, <2>1, <3>1 DEF Turned
  <2>. QED  BY <1>1, <1>2, <2>3, <2>4 DEF StoreAt
<1>3. CASE Stage(c) = k - 1
  <2>1. Stage(c) < k
    BY <1>1, <1>3
  <2>2. Arguing(s, c, m, mode)
    BY <2>1 DEF Arguing, StoreAt
  <2>3. PICK i \in (Stage(c) + 1)..k : Progress(c, s, g, mode, i)
    BY <2>2, ArgStep
  <2>4. i = k
    BY <1>1, <1>3, <2>3
  <2>5. g.addr_bus = Target(s, mode) /\ Reads(c, g, After(s, mode), g.AD, g.addr_bus)
    BY <2>3, <2>4, PassedAll DEF Progress
  <2>6. g.IR = c.IR /\ c.IR \in Int /\ g \in Machine
    BY WriteArg, GetArgContinues DEF Running, Machine, Continues, Skips
  <2>7. m = s.m /\ Shows(s, c, s.r.S, c.PC, s.r.status)
    BY <2>2 DEF Arguing, ArgAt, Shows
  <2>. DEFINE w == [g EXCEPT !.data_bus = Stored(c, op), !.RW = FALSE]
  <2>8. do_store(c, op, mode) = w
    BY <1>1, <1>3 DEF do_store
  <2>. HIDE DEF g
  <2>9. /\ w.A = g.A /\ w.X = g.X /\ w.Y = g.Y /\ w.S = g.S /\ w.PC = g.PC
        /\ w.status = g.status /\ w.addr_bus = g.addr_bus /\ w.SYNC = g.SYNC
        /\ w.data_bus = Stored(c, op) /\ ~w.RW /\ w.IR = g.IR
    BY <2>6 DEF Machine
  <2>. HIDE DEF w
  <2>10. Stored(c, op) = Stored(s.r, op)
    BY <2>7 DEF Shows, Stored
  <2>11. ~d.SYNC /\ n = Store(s.m, Target(s, mode), Stored(s.r, op))
    BY <2>5, <2>7, <2>8, <2>9, <2>10 DEF Turned, Reads
  <2>12. Shows(s, d, s.r.S, After(s, mode), s.r.status)
    BY <2>5, <2>7, <2>8, <2>9 DEF Turned, Reads, Shows
  <2>13. Stage(d) = k
    BY <1>1, <1>3, <2>6, <2>8, <2>9 DEF Turned
  <2>. QED  BY <1>1, <2>11, <2>12, <2>13 DEF StoreAt
<1>4. CASE Stage(c) = k
  <2>1. do_store(c, op, mode) = fetch(c)
    BY <1>1, <1>4 DEF do_store
  <2>2. d.SYNC /\ n = m /\ Visible(d) = Visible(c)
    BY <2>1, FetchTurns
  <2>3. /\ Shows(s, c, s.r.S, After(s, mode), s.r.status)
        /\ m = Store(s.m, Target(s, mode), Stored(s.r, op))
    BY <1>1, <1>4 DEF StoreAt
  <2>. QED  BY <2>2, <2>3, ShownVisible, StoreExecuted DEF Retires, State
<1>. QED  BY <1>1, <1>2, <1>3, <1>4

LEMMA ModifyStep ==
  ASSUME NEW c, NEW s, NEW m, NEW d, NEW n, Running(c), IsState(s),
         NEW op \in ModifyOps, NEW mode \in MemModes,
         ModifyAt(s, c, m, op, mode, Stage(c)), Stage(c) <= ArgStages(mode) + 2,
         Turned(c, m, do_modify(c, op, mode), d, n)
  PROVE  IF d.SYNC THEN Retires(s, d, n, op, mode) ELSE ModifyAt(s, d, n, op, mode, Stage(d))
<1>. DEFINE k   == ArgStages(mode)
            old == Value(s, mode)
            new == Modified(op, s.r.status, old)
            did == Modified(op, c.status, Low(c.AD))
<1>1. Stage(c) \in 0..7 /\ k \in 2..5 /\ c \in Machine /\ c.IR \in Int
  BY StageType DEF Running, MemModes, ArgStages, Machine
<1>2. CASE Stage(c) < k
  <2>1. do_modify(c, op, mode) = GetArg(c, mode)
    BY <1>1, <1>2 DEF do_modify
  <2>2. Arguing(s, c, m, mode)
    BY <1>1, <1>2 DEF Arguing, ModifyAt
  <2>3. ~d.SYNC /\ ArgAt(s, d, n, mode, Stage(d)) /\ Stage(d) \in (Stage(c) + 1)..k
    BY <2>1, <2>2, Arrives
  <2>. QED  BY <1>1, <2>3 DEF ModifyAt
<1>3. CASE Stage(c) = k
  <2>. DEFINE w == [c EXCEPT !.AD = c.data_bus, !.RW = FALSE]
  <2>1. do_modify(c, op, mode) = w
    BY <1>1, <1>3 DEF do_modify
  <2>2. ArgAt(s, c, m, mode, k)
    BY <1>1, <1>3 DEF ModifyAt
  <2>3. /\ m = s.m /\ Shows(s, c, s.r.S, After(s, mode), s.r.status)
        /\ c.addr_bus = Target(s, mode) /\ c.data_bus = old
    BY <2>2, PassedAll DEF ArgAt
  <2>4. /\ w.A = c.A /\ w.X = c.X /\ w.Y = c.Y /\ w.S = c.S /\ w.PC = c.PC
        /\ w.status = c.status /\ w.addr_bus = c.addr_bus /\ ~w.SYNC
        /\ w.AD = c.data_bus /\ w.data_bus = c.data_bus /\ ~w.RW /\ w.IR = c.IR
    BY DEF Running, Machine
  <2>. HIDE DEF w
  <2>5. /\ ~d.SYNC /\ n = Store(s.m, Target(s, mode), old) /\ d.AD = old
        /\ d.addr_bus = Target(s, mode) /\ Shows(s, d, s.r.S, After(s, mode), s.r.status)
    BY <2>1, <2>3, <2>4 DEF Turned, Shows
  <2>6. Stage(d) = k + 1
    BY <1>1, <1>3, <2>1, <2>4 DEF Turned
  <2>. HIDE DEF k
  <2>. QED  BY <1>1, <2>5, <2>6 DEF ModifyAt, k
<1>4. CASE Stage(c) = k + 1
  <2>. DEFINE w == [c EXCEPT !.AD = Counted(op, @), !.status = did.status,
                             !.data_bus = did.res, !.RW = FALSE]
  <2>1. do_modify(c, op, mode) = w
    BY <1>1, <1>4 DEF do_modify
  <2>2. /\ m = Store(s.m, Target(s, mode), old) /\ c.AD = old
        /\ c.addr_bus = Target(s, mode) /\ Shows(s, c, s.r.S, After(s, mode), s.r.status)
    BY <1>1, <1>4 DEF ModifyAt
  <2>3. Low(c.AD) = old
    <3>1. old \in Byte
      <4>1. Target(s, mode) \in Word
        BY <1>1, <2>2 DEF Machine
      <4>. QED  BY <4>1, ReadType DEF IsState, Value
    <3>. QED  BY <2>2, <3>1, Assembled
  <2>4. Seen(c.status) = s.r.status
    BY <2>2 DEF Shows, Seen
  <2>5. did.res = new.res /\ Seen(did.status) = new.status
    BY <2>3, <2>4, SeenModified
  <2>. HIDE DEF did, new
  <2>6. /\ w.A = c.A /\ w.X = c.X /\ w.Y = c.Y /\ w.S = c.S /\ w.PC = c.PC
        /\ w.status = did.status /\ w.addr_bus = c.addr_bus /\ ~w.SYNC
        /\ w.data_bus = did.res /\ ~w.RW /\ w.IR = c.IR
    BY DEF Running, Machine
  <2>. HIDE DEF w
  <2>7. n = Store(s.m, Target(s, mode), new.res)
    BY <2>1, <2>2, <2>5, <2>6, StoreTwice DEF Turned
  <2>8. ~d.SYNC /\ Shows(s, d, s.r.S, After(s, mode), new.status)
    BY <2>1, <2>2, <2>5, <2>6 DEF Turned, Shows, Seen
  <2>9. Stage(d) = k + 2
    BY <1>1, <1>4, <2>1, <2>6 DEF Turned
  <2>. HIDE DEF k
  <2>. QED  BY <1>1, <2>7, <2>8, <2>9 DEF ModifyAt, k, new
<1>5. CASE Stage(c) = k + 2
  <2>1. do_modify(c, op, mode) = fetch(c)
    BY <1>1, <1>5 DEF do_modify
  <2>2. d.SYNC /\ n = m /\ Visible(d) = Visible(c)
    BY <2>1, FetchTurns
  <2>3. /\ Shows(s, c, s.r.S, After(s, mode), new.status)
        /\ m = Store(s.m, Target(s, mode), new.res)
    BY <1>1, <1>5 DEF ModifyAt
  <2>. QED  BY <2>2, <2>3, ShownVisible, ModifyExecuted DEF Retires, State
<1>. QED  BY <1>1, <1>2, <1>3, <1>4, <1>5

(* The read at PC that comes first in an instruction without operand. *)
LEMMA IdleTurns ==
  ASSUME NEW c, NEW s, NEW m, NEW d, NEW n, Running(c), IdleAt(s, c, m), Stage(c) = 0,
         Turned(c, m, IdleRead(c), d, n)
  PROVE  ~d.SYNC /\ IdleAt(s, d, n) /\ Stage(d) = 1
<1>1. Reads(c, IdleRead(c), c.PC, c.AD, c.PC) /\ IdleRead(c).IR = c.IR /\ c.IR \in Int
  BY ByteReads DEF Running, Machine
<1>. QED  BY <1>1 DEF Turned, Reads, IdleAt, Shows

LEMMA ImpliedStep ==
  ASSUME NEW c, NEW s, NEW m, NEW d, NEW n, Running(c), IsState(s), NEW op \in ImpliedOps,
         IdleAt(s, c, m), Stage(c) <= 1, Turned(c, m, do_implied(c, op), d, n)
  PROVE  IF d.SYNC THEN Retires(s, d, n, op, "impl") ELSE IdleAt(s, d, n)
<1>1. Stage(c) \in 0..1
  BY StageType DEF Running
<1>2. CASE Stage(c) = 0
  BY <1>2, IdleTurns DEF do_implied
<1>3. CASE Stage(c) = 1
  <2>. DEFINE o == Implied(c, op)
  <2>1. do_implied(c, op) = fetch(o)
    BY <1>3 DEF do_implied
  <2>2. o \in Machine /\ o.RW
    BY ImpliedComputes DEF Computes, Continues
  <2>3. Visible(o) = Program!Inherent(Visible(c), op)
    BY ImpliedVisible DEF Running
  <2>. HIDE DEF o
  <2>4. Visible(d) = Visible(o) /\ n = m /\ d.SYNC
    BY <2>1, <2>2, TurnedVisible, FetchVisible DEF Turned
  <2>5. Visible(c) = Regs(s.r.A, s.r.X, s.r.Y, s.r.S, At(s, 1), s.r.status) /\ m = s.m
    BY ShownVisible DEF IdleAt
  <2>. QED  BY <2>3, <2>4, <2>5, ImpliedExecuted DEF Retires
<1>. QED  BY <1>1, <1>2, <1>3

LEMMA AccumulatorStep ==
  ASSUME NEW c, NEW s, NEW m, NEW d, NEW n, Running(c), IsState(s), NEW op \in ModifyOps,
         IdleAt(s, c, m), Stage(c) <= 1, Turned(c, m, do_accumulator(c, op), d, n)
  PROVE  IF d.SYNC THEN Retires(s, d, n, op, "acc") ELSE IdleAt(s, d, n)
<1>1. Stage(c) \in 0..1
  BY StageType DEF Running
<1>2. CASE Stage(c) = 0
  BY <1>2, IdleTurns DEF do_accumulator
<1>3. CASE Stage(c) = 1
  <2>. DEFINE did == Modified(op, c.status, c.A)
              new == Modified(op, s.r.status, s.r.A)
              o   == [c EXCEPT !.A = did.res, !.status = did.status]
  <2>1. do_accumulator(c, op) = fetch(o)
    BY <1>3 DEF do_accumulator
  <2>2. m = s.m /\ Shows(s, c, s.r.S, At(s, 1), s.r.status) /\ c.A = s.r.A
        /\ Seen(c.status) = s.r.status
    BY DEF IdleAt, Shows, Seen
  <2>3. did.res = new.res /\ Seen(did.status) = new.status
    BY <2>2, SeenModified
  <2>4. c \in Machine /\ c.A \in Byte /\ c.status \in SUBSET Bit
    BY FieldTypes DEF Running
  <2>5. did.res \in Byte /\ did.status \in SUBSET Bit
    BY <2>4, ModifiedType
  <2>. HIDE DEF did, new
  <2>6. o \in Machine /\ o.RW
    BY <2>5 DEF Running, Machine
  <2>7. Visible(o) = Regs(did.res, c.X, c.Y, c.S, c.PC, Seen(did.status))
    BY <2>4 DEF Visible, Regs, Seen, Machine
  <2>. HIDE DEF o
  <2>8. Visible(d) = Visible(o) /\ n = m /\ d.SYNC
    BY <2>1, <2>6, TurnedVisible, FetchVisible DEF Turned
  <2>9. [r |-> Visible(d), m |-> n]
          = State(new.res, s.r.X, s.r.Y, s.r.S, At(s, 1), new.status, s.m)
    BY <2>2, <2>3, <2>7, <2>8 DEF Shows, State
  <2>. QED  BY <2>8, <2>9, AccumulatorExecuted DEF Retires, new
<1>. QED  BY <1>1, <1>2, <1>3

LEMMA BranchStep ==
  ASSUME NEW c, NEW s, NEW m, NEW d, NEW n, Running(c), IsState(s), NEW op \in BranchOps,
         BranchAt(s, c, m, op, Stage(c)), Stage(c) <= 3,
         Turned(c, m, branch(c, Taken(op, c.status)), d, n)
  PROVE  IF d.SYNC THEN Retires(s, d, n, op, "rel") ELSE BranchAt(s, d, n, op, Stage(d))
<1>. DEFINE b  == branch(c, Taken(op, c.status))
            to == U16(At(s, 2) + Signed(First(s)))
<1>1. Stage(c) \in 0..3 /\ c \in Machine /\ c.IR \in Int
  BY StageType DEF Running, Machine
<1>2. /\ m = s.m
      /\ Shows(s, c, s.r.S, At(s, IF Stage(c) = 0 THEN 1 ELSE 2), s.r.status)
      /\ Stage(c) = 1 => c.data_bus = First(s)
      /\ Stage(c) >= 2 => Taken(op, s.r.status) /\ c.AD = to
  BY DEF BranchAt
<1>3. Taken(op, c.status) <=> Taken(op, s.r.status)
  <2>1. Seen(c.status) = s.r.status
    BY <1>2 DEF Shows, Seen
  <2>. QED  BY <2>1, SeenConditions
<1>4. Program!Executed(s, op, "rel") = Moved(s, IF Taken(op, s.r.status) THEN to ELSE At(s, 2))
  BY BranchExecuted
<1>. HIDE DEF to
<1>5. CASE Stage(c) = 0
  <2>1. b = NextByte(c)
    BY <1>5 DEF branch
  <2>2. Reads(c, b, At(s, 2), c.AD, At(s, 1)) /\ b.IR = c.IR
    BY <1>2, <1>5, <2>1, ByteReads, AtMovesOn DEF Shows
  <2>. HIDE DEF b
  <2>3. /\ ~d.SYNC /\ n = s.m /\ d.data_bus = First(s) /\ Stage(d) = 1
        /\ Shows(s, d, s.r.S, At(s, 2), s.r.status)
    BY <1>1, <1>2, <1>5, <2>2 DEF Turned, Reads, Shows, First, b
  <2>. QED  BY <2>3 DEF BranchAt
<1>6. CASE Stage(c) = 1
  <2>. DEFINE aimed == [c EXCEPT !.addr_bus = c.PC, !.AD = U16(c.PC + Signed(c.data_bus))]
  <2>1. b = IF Taken(op, c.status) THEN aimed ELSE fetch(aimed)
    BY <1>6 DEF branch
  <2>2. c.PC = At(s, 2) /\ c.data_bus = First(s)
    BY <1>2, <1>6 DEF Shows
  <2>3. Reads(c, aimed, At(s, 2), to, At(s, 2)) /\ aimed.IR = c.IR
    BY <2>2 DEF Running, Machine, Reads, to
  <2>4. aimed \in Machine \/ to \notin Word
    BY <1>1, <2>2 DEF Machine, to
  <2>5. to \in Word
    BY <2>2, AddressTypes, AimType DEF to
  <2>. HIDE DEF aimed
  <2>6. CASE Taken(op, s.r.status)
    <3>1. b = aimed
      BY <1>3, <2>1, <2>6
    <3>. HIDE DEF b
    <3>2. /\ ~d.SYNC /\ n = s.m /\ d.AD = to /\ Stage(d) = 2
          /\ Shows(s, d, s.r.S, At(s, 2), s.r.status)
      BY <1>1, <1>2, <1>6, <2>3, <3>1 DEF Turned, Reads, Shows, b
    <3>. QED  BY <2>6, <3>2 DEF BranchAt, to
  <2>7. CASE ~Taken(op, s.r.status)
    <3>1. b = fetch(aimed)
      BY <1>3, <2>1, <2>7
    <3>2. aimed.RW /\ aimed \in Machine
      BY <2>3, <2>4, <2>5 DEF Reads
    <3>. HIDE DEF b
    <3>3. d.SYNC /\ n = m /\ Visible(d) = Visible(aimed)
      BY <3>1, <3>2, FetchVisible, TurnedVisible DEF Turned, b
    <3>4. Visible(aimed) = Regs(s.r.A, s.r.X, s.r.Y, s.r.S, At(s, 2), s.r.status)
      <4>1. Shows(s, aimed, s.r.S, At(s, 2), s.r.status)
        BY <1>2, <1>6, <2>3 DEF Reads, Shows
      <4>. QED  BY <4>1, ShownVisible
    <3>. QED  BY <1>2, <1>4, <2>7, <3>3, <3>4 DEF Retires, Moved, State
  <2>. QED  BY <2>6, <2>7
<1>7. CASE Stage(c) \in 2..3
  <2>. DEFINE target == [c EXCEPT !.PC = c.AD]
              wrong  == [c EXCEPT !.addr_bus = 256 * High(c.PC) + Low(c.AD)]
  <2>1. b = fetch(target) \/ (Stage(c) = 2 /\ b = wrong)
    BY <1>7 DEF branch
  <2>2. c.AD = to /\ Taken(op, s.r.status) /\ Shows(s, c, s.r.S, At(s, 2), s.r.status)
    BY <1>2, <1>7
  <2>3. CASE b = fetch(target)
    <3>1. target \in Machine /\ target.RW
      BY DEF Running, Machine
    <3>2. Shows(s, target, s.r.S, to, s.r.status)
      BY <1>1, <2>2 DEF Machine, Shows
    <3>. HIDE DEF target, b
    <3>3. d.SYNC /\ n = m /\ Visible(d) = Visible(target)
      BY <2>3, <3>1, FetchVisible, TurnedVisible DEF Turned, b
    <3>4. Visible(target) = Regs(s.r.A, s.r.X, s.r.Y, s.r.S, to, s.r.status)
      BY <3>2, ShownVisible
    <3>. QED  BY <1>2, <1>4, <2>2, <3>3, <3>4 DEF Retires, Moved, State
  <2>4. CASE Stage(c) = 2 /\ b = wrong
    <3>1. /\ wrong.A = c.A /\ wrong.X = c.X /\ wrong.Y = c.Y /\ wrong.S = c.S
          /\ wrong.PC = c.PC /\ wrong.status = c.status /\ wrong.AD = c.AD
          /\ ~wrong.SYNC /\ wrong.RW /\ wrong.IR = c.IR
      BY DEF Running, Machine
    <3>. HIDE DEF wrong, b
    <3>2. /\ ~d.SYNC /\ n = s.m /\ d.AD = to /\ Stage(d) = 3
          /\ Shows(s, d, s.r.S, At(s, 2), s.r.status)
      BY <1>1, <1>2, <2>2, <2>4, <3>1 DEF Turned, Shows, b
    <3>. QED  BY <2>2, <3>2 DEF BranchAt, to
  <2>. QED  BY <2>1, <2>3, <2>4
<1>. QED  BY <1>1, <1>5, <1>6, <1>7

(* A cycle that reads at addr and leaves A, X and Y. *)
Looks(c, d, S, PC, status, AD, addr) ==
  /\ d.A = c.A /\ d.X = c.X /\ d.Y = c.Y
  /\ d.S = S /\ d.PC = PC /\ d.status = status
  /\ d.AD = AD /\ d.addr_bus = addr
  /\ d.RW /\ ~d.SYNC /\ d.IR = c.IR

LEMMA LookTurns ==
  ASSUME NEW c, NEW s, NEW m, NEW d, NEW n, NEW ran, Turned(c, m, ran, d, n), Running(c),
         NEW S, NEW PC, NEW status, NEW AD, NEW addr, Looks(c, ran, S, PC, status, AD, addr),
         Shows(s, c, c.S, c.PC, Seen(c.status))
  PROVE  /\ ~d.SYNC /\ n = m /\ d.data_bus = Read(m, addr) /\ d.AD = AD
         /\ d.break_status = ran.break_status
         /\ Stage(d) = Stage(c) + 1
         /\ Shows(s, d, S, PC, Seen(status))
<1>1. c.IR \in Int /\ Stage(c) \in Int
  BY StageType DEF Running, Machine
<1>. QED  BY <1>1 DEF Turned, Looks, Shows, Seen

LEMMA SimpleLooks ==
  ASSUME NEW c, Running(c)
  PROVE  /\ Looks(c, IdleRead(c), c.S, c.PC, c.status, c.AD, c.PC)
         /\ Looks(c, NextByte(c), c.S, U16(c.PC + 1), c.status, c.AD, c.PC)
         /\ Looks(c, PopNext(c), U8(c.S + 1), c.PC, c.status, c.AD, 256 + c.S)
         /\ Stage(c) = 0 => Looks(c, AddressLow(c), c.S, U16(c.PC + 1), c.status, c.AD, c.PC)
         /\ Stage(c) = 1 =>
              Looks(c, AddressLow(c), c.S, U16(c.PC + 1), c.status, c.data_bus, c.PC)
BY DEF Running, Machine, IdleRead, NextByte, PopNext, AddressLow, Looks, STACK_TOP_ADDR

(* What is shown, in the terms of the processor itself. *)
LEMMA ShowsItself ==
  ASSUME NEW c, NEW s, NEW S, NEW PC, NEW status, Shows(s, c, S, PC, status)
  PROVE  /\ Shows(s, c, c.S, c.PC, Seen(c.status))
         /\ c.S = S /\ c.PC = PC /\ Seen(c.status) = status
BY DEF Shows, Seen

(* A byte that is pushed. *)
LEMMA PushTurns ==
  ASSUME NEW c, NEW s, NEW m, NEW d, NEW n, NEW b, Running(c),
         Turned(c, m, push_stack(c, b), d, n),
         NEW S, NEW PC, NEW status, Shows(s, c, S, PC, status)
  PROVE  /\ ~d.SYNC /\ n = Store(m, 256 + S, b) /\ d.AD = c.AD
         /\ Stage(d) = Stage(c) + 1
         /\ Shows(s, d, U8(S - 1), PC, status)
<1>. DEFINE w == push_stack(c, b)
<1>1. /\ w.A = c.A /\ w.X = c.X /\ w.Y = c.Y /\ w.S = U8(c.S - 1) /\ w.PC = c.PC
      /\ w.status = c.status /\ w.AD = c.AD /\ w.addr_bus = 256 + c.S
      /\ w.data_bus = b /\ ~w.RW /\ ~w.SYNC /\ w.IR = c.IR
  BY DEF Running, Machine, push_stack, STACK_TOP_ADDR
<1>. HIDE DEF w
<1>2. c.IR \in Int /\ Stage(c) \in Int
  BY StageType DEF Running, Machine
<1>. QED  BY <1>1, <1>2 DEF Turned, Shows, w

(* The end of a jump to w. *)
Arrived(c, w) == [c EXCEPT !.PC = w]

LEMMA JumpTurns ==
  ASSUME NEW c, NEW s, NEW m, NEW d, NEW n, NEW w \in Word, Running(c),
         Turned(c, m, fetch(Arrived(c, w)), d, n),
         NEW S, NEW PC, NEW status, Shows(s, c, S, PC, status)
  PROVE  /\ d.SYNC /\ n = m
         /\ Visible(d) = Regs(s.r.A, s.r.X, s.r.Y, S, w, status)
<1>. DEFINE a == Arrived(c, w)
<1>1. a \in Machine /\ a.RW
  BY DEF Running, Machine, Arrived
<1>2. Shows(s, a, S, w, status)
  BY DEF Running, Machine, Shows, Arrived
<1>. HIDE DEF a
<1>3. d.SYNC /\ n = m /\ Visible(d) = Visible(a)
  BY <1>1, FetchVisible, TurnedVisible DEF Turned, a
<1>. QED  BY <1>2, <1>3, ShownVisible

(* S moves by one with every byte pulled, too. *)
LEMMA TopMovesBack ==
  ASSUME NEW s, IsState(s)
  PROVE  /\ U8(s.r.S + 1) = Top(s, 1) /\ U8(Top(s, 1) + 1) = Top(s, 2)
         /\ U8(Top(s, 2) + 1) = Top(s, 3)
<1>1. s.r.S \in Byte
  BY RegistersTypes
<1>2. ASSUME NEW b \in Byte
      PROVE  /\ (((b + 1) % 256) + 1) % 256 = (b + 2) % 256
             /\ (((b + 2) % 256) + 1) % 256 = (b + 3) % 256
  BY DEF Byte
<1>. QED  BY <1>1, <1>2 DEF Top, U8

LEMMA PushStep ==
  ASSUME NEW c, NEW s, NEW m, NEW d, NEW n, Running(c), IsState(s), NEW b,
         PushAt(s, c, m, b, Stage(c)), Stage(c) <= 2, Turned(c, m, do_push(c, b), d, n)
  PROVE  IF d.SYNC
         THEN [r |-> Visible(d), m |-> n] =
                State(s.r.A, s.r.X, s.r.Y, Top(s, -1), At(s, 1), s.r.status,
                      Store(s.m, 256 + Top(s, 0), b))
         ELSE PushAt(s, d, n, b, Stage(d))
<1>1. Stage(c) \in 0..2
  BY StageType DEF Running
<1>2. CASE Stage(c) = 0
  <2>1. IdleAt(s, c, m) /\ do_push(c, b) = IdleRead(c)
    BY <1>2 DEF PushAt, do_push
  <2>2. ~d.SYNC /\ IdleAt(s, d, n) /\ Stage(d) = 1
    BY <1>2, <2>1, IdleTurns
  <2>. QED  BY <2>2 DEF PushAt
<1>3. CASE Stage(c) = 1
  <2>1. IdleAt(s, c, m) /\ do_push(c, b) = push_stack(c, b)
    BY <1>3 DEF PushAt, do_push
  <2>2. /\ ~d.SYNC /\ n = Store(m, 256 + s.r.S, b) /\ Stage(d) = Stage(c) + 1
        /\ Shows(s, d, U8(s.r.S - 1), At(s, 1), s.r.status)
    BY <2>1, PushTurns DEF IdleAt
  <2>3. m = s.m /\ Top(s, 0) = s.r.S /\ U8(s.r.S - 1) = Top(s, -1)
    BY <2>1, TopMoves DEF IdleAt
  <2>4. Stage(d) = 2
    BY <1>3, <2>2
  <2>. QED  BY <2>2, <2>3, <2>4 DEF PushAt
<1>4. CASE Stage(c) = 2
  <2>1. /\ Shows(s, c, Top(s, -1), At(s, 1), s.r.status)
        /\ m = Store(s.m, 256 + Top(s, 0), b)
    BY <1>4 DEF PushAt
  <2>2. d.SYNC /\ n = m /\ Visible(d) = Visible(c)
    BY <1>4, FetchTurns DEF do_push
  <2>. QED  BY <2>1, <2>2, ShownVisible DEF State
<1>. QED  BY <1>1, <1>2, <1>3, <1>4

LEMMA PullStep ==
  ASSUME NEW c, NEW s, NEW m, NEW d, NEW n, Running(c), IsState(s), NEW pulled,
         Computes(c, pulled),
         PullAt(s, c, m, Stage(c)), Stage(c) <= 3, Turned(c, m, do_pull(c, pulled), d, n)
  PROVE  IF d.SYNC
         THEN /\ Stage(c) = 3 /\ n = s.m /\ Visible(d) = Visible(pulled)
              /\ c.data_bus = OnStack(s, 1)
              /\ Visible(c) = Regs(s.r.A, s.r.X, s.r.Y, Top(s, 1), At(s, 1), s.r.status)
         ELSE PullAt(s, d, n, Stage(d))
<1>1. Stage(c) \in 0..3
  BY StageType DEF Running
<1>2. /\ m = s.m
      /\ Shows(s, c, IF Stage(c) < 2 THEN s.r.S ELSE Top(s, 1), At(s, 1), s.r.status)
      /\ Stage(c) = 3 => c.data_bus = OnStack(s, 1)
  BY DEF PullAt
<1>3. /\ Shows(s, c, c.S, c.PC, Seen(c.status))
      /\ c.S = (IF Stage(c) < 2 THEN s.r.S ELSE Top(s, 1)) /\ c.PC = At(s, 1)
      /\ Seen(c.status) = s.r.status
  BY <1>2, ShowsItself
<1>4. CASE Stage(c) = 0
  <2>1. Looks(c, do_pull(c, pulled), s.r.S, At(s, 1), c.status, c.AD, c.PC)
    BY <1>3, <1>4, SimpleLooks DEF do_pull
  <2>2. ~d.SYNC /\ n = m /\ Stage(d) = 1 /\ Shows(s, d, s.r.S, At(s, 1), s.r.status)
    BY <1>3, <1>4, <2>1, LookTurns
  <2>. QED  BY <1>2, <2>2 DEF PullAt
<1>5. CASE Stage(c) = 1
  <2>1. Looks(c, do_pull(c, pulled), Top(s, 1), At(s, 1), c.status, c.AD, 256 + c.S)
    BY <1>3, <1>5, SimpleLooks, TopMovesBack DEF do_pull
  <2>2. /\ ~d.SYNC /\ n = m /\ Stage(d) = Stage(c) + 1
        /\ Shows(s, d, Top(s, 1), At(s, 1), s.r.status)
    BY <1>3, <2>1, LookTurns
  <2>3. Stage(d) = 2
    BY <1>5, <2>2
  <2>. QED  BY <1>2, <2>2, <2>3 DEF PullAt
<1>6. CASE Stage(c) = 2
  <2>. DEFINE p == [c EXCEPT !.addr_bus = STACK_TOP_ADDR + c.S]
  <2>1. do_pull(c, pulled) = p
    BY <1>6 DEF do_pull
  <2>2. Looks(c, p, Top(s, 1), At(s, 1), c.status, c.AD, 256 + Top(s, 1))
    BY <1>3, <1>6 DEF Running, Machine, Looks, STACK_TOP_ADDR
  <2>. HIDE DEF p
  <2>3. /\ ~d.SYNC /\ n = m /\ Stage(d) = Stage(c) + 1
        /\ d.data_bus = Read(m, 256 + Top(s, 1))
        /\ Shows(s, d, Top(s, 1), At(s, 1), s.r.status)
    BY <1>3, <2>1, <2>2, LookTurns
  <2>4. Stage(d) = 3
    BY <1>6, <2>3
  <2>. QED  BY <1>2, <2>3, <2>4 DEF PullAt, OnStack
<1>7. CASE Stage(c) = 3
  <2>1. do_pull(c, pulled) = fetch(pulled)
    BY <1>7 DEF do_pull
  <2>2. pulled \in Machine /\ pulled.RW
    BY DEF Computes, Continues
  <2>3. d.SYNC /\ n = m /\ Visible(d) = Visible(pulled)
    BY <2>1, <2>2, FetchVisible, TurnedVisible DEF Turned
  <2>4. Visible(c) = Regs(s.r.A, s.r.X, s.r.Y, Top(s, 1), At(s, 1), s.r.status)
    BY <1>2, <1>7, ShownVisible
  <2>. QED  BY <1>2, <1>7, <2>3, <2>4
<1>. QED  BY <1>1, <1>4, <1>5, <1>6, <1>7

(* PHA, PHP, PLA and PLP. *)
LEMMA PushesStep ==
  ASSUME NEW c, NEW s, NEW m, NEW d, NEW n, Running(c), IsState(s), Stage(c) <= 2
  PROVE  /\ PushAt(s, c, m, s.r.A, Stage(c)) /\ Turned(c, m, do_push(c, c.A), d, n) =>
              IF d.SYNC THEN Retires(s, d, n, "PHA", "impl")
              ELSE PushAt(s, d, n, s.r.A, Stage(d))
         /\ PushAt(s, c, m, ByteOf(s.r.status \cup {BF, XF}), Stage(c))
            /\ Turned(c, m, do_push(c, StatusByte(c)), d, n) =>
              IF d.SYNC THEN Retires(s, d, n, "PHP", "impl")
              ELSE PushAt(s, d, n, ByteOf(s.r.status \cup {BF, XF}), Stage(d))
<1>1. ASSUME NEW b, PushAt(s, c, m, b, Stage(c))
      PROVE  c.A = s.r.A /\ Seen(c.status) = s.r.status
  BY <1>1 DEF PushAt, IdleAt, Shows, Seen
<1>2. ASSUME Seen(c.status) = s.r.status
      PROVE  StatusByte(c) = ByteOf(s.r.status \cup {BF, XF})
  <2>1. c.status \cup {BF, XF} = s.r.status \cup {BF, XF}
    BY <1>2 DEF Seen
  <2>. QED  BY <2>1 DEF StatusByte
<1>3. ASSUME PushAt(s, c, m, s.r.A, Stage(c)), Turned(c, m, do_push(c, c.A), d, n)
      PROVE  IF d.SYNC THEN Retires(s, d, n, "PHA", "impl")
             ELSE PushAt(s, d, n, s.r.A, Stage(d))
  <2>1. c.A = s.r.A
    BY <1>1, <1>3
  <2>2. IF d.SYNC
        THEN [r |-> Visible(d), m |-> n] =
               State(s.r.A, s.r.X, s.r.Y, Top(s, -1), At(s, 1), s.r.status,
                     Store(s.m, 256 + Top(s, 0), s.r.A))
        ELSE PushAt(s, d, n, s.r.A, Stage(d))
    BY <1>3, <2>1, PushStep
  <2>. QED  BY <2>2, PushExecuted DEF Retires
<1>4. ASSUME PushAt(s, c, m, ByteOf(s.r.status \cup {BF, XF}), Stage(c)),
             Turned(c, m, do_push(c, StatusByte(c)), d, n)
      PROVE  IF d.SYNC THEN Retires(s, d, n, "PHP", "impl")
             ELSE PushAt(s, d, n, ByteOf(s.r.status \cup {BF, XF}), Stage(d))
  <2>1. StatusByte(c) = ByteOf(s.r.status \cup {BF, XF})
    BY <1>1, <1>2, <1>4
  <2>. DEFINE b == ByteOf(s.r.status \cup {BF, XF})
  <2>2. PushAt(s, c, m, b, Stage(c)) /\ Turned(c, m, do_push(c, b), d, n)
    BY <1>4, <2>1
  <2>3. Program!Executed(s, "PHP", "impl") =
          State(s.r.A, s.r.X, s.r.Y, Top(s, -1), At(s, 1), s.r.status,
                Store(s.m, 256 + Top(s, 0), b))
    BY PushExecuted
  <2>. HIDE DEF b
  <2>4. IF d.SYNC
        THEN [r |-> Visible(d), m |-> n] =
               State(s.r.A, s.r.X, s.r.Y, Top(s, -1), At(s, 1), s.r.status,
                     Store(s.m, 256 + Top(s, 0), b))
        ELSE PushAt(s, d, n, b, Stage(d))
    BY <2>2, PushStep
  <2>. QED  BY <2>3, <2>4 DEF Retires, b
<1>. QED  BY <1>3, <1>4

(* What PLA and PLP make of the processor. *)
PulledStatus(c) == [c EXCEPT !.status = Bits(c.data_bus) \ {BF}]

LEMMA PullsStep ==
  ASSUME NEW c, NEW s, NEW m, NEW d, NEW n, Running(c), IsState(s), Stage(c) <= 3,
         PullAt(s, c, m, Stage(c))
  PROVE  /\ Turned(c, m, do_pull(c, SetReg(c, "A", c.data_bus)), d, n) =>
              IF d.SYNC THEN Retires(s, d, n, "PLA", "impl") ELSE PullAt(s, d, n, Stage(d))
         /\ Turned(c, m, do_pull(c, PulledStatus(c)), d, n) =>
              IF d.SYNC THEN Retires(s, d, n, "PLP", "impl") ELSE PullAt(s, d, n, Stage(d))
<1>. DEFINE a == SetReg(c, "A", c.data_bus)
            p == PulledStatus(c)
<1>1. c.data_bus \in Byte /\ c \in Machine
  BY FieldTypes DEF Running
<1>2. Computes(c, a)
  BY <1>1, SetRegComputes
<1>3. Computes(c, p)
  <2>1. Bits(c.data_bus) \ {BF} \in SUBSET Bit
    BY BitsType
  <2>. QED  BY <2>1, StatusComputes DEF PulledStatus
<1>4. Visible(a) = Regs(c.data_bus, c.X, c.Y, c.S, c.PC,
                        update_flags_register(Seen(c.status), c.data_bus))
  BY <1>1, SetRegVisible
<1>5. Visible(p) = Regs(c.A, c.X, c.Y, c.S, c.PC, Bits(c.data_bus) \ {BF, XF})
  <2>1. Visible(p) = Regs(c.A, c.X, c.Y, c.S, c.PC, Seen(Bits(c.data_bus) \ {BF}))
    BY <1>1 DEF PulledStatus, Machine, Visible, Regs, Seen
  <2>2. Seen(Bits(c.data_bus) \ {BF}) = Bits(c.data_bus) \ {BF, XF}
    BY DEF Seen
  <2>. QED  BY <2>1, <2>2
<1>. HIDE DEF a, p
<1>6. ASSUME Visible(c) = Regs(s.r.A, s.r.X, s.r.Y, Top(s, 1), At(s, 1), s.r.status),
             c.data_bus = OnStack(s, 1)
      PROVE  /\ Visible(a) = Regs(OnStack(s, 1), s.r.X, s.r.Y, Top(s, 1), At(s, 1),
                                  update_flags_register(s.r.status, OnStack(s, 1)))
             /\ Visible(p) = Regs(s.r.A, s.r.X, s.r.Y, Top(s, 1), At(s, 1),
                                  Bits(OnStack(s, 1)) \ {BF, XF})
  <2>1. /\ c.A = s.r.A /\ c.X = s.r.X /\ c.Y = s.r.Y /\ c.S = Top(s, 1) /\ c.PC = At(s, 1)
        /\ Seen(c.status) = s.r.status
    BY <1>6, VisibleRegs DEF Regs
  <2>. QED  BY <1>4, <1>5, <1>6, <2>1
<1>7. ASSUME Turned(c, m, do_pull(c, a), d, n)
      PROVE  IF d.SYNC THEN Retires(s, d, n, "PLA", "impl") ELSE PullAt(s, d, n, Stage(d))
  <2>1. IF d.SYNC
        THEN /\ Stage(c) = 3 /\ n = s.m /\ Visible(d) = Visible(a)
             /\ c.data_bus = OnStack(s, 1)
             /\ Visible(c) = Regs(s.r.A, s.r.X, s.r.Y, Top(s, 1), At(s, 1), s.r.status)
        ELSE PullAt(s, d, n, Stage(d))
    BY <1>2, <1>7, PullStep
  <2>. QED  BY <1>6, <2>1, PullExecuted DEF Retires, State
<1>8. ASSUME Turned(c, m, do_pull(c, p), d, n)
      PROVE  IF d.SYNC THEN Retires(s, d, n, "PLP", "impl") ELSE PullAt(s, d, n, Stage(d))
  <2>1. IF d.SYNC
        THEN /\ Stage(c) = 3 /\ n = s.m /\ Visible(d) = Visible(p)
             /\ c.data_bus = OnStack(s, 1)
             /\ Visible(c) = Regs(s.r.A, s.r.X, s.r.Y, Top(s, 1), At(s, 1), s.r.status)
        ELSE PullAt(s, d, n, Stage(d))
    BY <1>3, <1>8, PullStep
  <2>. QED  BY <1>6, <2>1, PullExecuted DEF Retires, State
<1>. QED  BY <1>7, <1>8 DEF a, p

LEMMA JumpBytes ==
  ASSUME NEW c, NEW s, NEW m, NEW d, NEW n, Running(c), IsState(s), NEW mode \in {"abs", "ind"},
         JumpAt(s, c, m, mode, Stage(c)), Stage(c) <= 1,
         Turned(c, m, AddressLow(c), d, n)
  PROVE  ~d.SYNC /\ JumpAt(s, d, n, mode, Stage(d))
<1>1. Stage(c) \in 0..1
  BY StageType DEF Running
<1>2. /\ m = s.m /\ Shows(s, c, c.S, c.PC, Seen(c.status))
      /\ c.S = s.r.S /\ c.PC = At(s, Passed(mode, Stage(c))) /\ Seen(c.status) = s.r.status
      /\ Stage(c) = 1 => c.data_bus = First(s)
  BY ShowsItself DEF JumpAt
<1>3. Passed(mode, 0) = 1 /\ Passed(mode, 1) = 2 /\ Passed(mode, 2) = 3
  BY DEF Passed, TwoBytes
<1>4. CASE Stage(c) = 0
  <2>1. Looks(c, AddressLow(c), c.S, U16(c.PC + 1), c.status, c.AD, c.PC)
    BY <1>4, SimpleLooks
  <2>2. /\ ~d.SYNC /\ n = m /\ d.data_bus = Read(m, c.PC) /\ Stage(d) = Stage(c) + 1
        /\ Shows(s, d, c.S, U16(c.PC + 1), Seen(c.status))
    BY <1>2, <1>4, <2>1, LookTurns
  <2>3. c.PC = At(s, 1) /\ U16(c.PC + 1) = At(s, 2)
    BY <1>2, <1>3, <1>4, AtMovesOn
  <2>4. Stage(d) = 1
    BY <1>4, <2>2
  <2>. QED  BY <1>2, <1>3, <2>2, <2>3, <2>4 DEF JumpAt, First
<1>5. CASE Stage(c) = 1
  <2>1. Looks(c, AddressLow(c), c.S, U16(c.PC + 1), c.status, c.data_bus, c.PC)
    BY <1>5, SimpleLooks
  <2>2. /\ ~d.SYNC /\ n = m /\ d.data_bus = Read(m, c.PC) /\ d.AD = c.data_bus
        /\ Stage(d) = Stage(c) + 1
        /\ Shows(s, d, c.S, U16(c.PC + 1), Seen(c.status))
    BY <1>2, <1>5, <2>1, LookTurns
  <2>3. c.PC = At(s, 2) /\ U16(c.PC + 1) = At(s, 3)
    BY <1>2, <1>3, <1>5, AtMovesOn
  <2>4. Stage(d) = 2
    BY <1>5, <2>2
  <2>. QED  BY <1>2, <1>3, <1>5, <2>2, <2>3, <2>4 DEF JumpAt, Second
<1>. QED  BY <1>1, <1>4, <1>5

(* What a jump finds when both bytes are there. *)
LEMMA JumpFound ==
  ASSUME NEW c, NEW s, NEW m, Running(c), IsState(s), NEW mode \in {"abs", "ind"},
         JumpAt(s, c, m, mode, Stage(c)), Stage(c) \in 2..4
  PROVE  /\ m = s.m /\ Shows(s, c, s.r.S, At(s, 3), s.r.status)
         /\ Stage(c) = 2 => OrHigh(c.AD, c.data_bus) = Absolute(s) /\ Absolute(s) \in Word
         /\ Stage(c) = 4 =>
              LET w == Read(s.m, Absolute(s))
                         + 256 * Read(s.m, 256 * High(Absolute(s)) + Low(Absolute(s) + 1))
              IN  OrHigh(c.AD, c.data_bus) = w /\ w \in Word
<1>1. Passed(mode, Stage(c)) = 3
  BY PassedBytes DEF TwoBytes
<1>2. m = s.m /\ Shows(s, c, s.r.S, At(s, 3), s.r.status)
  BY <1>1 DEF JumpAt
<1>3. CASE Stage(c) = 2
  <2>1. c.AD = First(s) /\ c.data_bus = Second(s)
    BY <1>3 DEF JumpAt
  <2>2. First(s) \in Byte /\ Second(s) \in Byte /\ Absolute(s) \in Word
    BY AddressTypes
  <2>3. OrHigh(First(s), Second(s)) = First(s) + 256 * Second(s)
    BY <2>2, OrHighBytes
  <2>. QED  BY <1>2, <1>3, <2>1, <2>2, <2>3 DEF Absolute
<1>4. CASE Stage(c) = 4
  <2>. DEFINE l == Read(s.m, Absolute(s))
              h == Read(s.m, 256 * High(Absolute(s)) + Low(Absolute(s) + 1))
  <2>1. c.AD = l /\ c.data_bus = h
    BY <1>4 DEF JumpAt
  <2>2. h \in Byte
    BY <2>1, FieldTypes DEF Running
  <2>3. l \in Byte
    BY AddressTypes, ReadType DEF IsState
  <2>. HIDE DEF l, h
  <2>4. OrHigh(l, h) = l + 256 * h /\ l + 256 * h \in Word
    BY <2>2, <2>3, OrHighBytes, Assembled
  <2>. QED  BY <1>2, <1>4, <2>1, <2>4 DEF l, h
<1>. QED  BY <1>2, <1>3, <1>4

LEMMA JumpStep ==
  ASSUME NEW c, NEW s, NEW m, NEW d, NEW n, Running(c), IsState(s),
         JumpAt(s, c, m, "abs", Stage(c)), Stage(c) <= 2, Turned(c, m, do_4C(c), d, n)
  PROVE  IF d.SYNC THEN Retires(s, d, n, "JMP", "abs") ELSE JumpAt(s, d, n, "abs", Stage(d))
<1>1. Stage(c) \in 0..2
  BY StageType DEF Running
<1>2. CASE Stage(c) \in 0..1
  BY <1>2, JumpBytes DEF do_4C
<1>3. CASE Stage(c) = 2
  <2>1. /\ m = s.m /\ Shows(s, c, s.r.S, At(s, 3), s.r.status)
        /\ OrHigh(c.AD, c.data_bus) = Absolute(s) /\ Absolute(s) \in Word
    BY <1>3, JumpFound
  <2>2. do_4C(c) = fetch(Arrived(c, Absolute(s)))
    BY <1>3, <2>1 DEF do_4C, Arrived
  <2>3. /\ d.SYNC /\ n = m
        /\ Visible(d) = Regs(s.r.A, s.r.X, s.r.Y, s.r.S, Absolute(s), s.r.status)
    BY <2>1, <2>2, JumpTurns
  <2>. QED  BY <2>1, <2>3, JumpExecuted DEF Retires, Moved, State
<1>. QED  BY <1>1, <1>2, <1>3

LEMMA IndirectJumpStep ==
  ASSUME NEW c, NEW s, NEW m, NEW d, NEW n, Running(c), IsState(s),
         JumpAt(s, c, m, "ind", Stage(c)), Stage(c) <= 4, Turned(c, m, do_6C(c), d, n)
  PROVE  IF d.SYNC THEN Retires(s, d, n, "JMP", "ind") ELSE JumpAt(s, d, n, "ind", Stage(d))
<1>. DEFINE a == Absolute(s)
            p == 256 * High(a) + Low(a + 1)
            w == Read(s.m, a) + 256 * Read(s.m, p)
<1>1. Stage(c) \in 0..4
  BY StageType DEF Running
<1>2. CASE Stage(c) \in 0..1
  BY <1>2, JumpBytes DEF do_6C
<1>3. Stage(c) \in 2..4 =>
        /\ m = s.m /\ Shows(s, c, c.S, c.PC, Seen(c.status))
        /\ c.S = s.r.S /\ c.PC = At(s, 3) /\ Seen(c.status) = s.r.status
  BY JumpFound, ShowsItself
<1>4. \A k \in 3..4 : Passed("ind", k) = 3
  BY PassedBytes DEF TwoBytes
<1>5. CASE Stage(c) = 2
  <2>. DEFINE o == [c EXCEPT !.AD = a, !.addr_bus = a]
  <2>1. OrHigh(c.AD, c.data_bus) = a
    BY <1>5, JumpFound
  <2>2. do_6C(c) = o
    BY <1>5, <2>1 DEF do_6C
  <2>3. Looks(c, o, s.r.S, At(s, 3), c.status, a, a)
    BY <1>3, <1>5 DEF Running, Machine, Looks
  <2>. HIDE DEF o, a
  <2>4. /\ ~d.SYNC /\ n = m /\ d.data_bus = Read(m, a) /\ d.AD = a /\ Stage(d) = Stage(c) + 1
        /\ Shows(s, d, s.r.S, At(s, 3), Seen(c.status))
    BY <1>3, <1>5, <2>2, <2>3, LookTurns
  <2>5. Stage(d) = 3
    BY <1>5, <2>4
  <2>. QED  BY <1>3, <1>4, <1>5, <2>4, <2>5 DEF JumpAt, a
<1>6. CASE Stage(c) = 3
  <2>. DEFINE o == [c EXCEPT !.addr_bus = 256 * High(c.AD) + Low(c.AD + 1),
                             !.AD = c.data_bus]
  <2>1. c.AD = a /\ c.data_bus = Read(s.m, a)
    BY <1>6 DEF JumpAt
  <2>2. do_6C(c) = o
    BY <1>6 DEF do_6C
  <2>3. Looks(c, o, s.r.S, At(s, 3), c.status, Read(s.m, a), p)
    BY <1>3, <1>6, <2>1 DEF Running, Machine, Looks
  <2>. HIDE DEF o, p
  <2>4. /\ ~d.SYNC /\ n = m /\ d.data_bus = Read(m, p) /\ d.AD = Read(s.m, a)
        /\ Stage(d) = Stage(c) + 1
        /\ Shows(s, d, s.r.S, At(s, 3), Seen(c.status))
    BY <1>3, <1>6, <2>2, <2>3, LookTurns
  <2>5. Stage(d) = 4
    BY <1>6, <2>4
  <2>. QED  BY <1>3, <1>4, <1>6, <2>4, <2>5 DEF JumpAt, p
<1>7. CASE Stage(c) = 4
  <2>1. /\ m = s.m /\ Shows(s, c, s.r.S, At(s, 3), s.r.status)
        /\ OrHigh(c.AD, c.data_bus) = w /\ w \in Word
    BY <1>7, JumpFound
  <2>. HIDE DEF w
  <2>2. do_6C(c) = fetch(Arrived(c, w))
    BY <1>7, <2>1 DEF do_6C, Arrived
  <2>3. d.SYNC /\ n = m /\ Visible(d) = Regs(s.r.A, s.r.X, s.r.Y, s.r.S, w, s.r.status)
    BY <2>1, <2>2, JumpTurns
  <2>4. Program!Executed(s, "JMP", "ind") = Moved(s, w)
    BY JumpExecuted DEF w
  <2>. QED  BY <2>1, <2>3, <2>4 DEF Retires, Moved, State
<1>. QED  BY <1>1, <1>2, <1>5, <1>6, <1>7

LEMMA CallStep ==
  ASSUME NEW c, NEW s, NEW m, NEW d, NEW n, Running(c), IsState(s), NEW mode,
         CallAt(s, c, m, Stage(c)), Stage(c) <= 5, Turned(c, m, do_20(c), d, n)
  PROVE  IF d.SYNC THEN Retires(s, d, n, "JSR", mode) ELSE CallAt(s, d, n, Stage(d))
<1>1. Stage(c) \in 0..5 /\ c \in Machine /\ c.IR \in Int
  BY StageType DEF Running, Machine
<1>2. /\ Shows(s, c, c.S, c.PC, Seen(c.status))
      /\ c.S = (CASE Stage(c) <= 2 -> s.r.S [] Stage(c) = 3 -> Top(s, -1)
                  [] OTHER -> Top(s, -2))
      /\ c.PC = At(s, IF Stage(c) = 0 THEN 1 ELSE 2)
      /\ Seen(c.status) = s.r.status
      /\ m = CASE Stage(c) <= 2 -> s.m [] Stage(c) = 3 -> PushedHigh(s) [] OTHER -> PushedBoth(s)
  BY ShowsItself DEF CallAt
<1>3. CASE Stage(c) = 0
  <2>1. Looks(c, do_20(c), c.S, U16(c.PC + 1), c.status, c.AD, c.PC)
    BY <1>3, SimpleLooks DEF do_20
  <2>2. c.S = s.r.S /\ c.PC = At(s, 1) /\ U16(c.PC + 1) = At(s, 2) /\ m = s.m
    BY <1>2, <1>3, AtMovesOn
  <2>3. /\ ~d.SYNC /\ n = m /\ d.data_bus = Read(m, c.PC) /\ Stage(d) = Stage(c) + 1
        /\ Shows(s, d, c.S, U16(c.PC + 1), Seen(c.status))
    BY <1>2, <1>3, <2>1, LookTurns
  <2>4. Stage(d) = 1
    BY <1>3, <2>3
  <2>. QED  BY <1>2, <2>2, <2>3, <2>4 DEF CallAt, First
<1>4. CASE Stage(c) = 1
  <2>. DEFINE o == [c EXCEPT !.AD = c.data_bus, !.addr_bus = STACK_BASE_ADDR]
  <2>1. do_20(c) = o
    BY <1>4 DEF do_20
  <2>2. Looks(c, o, c.S, c.PC, c.status, c.data_bus, STACK_BASE_ADDR)
    BY DEF Running, Machine, Looks
  <2>. HIDE DEF o
  <2>3. c.S = s.r.S /\ c.PC = At(s, 2) /\ m = s.m /\ c.data_bus = First(s)
    BY <1>2, <1>4 DEF CallAt
  <2>6. Turned(c, m, o, d, n) /\ Shows(s, c, c.S, c.PC, Seen(c.status))
    BY <1>2, <2>1
  <2>4. /\ ~d.SYNC /\ n = m /\ d.AD = c.data_bus /\ Stage(d) = Stage(c) + 1
        /\ Shows(s, d, c.S, c.PC, Seen(c.status))
    BY <2>2, <2>6, LookTurns
  <2>5. Stage(d) = 2
    BY <1>4, <2>4
  <2>. QED  BY <1>2, <2>3, <2>4, <2>5 DEF CallAt
<1>5. CASE Stage(c) = 2
  <2>1. do_20(c) = push_stack(c, High(c.PC))
    BY <1>5 DEF do_20
  <2>2. /\ c.S = s.r.S /\ c.PC = At(s, 2) /\ m = s.m /\ c.AD = First(s)
        /\ Top(s, 0) = s.r.S /\ U8(s.r.S - 1) = Top(s, -1)
    BY <1>2, <1>5, TopMoves DEF CallAt
  <2>3. /\ ~d.SYNC /\ n = Store(m, 256 + c.S, High(c.PC)) /\ d.AD = c.AD
        /\ Stage(d) = Stage(c) + 1
        /\ Shows(s, d, U8(c.S - 1), c.PC, Seen(c.status))
    BY <1>2, <2>1, PushTurns
  <2>4. Stage(d) = 3
    BY <1>5, <2>3
  <2>. QED  BY <1>2, <2>2, <2>3, <2>4 DEF CallAt, PushedHigh
<1>6. CASE Stage(c) = 3
  <2>1. do_20(c) = push_stack(c, Low(c.PC))
    BY <1>6 DEF do_20
  <2>2. /\ c.S = Top(s, -1) /\ c.PC = At(s, 2) /\ m = PushedHigh(s) /\ c.AD = First(s)
        /\ U8(Top(s, -1) - 1) = Top(s, -2)
    BY <1>2, <1>6, TopMoves DEF CallAt
  <2>3. /\ ~d.SYNC /\ n = Store(m, 256 + c.S, Low(c.PC)) /\ d.AD = c.AD
        /\ Stage(d) = Stage(c) + 1
        /\ Shows(s, d, U8(c.S - 1), c.PC, Seen(c.status))
    BY <1>2, <2>1, PushTurns
  <2>4. Stage(d) = 4
    BY <1>6, <2>3
  <2>. QED  BY <1>2, <2>2, <2>3, <2>4 DEF CallAt, PushedBoth
<1>7. CASE Stage(c) = 4
  <2>1. Looks(c, do_20(c), c.S, c.PC, c.status, c.AD, c.PC)
    BY <1>7, SimpleLooks DEF do_20
  <2>2. c.S = Top(s, -2) /\ c.PC = At(s, 2) /\ m = PushedBoth(s) /\ c.AD = First(s)
    BY <1>2, <1>7 DEF CallAt
  <2>3. /\ ~d.SYNC /\ n = m /\ d.data_bus = Read(m, c.PC) /\ d.AD = c.AD
        /\ Stage(d) = Stage(c) + 1
        /\ Shows(s, d, c.S, c.PC, Seen(c.status))
    BY <1>2, <1>7, <2>1, LookTurns
  <2>4. Stage(d) = 5
    BY <1>7, <2>3
  <2>. QED  BY <1>2, <2>2, <2>3, <2>4 DEF CallAt
<1>8. CASE Stage(c) = 5
  <2>. DEFINE h == Read(PushedBoth(s), At(s, 2))
              l == First(s)
  <2>1. c.S = Top(s, -2) /\ m = PushedBoth(s) /\ c.AD = l /\ c.data_bus = h
    BY <1>2, <1>8 DEF CallAt
  <2>2. l \in Byte /\ h \in Byte
    BY <1>1, <2>1, AddressTypes, FieldTypes
  <2>. HIDE DEF l, h
  <2>3. OrHigh(l, h) = l + 256 * h /\ l + 256 * h \in Word /\ U16(l + 256 * h) = l + 256 * h
    BY <2>2, OrHighBytes, Assembled
  <2>. DEFINE w == l + 256 * h
  <2>4. do_20(c) = fetch(Arrived(c, w)) /\ w \in Word
    BY <1>8, <2>1, <2>3 DEF do_20, Arrived
  <2>. HIDE DEF w
  <2>5. /\ d.SYNC /\ n = m
        /\ Visible(d) = Regs(s.r.A, s.r.X, s.r.Y, c.S, w, Seen(c.status))
    <3>1. Turned(c, m, fetch(Arrived(c, w)), d, n) /\ Shows(s, c, c.S, c.PC, Seen(c.status))
      BY <1>2, <2>4
    <3>. QED  BY <2>4, <3>1, JumpTurns
  <2>6. Program!Executed(s, "JSR", mode) =
          State(s.r.A, s.r.X, s.r.Y, Top(s, -2), l + 256 * h, s.r.status, PushedBoth(s))
    BY <2>3, CallExecuted DEF l, h
  <2>. QED  BY <1>2, <2>1, <2>5, <2>6 DEF Retires, State, w
<1>. QED  BY <1>1, <1>3, <1>4, <1>5, <1>6, <1>7, <1>8

LEMMA ReturnStep ==
  ASSUME NEW c, NEW s, NEW m, NEW d, NEW n, Running(c), IsState(s), NEW mode,
         ReturnAt(s, c, m, Stage(c)), Stage(c) <= 5, Turned(c, m, do_60(c), d, n)
  PROVE  IF d.SYNC THEN Retires(s, d, n, "RTS", mode) ELSE ReturnAt(s, d, n, Stage(d))
<1>. DEFINE l == OnStack(s, 1)
            h == OnStack(s, 2)
            w == U16(l + 256 * h + 1)
<1>1. Stage(c) \in 0..5 /\ c \in Machine
  BY StageType DEF Running
<1>2. /\ Shows(s, c, c.S, c.PC, Seen(c.status)) /\ m = s.m
      /\ c.S = (CASE Stage(c) <= 1 -> s.r.S [] Stage(c) = 2 -> Top(s, 1) [] OTHER -> Top(s, 2))
      /\ c.PC = (IF Stage(c) <= 4 THEN At(s, 1) ELSE w)
      /\ Seen(c.status) = s.r.status
      /\ Stage(c) = 3 => c.data_bus = l
      /\ Stage(c) = 4 => c.AD = l /\ c.data_bus = h
  BY ShowsItself DEF ReturnAt
<1>3. U8(s.r.S + 1) = Top(s, 1) /\ U8(Top(s, 1) + 1) = Top(s, 2)
  BY TopMovesBack
<1>4. l \in Byte /\ h \in Byte
  BY AddressTypes
<1>5. OrHigh(l, h) = l + 256 * h
  BY <1>4, OrHighBytes
<1>. HIDE DEF w
<1>6. CASE Stage(c) = 0
  <2>1. Looks(c, do_60(c), c.S, c.PC, c.status, c.AD, c.PC)
    BY <1>6, SimpleLooks DEF do_60
  <2>2. ~d.SYNC /\ n = m /\ Stage(d) = 1 /\ Shows(s, d, c.S, c.PC, Seen(c.status))
    BY <1>2, <1>6, <2>1, LookTurns
  <2>. QED  BY <1>2, <1>6, <2>2 DEF ReturnAt
<1>7. CASE Stage(c) \in 1..2
  <2>1. Looks(c, do_60(c), U8(c.S + 1), c.PC, c.status, c.AD, 256 + c.S)
    BY <1>7, SimpleLooks DEF do_60
  <2>2. /\ ~d.SYNC /\ n = m /\ d.data_bus = Read(m, 256 + c.S) /\ Stage(d) = Stage(c) + 1
        /\ Shows(s, d, U8(c.S + 1), c.PC, Seen(c.status))
    BY <1>2, <1>7, <2>1, LookTurns
  <2>3. CASE Stage(c) = 1
    <3>1. Stage(d) = 2 /\ U8(c.S + 1) = Top(s, 1) /\ c.PC = At(s, 1)
      BY <1>2, <1>3, <2>2, <2>3
    <3>. QED  BY <1>2, <2>2, <3>1 DEF ReturnAt
  <2>4. CASE Stage(c) = 2
    <3>1. Stage(d) = 3 /\ c.S = Top(s, 1) /\ U8(c.S + 1) = Top(s, 2) /\ c.PC = At(s, 1)
      BY <1>2, <1>3, <2>2, <2>4
    <3>. QED  BY <1>2, <2>2, <3>1 DEF ReturnAt, OnStack
  <2>. QED  BY <1>7, <2>3, <2>4
<1>8. CASE Stage(c) = 3
  <2>. DEFINE o == [c EXCEPT !.AD = c.data_bus, !.addr_bus = STACK_TOP_ADDR + c.S]
  <2>1. do_60(c) = o
    BY <1>8 DEF do_60
  <2>2. Looks(c, o, c.S, c.PC, c.status, c.data_bus, 256 + c.S)
    BY DEF Running, Machine, Looks, STACK_TOP_ADDR
  <2>. HIDE DEF o
  <2>3. /\ ~d.SYNC /\ n = m /\ d.data_bus = Read(m, 256 + c.S) /\ d.AD = c.data_bus
        /\ Stage(d) = Stage(c) + 1
        /\ Shows(s, d, c.S, c.PC, Seen(c.status))
    BY <1>2, <1>8, <2>1, <2>2, LookTurns
  <2>4. Stage(d) = 4 /\ c.S = Top(s, 2) /\ c.PC = At(s, 1)
    BY <1>2, <1>8, <2>3
  <2>. QED  BY <1>2, <1>8, <2>3, <2>4 DEF ReturnAt, OnStack
<1>9. CASE Stage(c) = 4
  <2>. DEFINE o == NextByte([c EXCEPT !.PC = OrHigh(c.AD, c.data_bus)])
  <2>1. do_60(c) = o
    BY <1>9 DEF do_60
  <2>2. OrHigh(c.AD, c.data_bus) = l + 256 * h
    BY <1>2, <1>5, <1>9
  <2>3. Looks(c, o, c.S, w, c.status, c.AD, l + 256 * h)
    BY <2>2 DEF Running, Machine, Looks, NextByte, w
  <2>. HIDE DEF o
  <2>4. /\ ~d.SYNC /\ n = m /\ Stage(d) = Stage(c) + 1
        /\ Shows(s, d, c.S, w, Seen(c.status))
    BY <1>2, <1>9, <2>1, <2>3, LookTurns
  <2>5. Stage(d) = 5 /\ c.S = Top(s, 2)
    BY <1>2, <1>9, <2>4
  <2>. QED  BY <1>2, <1>9, <2>4, <2>5 DEF ReturnAt, w
<1>10. CASE Stage(c) = 5
  <2>1. do_60(c) = fetch(c)
    BY <1>10 DEF do_60
  <2>2. d.SYNC /\ n = m /\ Visible(d) = Visible(c)
    BY <2>1, FetchTurns
  <2>3. Shows(s, c, Top(s, 2), w, s.r.status)
    BY <1>2, <1>10
  <2>4. Visible(c) = Regs(s.r.A, s.r.X, s.r.Y, Top(s, 2), w, s.r.status)
    BY <2>3, ShownVisible
  <2>5. Program!Executed(s, "RTS", mode) =
          State(s.r.A, s.r.X, s.r.Y, Top(s, 2), w, s.r.status, s.m)
    BY ReturnExecuted DEF w
  <2>. QED  BY <1>2, <2>2, <2>4, <2>5 DEF Retires, State
<1>. QED  BY <1>1, <1>6, <1>7, <1>8, <1>9, <1>10

LEMMA InterruptReturnStep ==
  ASSUME NEW c, NEW s, NEW m, NEW d, NEW n, Running(c), IsState(s), NEW mode,
         RtiAt(s, c, m, Stage(c)), Stage(c) <= 5, Turned(c, m, do_40(c), d, n)
  PROVE  IF d.SYNC THEN Retires(s, d, n, "RTI", mode) ELSE RtiAt(s, d, n, Stage(d))
<1>. DEFINE t == OnStack(s, 1)
            l == OnStack(s, 2)
            h == OnStack(s, 3)
            w == l + 256 * h
<1>1. Stage(c) \in 0..5 /\ c \in Machine
  BY StageType DEF Running
<1>2. /\ Shows(s, c, c.S, c.PC, Seen(c.status)) /\ m = s.m
      /\ c.S = (CASE Stage(c) <= 1 -> s.r.S [] Stage(c) = 2 -> Top(s, 1)
                  [] Stage(c) = 3 -> Top(s, 2) [] OTHER -> Top(s, 3))
      /\ Seen(c.status) = (IF Stage(c) <= 3 THEN s.r.status ELSE Bits(t) \ {BF, XF})
      /\ Stage(c) = 3 => c.data_bus = t
      /\ Stage(c) = 4 => c.data_bus = l
      /\ Stage(c) = 5 => c.data_bus = h /\ Low(c.PC) = l
  BY ShowsItself DEF RtiAt
<1>3. U8(s.r.S + 1) = Top(s, 1) /\ U8(Top(s, 1) + 1) = Top(s, 2) /\ U8(Top(s, 2) + 1) = Top(s, 3)
  BY TopMovesBack
<1>4. l \in Byte /\ h \in Byte
  BY AddressTypes
<1>5. w \in Word
  BY <1>4, Assembled
<1>. HIDE DEF w
<1>6. CASE Stage(c) = 0
  <2>1. Looks(c, do_40(c), c.S, c.PC, c.status, c.AD, c.PC)
    BY <1>6, SimpleLooks DEF do_40
  <2>2. ~d.SYNC /\ n = m /\ Stage(d) = 1 /\ Shows(s, d, c.S, c.PC, Seen(c.status))
    BY <1>2, <1>6, <2>1, LookTurns
  <2>3. Shows(s, d, c.S, d.PC, Seen(c.status))
    BY <2>2 DEF Shows
  <2>. QED  BY <1>2, <1>6, <2>2, <2>3 DEF RtiAt
<1>7. CASE Stage(c) \in 1..2
  <2>1. Looks(c, do_40(c), U8(c.S + 1), c.PC, c.status, c.AD, 256 + c.S)
    BY <1>7, SimpleLooks DEF do_40
  <2>2. /\ ~d.SYNC /\ n = m /\ d.data_bus = Read(m, 256 + c.S) /\ Stage(d) = Stage(c) + 1
        /\ Shows(s, d, U8(c.S + 1), c.PC, Seen(c.status))
    BY <1>2, <1>7, <2>1, LookTurns
  <2>3. Shows(s, d, U8(c.S + 1), d.PC, Seen(c.status))
    BY <2>2 DEF Shows
  <2>4. CASE Stage(c) = 1
    <3>1. Stage(d) = 2 /\ U8(c.S + 1) = Top(s, 1)
      BY <1>2, <1>3, <2>2, <2>4
    <3>. QED  BY <1>2, <2>2, <2>3, <2>4, <3>1 DEF RtiAt
  <2>5. CASE Stage(c) = 2
    <3>1. Stage(d) = 3 /\ c.S = Top(s, 1) /\ U8(c.S + 1) = Top(s, 2)
      BY <1>2, <1>3, <2>2, <2>5
    <3>. QED  BY <1>2, <2>2, <2>3, <2>5, <3>1 DEF RtiAt, OnStack
  <2>. QED  BY <1>7, <2>4, <2>5
<1>8. CASE Stage(c) = 3
  <2>. DEFINE status == (Bits(c.data_bus) \cup {BF}) \ {XF}
              o == [PopNext(c) EXCEPT !.status = status]
  <2>1. do_40(c) = o
    BY <1>8 DEF do_40
  <2>2. Seen(status) = Bits(t) \ {BF, XF}
    BY <1>2, <1>8 DEF Seen
  <2>. HIDE DEF status
  <2>3. Looks(c, o, U8(c.S + 1), c.PC, status, c.AD, 256 + c.S)
    BY DEF Running, Machine, Looks, PopNext, STACK_TOP_ADDR
  <2>. HIDE DEF o
  <2>4. /\ ~d.SYNC /\ n = m /\ d.data_bus = Read(m, 256 + c.S) /\ Stage(d) = Stage(c) + 1
        /\ Shows(s, d, U8(c.S + 1), c.PC, Seen(status))
    <3>1. Turned(c, m, o, d, n) /\ Shows(s, c, c.S, c.PC, Seen(c.status))
      BY <1>2, <2>1
    <3>. QED  BY <2>3, <3>1, LookTurns
  <2>5. Stage(d) = 4 /\ c.S = Top(s, 2) /\ U8(c.S + 1) = Top(s, 3)
    BY <1>2, <1>3, <1>8, <2>4
  <2>6. Shows(s, d, Top(s, 3), d.PC, Bits(t) \ {BF, XF})
    BY <2>2, <2>4, <2>5 DEF Shows
  <2>. QED  BY <1>2, <2>4, <2>5, <2>6 DEF RtiAt, OnStack
<1>9. CASE Stage(c) = 4
  <2>. DEFINE pc == 256 * High(c.PC) + c.data_bus
              o == [c EXCEPT !.addr_bus = STACK_TOP_ADDR + c.S, !.PC = 256 * High(@) + c.data_bus]
  <2>1. do_40(c) = o
    BY <1>9 DEF do_40
  <2>2. Looks(c, o, c.S, pc, c.status, c.AD, 256 + c.S)
    BY DEF Running, Machine, Looks, STACK_TOP_ADDR
  <2>3. Low(pc) = l
    <3>1. c.data_bus = l /\ High(c.PC) \in Byte
      BY <1>1, <1>2, <1>9, FieldTypes, BytesOfWord
    <3>2. \A a, b \in Byte : Low(a + 256 * b) = a /\ a + 256 * b = 256 * b + a
      <4>1. \A a, b \in Byte : a + 256 * b = 256 * b + a
        BY DEF Byte
      <4>. QED  BY <4>1, Assembled
    <3>. QED  BY <1>4, <3>1, <3>2
  <2>. HIDE DEF o, pc
  <2>4. /\ ~d.SYNC /\ n = m /\ d.data_bus = Read(m, 256 + c.S) /\ Stage(d) = Stage(c) + 1
        /\ Shows(s, d, c.S, pc, Seen(c.status))
    BY <1>2, <1>9, <2>1, <2>2, LookTurns
  <2>5. Stage(d) = 5 /\ c.S = Top(s, 3)
    BY <1>2, <1>9, <2>4
  <2>6. Shows(s, d, Top(s, 3), d.PC, Bits(t) \ {BF, XF}) /\ d.PC = pc
    BY <1>2, <1>9, <2>4, <2>5 DEF Shows
  <2>. QED  BY <1>2, <2>3, <2>4, <2>5, <2>6 DEF RtiAt, OnStack
<1>10. CASE Stage(c) = 5
  <2>1. 256 * c.data_bus + Low(c.PC) = w
    <3>1. \A a, b \in Byte : 256 * b + a = a + 256 * b
      BY DEF Byte
    <3>. QED  BY <1>2, <1>4, <1>10, <3>1 DEF w
  <2>2. do_40(c) = fetch(Arrived(c, w))
    BY <1>10, <2>1 DEF do_40, Arrived
  <2>3. Turned(c, m, fetch(Arrived(c, w)), d, n) /\ Shows(s, c, c.S, c.PC, Seen(c.status))
    BY <1>2, <2>2
  <2>4. /\ d.SYNC /\ n = m
        /\ Visible(d) = Regs(s.r.A, s.r.X, s.r.Y, c.S, w, Seen(c.status))
    BY <1>5, <2>3, JumpTurns
  <2>5. Program!Executed(s, "RTI", mode) =
          State(s.r.A, s.r.X, s.r.Y, Top(s, 3), w, Bits(t) \ {BF, XF}, s.m)
    BY ReturnExecuted DEF w
  <2>6. c.S = Top(s, 3) /\ Seen(c.status) = Bits(t) \ {BF, XF}
    BY <1>2, <1>10
  <2>. QED  BY <1>2, <2>4, <2>5, <2>6 DEF Retires, State
<1>. QED  BY <1>1, <1>6, <1>7, <1>8, <1>9, <1>10

----------------------------------------------------------------------------
(* BRK, and the reset, which may begin in the middle of it. *)

(* A stack cycle of BRK: a push, unless a reset makes a read of it. *)
BreakPushes(c, d, PC, b) ==
  /\ d.A = c.A /\ d.X = c.X /\ d.Y = c.Y /\ d.status = c.status
  /\ d.S = U8(c.S - 1) /\ d.PC = PC
  /\ d.addr_bus = 256 + c.S /\ d.data_bus = b
  /\ d.RW <=> Resetting(c)
  /\ ~d.SYNC /\ d.IR = c.IR

LEMMA PushUnlessResetPushes ==
  ASSUME NEW c, Running(c), NEW b
  PROVE  LET d == PushUnlessReset(c, b)
         IN  /\ BreakPushes(c, d, c.PC, b)
             /\ d.AD = c.AD /\ d.break_status = c.break_status /\ d.RES = c.RES
<1>. DEFINE p == push_stack(c, b)
            reset == "RST" \in c.break_status
            d == PushUnlessReset(c, b)
<1>1. /\ p.A = c.A /\ p.X = c.X /\ p.Y = c.Y /\ p.S = U8(c.S - 1) /\ p.PC = c.PC
      /\ p.status = c.status /\ p.AD = c.AD /\ p.addr_bus = 256 + c.S
      /\ p.data_bus = b /\ ~p.SYNC /\ p.IR = c.IR
      /\ p.break_status = c.break_status /\ p.RES = c.RES
      /\ DOMAIN p = DOMAIN c
  BY DEF Running, Machine, push_stack, STACK_TOP_ADDR
<1>2. d = [p EXCEPT !.RW = reset]
  BY DEF PushUnlessReset
<1>. HIDE DEF p, d, reset
<1>3. DOMAIN c = {"A", "X", "Y", "S", "PC", "status", "IR", "AD", "break_status", "addr_bus",
                  "data_bus", "RW", "SYNC", "RES"}
  BY DEF Running, Machine
<1>4. /\ d.A = p.A /\ d.X = p.X /\ d.Y = p.Y /\ d.S = p.S /\ d.PC = p.PC
      /\ d.status = p.status /\ d.AD = p.AD /\ d.addr_bus = p.addr_bus
      /\ d.data_bus = p.data_bus /\ d.SYNC = p.SYNC /\ d.IR = p.IR
      /\ d.break_status = p.break_status /\ d.RES = p.RES /\ d.RW = reset
  BY <1>1, <1>2, <1>3
<1>. QED  BY <1>1, <1>4 DEF BreakPushes, Resetting, reset, d

LEMMA BreakTurns ==
  ASSUME NEW c, NEW s, NEW m, NEW d, NEW n, NEW ran, Running(c), Turned(c, m, ran, d, n),
         NEW PC, NEW b, BreakPushes(c, ran, PC, b),
         NEW S, NEW old, NEW status, Shows(s, c, S, old, status)
  PROVE  /\ ~d.SYNC /\ Stage(d) = Stage(c) + 1
         /\ Shows(s, d, U8(S - 1), PC, status)
         /\ n = IF Resetting(c) THEN m ELSE Store(m, 256 + S, b)
         /\ d.AD = ran.AD /\ d.break_status = ran.break_status
<1>1. c.IR \in Int /\ Stage(c) \in Int
  BY StageType DEF Running, Machine
<1>. QED  BY <1>1 DEF Turned, BreakPushes, Shows

(* What the first cycles of BRK find. *)
LEMMA BreakFound ==
  ASSUME NEW c, NEW s, NEW m, IsState(s), BreakAt(s, c, m, Stage(c)), Stage(c) \in 0..3
  PROVE  /\ Breaking(s, c, m, Stage(c))
         /\ Shows(s, c, Top(s, IF Stage(c) <= 1 THEN 0 ELSE IF Stage(c) = 2 THEN -1 ELSE -2),
                  c.PC, s.r.status)
<1>1. Top(s, 0) = s.r.S
  BY TopMoves
<1>2. Stage(c) \in 0..1 \/ Stage(c) = 2 \/ Stage(c) = 3
  OBVIOUS
<1>3. Breaking(s, c, m, Stage(c)) /\ Stage(c) <= 4
  BY DEF BreakAt
<1>4. CASE Stage(c) \in 0..1
  BY <1>1, <1>3, <1>4 DEF BreakAt
<1>5. CASE Stage(c) = 2
  BY <1>3, <1>5 DEF BreakAt
<1>6. CASE Stage(c) = 3
  BY <1>3, <1>6 DEF BreakAt
<1>. QED  BY <1>2, <1>3, <1>4, <1>5, <1>6

(***************************************************************************)
(* What is in memory after the k-th cycle, when the cycle was the last but *)
(* p: the next byte is there if no reset came, and what was there if one   *)
(* did.                                                                    *)
(***************************************************************************)
LEMMA BreakWrites ==
  ASSUME NEW c, NEW s, NEW m, Breaking(s, c, m, Stage(c)), Stage(c) \in 1..3,
         NEW p, p = Stage(c) - 1
  PROVE  /\ Resetting(c) \/ (IsBreak(s) /\ c.PC = At(s, IF Stage(c) = 1 THEN 1 ELSE 2)
                             /\ m = Before(s, p))
         /\ Resetting(c) => \E q \in 0..(IF IsBreak(s) THEN p ELSE 0) : m = Before(s, q)
         /\ p \in 0..2
BY DEF Breaking

LEMMA BreakFirst ==
  ASSUME NEW c, NEW s, NEW m, NEW d, NEW n, Running(c), IsState(s),
         BreakAt(s, c, m, Stage(c)), Stage(c) = 0, Turned(c, m, do_00(c), d, n)
  PROVE  ~d.SYNC /\ BreakAt(s, d, n, Stage(d)) /\ d.break_status = c.break_status
<1>1. Breaking(s, c, m, 0) /\ Shows(s, c, s.r.S, c.PC, s.r.status)
  BY BreakFound, TopMoves
<1>2. Looks(c, do_00(c), c.S, c.PC, c.status, c.AD, c.PC)
  BY SimpleLooks DEF do_00
<1>3. do_00(c).break_status = c.break_status
  BY DEF do_00, IdleRead, Running, Machine
<1>4. /\ Shows(s, c, c.S, c.PC, Seen(c.status))
      /\ c.S = s.r.S /\ Seen(c.status) = s.r.status
  BY <1>1, ShowsItself
<1>5. /\ ~d.SYNC /\ n = m /\ Stage(d) = Stage(c) + 1
      /\ d.break_status = c.break_status
      /\ Shows(s, d, c.S, c.PC, Seen(c.status))
  BY <1>2, <1>3, <1>4, LookTurns
<1>6. Stage(d) = 1 /\ d.PC = c.PC
  BY <1>5 DEF Shows
<1>7. Breaking(s, d, n, 1)
  BY <1>1, <1>5, <1>6 DEF Breaking, Resetting
<1>. QED  BY <1>4, <1>5, <1>6, <1>7 DEF BreakAt

(* The memory before each of the stack cycles, and where S is. *)
LEMMA BreakStack ==
  ASSUME NEW s, IsState(s)
  PROVE  /\ Before(s, 1) = Store(Before(s, 0), 256 + Top(s, 0), High(At(s, 2)))
         /\ Before(s, 2) = Store(Before(s, 1), 256 + Top(s, -1), Low(At(s, 2)))
         /\ PushedAll(s) = Store(Before(s, 2), 256 + Top(s, -2),
                                 ByteOf(s.r.status \cup {BF, XF}))
         /\ U8(Top(s, 0) - 1) = Top(s, -1) /\ U8(Top(s, -1) - 1) = Top(s, -2)
         /\ U8(Top(s, -2) - 1) = Top(s, -3)
BY TopMoves DEF Before, PushedHigh, PushedBoth, PushedAll

(* One of the first two stack cycles: the next byte, or a read. *)
LEMMA BreakPush ==
  ASSUME NEW c, NEW s, NEW m, NEW d, NEW n, Running(c), IsState(s),
         BreakAt(s, c, m, Stage(c)), Stage(c) \in 1..2,
         NEW ran, Turned(c, m, ran, d, n), NEW PC, NEW b,
         BreakPushes(c, ran, PC, b), ran.break_status = c.break_status,
         Resetting(c) \/ (PC = At(s, 2) /\ b = IF Stage(c) = 1 THEN High(PC) ELSE Low(PC))
  PROVE  ~d.SYNC /\ BreakAt(s, d, n, Stage(d)) /\ d.break_status = c.break_status
<1>. DEFINE p == Stage(c) - 1
            S == Top(s, IF Stage(c) = 1 THEN 0 ELSE -1)
            S2 == Top(s, IF Stage(c) = 1 THEN -1 ELSE -2)
<1>1. Stage(c) \in 1..3 /\ Stage(c) \in 0..3 /\ (Stage(c) = 1 \/ Stage(c) = 2)
  OBVIOUS
<1>2. /\ Breaking(s, c, m, Stage(c)) /\ Shows(s, c, S, c.PC, s.r.status)
  BY <1>1, BreakFound
<1>3. /\ Resetting(c) \/ (IsBreak(s) /\ m = Before(s, p))
      /\ Resetting(c) => \E q \in 0..(IF IsBreak(s) THEN p ELSE 0) : m = Before(s, q)
  BY <1>1, <1>2, BreakWrites
<1>4. U8(S - 1) = S2
  BY <1>1, BreakStack
<1>. HIDE DEF S, S2
<1>5. /\ ~d.SYNC /\ Stage(d) = Stage(c) + 1
      /\ Shows(s, d, U8(S - 1), PC, s.r.status)
      /\ n = IF Resetting(c) THEN m ELSE Store(m, 256 + S, b)
      /\ d.break_status = ran.break_status
  BY <1>2, BreakTurns
<1>6. Resetting(d) <=> Resetting(c)
  BY <1>5 DEF Resetting
<1>7. d.PC = PC
  BY <1>5 DEF Shows
<1>8. CASE Stage(c) = 1
  <2>1. Stage(d) = 2 /\ S = Top(s, 0) /\ S2 = Top(s, -1) /\ p = 0
    BY <1>5, <1>8 DEF S, S2
  <2>2. Breaking(s, d, n, 2)
    <3>1. CASE Resetting(c)
      <4>1. n = m /\ \E q \in 0..1 : q = 0 /\ m = Before(s, q)
        BY <1>3, <1>5, <2>1, <3>1
      <4>2. \E q \in 0..(IF IsBreak(s) THEN 1 ELSE 0) : n = Before(s, q)
        BY <4>1
      <4>. QED  BY <1>6, <3>1, <4>2 DEF Breaking
    <3>2. CASE ~Resetting(c)
      <4>1. IsBreak(s) /\ m = Before(s, 0) /\ n = Store(m, 256 + S, High(At(s, 2)))
            /\ PC = At(s, 2)
        BY <1>3, <1>5, <1>8, <2>1, <3>2
      <4>2. n = Before(s, 1)
        BY <2>1, <4>1, BreakStack
      <4>. QED  BY <1>7, <4>1, <4>2 DEF Breaking
    <3>. QED  BY <3>1, <3>2
  <2>3. Shows(s, d, Top(s, -1), d.PC, s.r.status)
    BY <1>4, <1>5, <1>7, <2>1
  <2>. QED  BY <1>5, <2>1, <2>2, <2>3 DEF BreakAt
<1>9. CASE Stage(c) = 2
  <2>1. Stage(d) = 3 /\ S = Top(s, -1) /\ S2 = Top(s, -2) /\ p = 1
    BY <1>5, <1>9 DEF S, S2
  <2>2. Breaking(s, d, n, 3)
    <3>1. CASE Resetting(c)
      <4>1. PICK q \in 0..(IF IsBreak(s) THEN 1 ELSE 0) : n = Before(s, q)
        BY <1>3, <1>5, <2>1, <3>1
      <4>2. \E r \in 0..(IF IsBreak(s) THEN 2 ELSE 0) : n = Before(s, r)
        BY <4>1
      <4>. QED  BY <1>6, <3>1, <4>2 DEF Breaking
    <3>2. CASE ~Resetting(c)
      <4>1. IsBreak(s) /\ m = Before(s, 1) /\ n = Store(m, 256 + S, Low(At(s, 2)))
            /\ PC = At(s, 2)
        BY <1>3, <1>5, <1>9, <2>1, <3>2
      <4>2. n = Before(s, 2)
        BY <2>1, <4>1, BreakStack
      <4>. QED  BY <1>7, <4>1, <4>2 DEF Breaking
    <3>. QED  BY <3>1, <3>2
  <2>3. Shows(s, d, Top(s, -2), d.PC, s.r.status)
    BY <1>4, <1>5, <1>7, <2>1
  <2>. QED  BY <1>5, <2>1, <2>2, <2>3 DEF BreakAt
<1>. QED  BY <1>1, <1>8, <1>9

LEMMA BreakPushed ==
  ASSUME NEW c, NEW s, NEW m, NEW d, NEW n, Running(c), IsState(s),
         c.break_status \subseteq {"RST"},
         BreakAt(s, c, m, Stage(c)), Stage(c) \in 1..2, Turned(c, m, do_00(c), d, n)
  PROVE  ~d.SYNC /\ BreakAt(s, d, n, Stage(d)) /\ d.break_status = c.break_status
<1>1. Breaking(s, c, m, Stage(c)) /\ Stage(c) \in 1..3
  BY BreakFound
<1>2. c.break_status = {} <=> ~Resetting(c)
  BY DEF Resetting
<1>3. Resetting(c) \/ c.PC = At(s, IF Stage(c) = 1 THEN 1 ELSE 2)
  BY <1>1, BreakWrites
<1>4. CASE Stage(c) = 1 /\ ~Resetting(c)
  <2>. DEFINE PC == U16(c.PC + 1)
              e  == Arrived(c, PC)
  <2>1. do_00(c) = PushUnlessReset(e, High(e.PC))
    BY <1>2, <1>4 DEF do_00, Arrived
  <2>2. PC \in Word
    <3>1. c.PC \in Word
      BY FieldTypes DEF Running
    <3>2. \A w \in Word : w + 1 \in Int
      BY DEF Word
    <3>. QED  BY <3>1, <3>2, U16Type
  <2>. HIDE DEF PC
  <2>3. /\ Running(e) /\ e.PC = PC /\ e.A = c.A /\ e.X = c.X /\ e.Y = c.Y /\ e.S = c.S
        /\ e.status = c.status /\ e.IR = c.IR /\ e.break_status = c.break_status
    BY <2>2 DEF Running, Machine, Arrived
  <2>. HIDE DEF e
  <2>4. /\ BreakPushes(e, do_00(c), PC, High(PC))
        /\ do_00(c).break_status = e.break_status
    BY <2>1, <2>3, PushUnlessResetPushes
  <2>5. BreakPushes(c, do_00(c), PC, High(PC)) /\ do_00(c).break_status = c.break_status
    BY <2>3, <2>4 DEF BreakPushes, Resetting
  <2>6. PC = At(s, 2)
    BY <1>3, <1>4, AtMovesOn DEF PC
  <2>. QED  BY <1>4, <2>5, <2>6, BreakPush
<1>5. CASE Stage(c) = 1 /\ Resetting(c)
  <2>1. do_00(c) = PushUnlessReset(c, High(c.PC))
    BY <1>2, <1>5 DEF do_00
  <2>2. BreakPushes(c, do_00(c), c.PC, High(c.PC)) /\ do_00(c).break_status = c.break_status
    BY <2>1, PushUnlessResetPushes
  <2>. QED  BY <1>5, <2>2, BreakPush
<1>6. CASE Stage(c) = 2
  <2>1. do_00(c) = PushUnlessReset(c, Low(c.PC))
    BY <1>6 DEF do_00
  <2>2. BreakPushes(c, do_00(c), c.PC, Low(c.PC)) /\ do_00(c).break_status = c.break_status
    BY <2>1, PushUnlessResetPushes
  <2>3. Resetting(c) \/ c.PC = At(s, 2)
    BY <1>3, <1>6
  <2>. QED  BY <1>6, <2>2, <2>3, BreakPush
<1>. QED  BY <1>4, <1>5, <1>6

(* The last stack cycle: from here on the vector is settled. *)
LEMMA BreakVectors ==
  ASSUME NEW c, NEW s, NEW m, NEW d, NEW n, Running(c), IsState(s),
         c.break_status \subseteq {"RST"},
         BreakAt(s, c, m, Stage(c)), Stage(c) = 3, Turned(c, m, do_00(c), d, n)
  PROVE  ~d.SYNC /\ BreakAt(s, d, n, Stage(d)) /\ d.break_status = {}
<1>. DEFINE b == StatusByte(c)
            p == PushUnlessReset(c, b)
            v == IF Resetting(c) THEN RESET_VECTOR_ADDR ELSE IRQ_VECTOR_ADDR
            o == [p EXCEPT !.AD = v, !.RES = TRUE, !.break_status = {}]
<1>1. do_00(c) = o
  <2>1. /\ Stage(c) # 0 /\ Stage(c) # 1 /\ Stage(c) # 2
        /\ Stage(c) # 4 /\ Stage(c) # 5 /\ Stage(c) # 6
    OBVIOUS
  <2>2. (CASE "RST" \in c.break_status -> RESET_VECTOR_ADDR
           [] "NMI" \in c.break_status -> NMI_VECTOR_ADDR
           [] OTHER                    -> IRQ_VECTOR_ADDR) = v
    <3>1. "NMI" \notin c.break_status
      OBVIOUS
    <3>. QED  BY <3>1 DEF Resetting
  <2>. HIDE DEF v
  <2>. QED  BY <2>1, <2>2, Zenon DEF do_00
<1>2. BreakPushes(c, p, c.PC, b)
  BY PushUnlessResetPushes
<1>3. {"A", "X", "Y", "S", "PC", "status", "IR", "AD", "break_status", "addr_bus",
       "data_bus", "RW", "SYNC", "RES"} = DOMAIN p
  BY DEF Running, Machine, PushUnlessReset, push_stack
<1>. HIDE DEF p, b, v
<1>4. BreakPushes(c, o, c.PC, b) /\ o.AD = v /\ o.break_status = {}
  BY <1>2, <1>3 DEF BreakPushes
<1>5. Breaking(s, c, m, 3) /\ Shows(s, c, Top(s, -2), c.PC, s.r.status)
  BY BreakFound
<1>6. /\ Resetting(c) \/ (IsBreak(s) /\ m = Before(s, 2))
      /\ Resetting(c) => \E q \in 0..(IF IsBreak(s) THEN 2 ELSE 0) : m = Before(s, q)
  BY <1>5 DEF Breaking
<1>7. b = ByteOf(s.r.status \cup {BF, XF})
  <2>1. c.status \cup {BF, XF} = s.r.status \cup {BF, XF}
    BY <1>5 DEF Shows
  <2>. QED  BY <2>1 DEF StatusByte, b
<1>. HIDE DEF o
<1>8. /\ ~d.SYNC /\ Stage(d) = 4
      /\ Shows(s, d, Top(s, -3), c.PC, s.r.status)
      /\ n = IF Resetting(c) THEN m ELSE Store(m, 256 + Top(s, -2), b)
      /\ d.AD = v /\ d.break_status = {}
  <2>1. Turned(c, m, o, d, n)
    BY <1>1
  <2>2. /\ ~d.SYNC /\ Stage(d) = Stage(c) + 1
        /\ Shows(s, d, U8(Top(s, -2) - 1), c.PC, s.r.status)
        /\ n = IF Resetting(c) THEN m ELSE Store(m, 256 + Top(s, -2), b)
        /\ d.AD = o.AD /\ d.break_status = o.break_status
    BY <1>4, <1>5, <2>1, BreakTurns
  <2>3. Stage(c) + 1 = 4 /\ U8(Top(s, -2) - 1) = Top(s, -3)
    <3>1. Stage(c) + 1 = 4
      OBVIOUS
    <3>. QED  BY <3>1, BreakStack
  <2>. QED  BY <1>4, <2>2, <2>3
<1>9. Vectored(s, v, n)
  <2>1. CASE Resetting(c)
    BY <1>6, <1>8, <2>1 DEF Vectored, v
  <2>2. CASE ~Resetting(c)
    <3>1. n = PushedAll(s) /\ v = IRQ_VECTOR_ADDR /\ IsBreak(s)
      BY <1>6, <1>7, <1>8, <2>2, BreakStack DEF v
    <3>. QED  BY <3>1 DEF Vectored
  <2>. QED  BY <2>1, <2>2
<1>10. Shows(s, d, Top(s, -3), d.PC, s.r.status)
  BY <1>8 DEF Shows
<1>. QED  BY <1>8, <1>9, <1>10 DEF BreakAt

LEMMA VectoredAddress ==
  ASSUME NEW s, NEW m, NEW v, Vectored(s, v, m)
  PROVE  /\ v \in {IRQ_VECTOR_ADDR, RESET_VECTOR_ADDR} /\ v \in Word /\ v + 1 \in Word
         /\ U16(v + 1) = v + 1 /\ (v + 1) - 1 = v
<1>1. v = IRQ_VECTOR_ADDR \/ v = RESET_VECTOR_ADDR
  BY DEF Vectored
<1>2. CASE v = IRQ_VECTOR_ADDR
  <2>1. v = 65534
    BY <1>2 DEF IRQ_VECTOR_ADDR
  <2>2. v \in Word /\ v + 1 \in Word /\ U16(v + 1) = v + 1 /\ (v + 1) - 1 = v
    BY <2>1 DEF Word, U16
  <2>. QED  BY <1>1, <2>2
<1>3. CASE v = RESET_VECTOR_ADDR
  <2>1. v = 65532
    BY <1>3 DEF RESET_VECTOR_ADDR
  <2>2. v \in Word /\ v + 1 \in Word /\ U16(v + 1) = v + 1 /\ (v + 1) - 1 = v
    BY <2>1 DEF Word, U16
  <2>. QED  BY <1>1, <2>2
<1>. QED  BY <1>1, <1>2, <1>3

(* The two cycles that read the vector. *)
LEMMA BreakReads ==
  ASSUME NEW c, NEW s, NEW m, NEW d, NEW n, Running(c), IsState(s),
         BreakAt(s, c, m, Stage(c)), Stage(c) \in 4..5, Turned(c, m, do_00(c), d, n)
  PROVE  ~d.SYNC /\ BreakAt(s, d, n, Stage(d)) /\ d.break_status = c.break_status
<1>1. CASE Stage(c) = 4
  <2>. DEFINE v == c.AD
              f == c.status \cup {IF_}
              o == [c EXCEPT !.addr_bus = c.AD, !.AD = U16(@ + 1), !.status = @ \cup {IF_}]
  <2>1. do_00(c) = o
    BY <1>1 DEF do_00
  <2>2. Shows(s, c, Top(s, -3), c.PC, s.r.status) /\ Vectored(s, v, m)
    BY <1>1 DEF BreakAt
  <2>3. U16(v + 1) = v + 1 /\ (v + 1) - 1 = v
    BY <2>2, VectoredAddress
  <2>4. Looks(c, o, c.S, c.PC, f, U16(v + 1), v) /\ o.break_status = c.break_status
    BY DEF Running, Machine, Looks
  <2>5. Seen(f) = s.r.status \cup {IF_}
    <3>1. Seen(c.status) = s.r.status
      BY <2>2, ShowsItself
    <3>2. Seen(c.status \cup {IF_}) = Seen(c.status) \cup {IF_}
      BY SeenFlags
    <3>. QED  BY <3>1, <3>2
  <2>6. Turned(c, m, o, d, n) /\ Shows(s, c, c.S, c.PC, Seen(c.status)) /\ c.S = Top(s, -3)
    BY <2>1, <2>2, ShowsItself
  <2>. HIDE DEF o, f, v
  <2>7. /\ ~d.SYNC /\ n = m /\ d.data_bus = Read(m, v) /\ d.AD = U16(v + 1)
        /\ d.break_status = o.break_status
        /\ Stage(d) = Stage(c) + 1
        /\ Shows(s, d, c.S, c.PC, Seen(f))
    BY <2>4, <2>6, LookTurns
  <2>8. Shows(s, d, Top(s, -3), d.PC, s.r.status \cup {IF_})
    BY <2>5, <2>6, <2>7 DEF Shows
  <2>9. Stage(d) = 5 /\ d.AD - 1 = v
    BY <1>1, <2>3, <2>7
  <2>. QED  BY <2>2, <2>4, <2>7, <2>8, <2>9 DEF BreakAt
<1>2. CASE Stage(c) = 5
  <2>. DEFINE v == c.AD - 1
              o == [c EXCEPT !.addr_bus = c.AD, !.AD = c.data_bus]
  <2>1. do_00(c) = o
    BY <1>2 DEF do_00
  <2>2. /\ Shows(s, c, Top(s, -3), c.PC, s.r.status \cup {IF_}) /\ Vectored(s, v, m)
        /\ c.data_bus = Read(m, v)
    BY <1>2 DEF BreakAt
  <2>3. v + 1 = c.AD
    <3>1. c.AD \in Word
      BY FieldTypes DEF Running
    <3>2. \A w \in Word : (w - 1) + 1 = w
      BY DEF Word
    <3>. QED  BY <3>1, <3>2
  <2>4. Looks(c, o, c.S, c.PC, c.status, c.data_bus, c.AD) /\ o.break_status = c.break_status
    BY DEF Running, Machine, Looks
  <2>6. /\ Turned(c, m, o, d, n) /\ Shows(s, c, c.S, c.PC, Seen(c.status)) /\ c.S = Top(s, -3)
        /\ Seen(c.status) = s.r.status \cup {IF_}
    BY <2>1, <2>2, ShowsItself
  <2>. HIDE DEF o, v
  <2>7. /\ ~d.SYNC /\ n = m /\ d.data_bus = Read(m, c.AD) /\ d.AD = c.data_bus
        /\ d.break_status = o.break_status
        /\ Stage(d) = Stage(c) + 1
        /\ Shows(s, d, c.S, c.PC, Seen(c.status))
    BY <2>4, <2>6, LookTurns
  <2>8. Shows(s, d, Top(s, -3), d.PC, s.r.status \cup {IF_})
    BY <2>6, <2>7 DEF Shows
  <2>9. Stage(d) = 6 /\ v \in {IRQ_VECTOR_ADDR, RESET_VECTOR_ADDR}
    BY <1>2, <2>2, <2>7, VectoredAddress
  <2>10. Vectored(s, v, n) /\ d.AD = Read(n, v) /\ d.data_bus = Read(n, v + 1)
    BY <2>2, <2>3, <2>7
  <2>. QED  BY <2>4, <2>7, <2>8, <2>9, <2>10 DEF BreakAt
<1>. QED  BY <1>1, <1>2

(* What the sequence of BRK may have come to: BRK itself, or a reset. *)
Restarts(s, d, n) ==
  \/ IsBreak(s) /\ Retires(s, d, n, "BRK", "impl")
  \/ \E p \in 0..(IF IsBreak(s) THEN 2 ELSE 0) :
       [r |-> Visible(d), m |-> n] = Program!AfterReset(s, p)

LEMMA BreakEnds ==
  ASSUME NEW c, NEW s, NEW m, NEW d, NEW n, Running(c), IsState(s), MemoryType(m),
         BreakAt(s, c, m, Stage(c)), Stage(c) = 6, Turned(c, m, do_00(c), d, n)
  PROVE  d.SYNC /\ Restarts(s, d, n) /\ d.break_status = c.break_status
<1>1. Shows(s, c, Top(s, -3), c.PC, s.r.status \cup {IF_})
  BY DEF BreakAt
<1>2. PICK v \in {IRQ_VECTOR_ADDR, RESET_VECTOR_ADDR} :
        Vectored(s, v, m) /\ c.AD = Read(m, v) /\ c.data_bus = Read(m, v + 1)
  BY DEF BreakAt
<1>. DEFINE l == Read(m, v)
            h == Read(m, v + 1)
            w == l + 256 * h
<1>3. l \in Byte /\ h \in Byte
  BY <1>2, VectoredAddress, ReadType
<1>. HIDE DEF l, h
<1>4. w \in Word /\ U16(w) = w /\ OrHigh(l, h) = w
  BY <1>3, Assembled, OrHighBytes
<1>5. do_00(c) = fetch(Arrived(c, w)) /\ Arrived(c, w).break_status = c.break_status
  BY <1>2, <1>4 DEF do_00, Arrived, Running, Machine, l, h
<1>. HIDE DEF w
<1>6. /\ d.SYNC /\ n = m
      /\ Visible(d) = Regs(s.r.A, s.r.X, s.r.Y, Top(s, -3), w, s.r.status \cup {IF_})
  <2>1. Turned(c, m, fetch(Arrived(c, w)), d, n)
    BY <1>5
  <2>. QED  BY <1>1, <1>4, <2>1, JumpTurns
<1>7. d.break_status = c.break_status
  <2>1. Arrived(c, w) \in Machine
    BY <1>4 DEF Arrived, Running, Machine
  <2>2. fetch(Arrived(c, w)).break_status = Arrived(c, w).break_status
    BY <2>1 DEF fetch, Machine
  <2>. QED  BY <1>5, <2>2 DEF Turned
<1>8. CASE IsBreak(s) /\ v = IRQ_VECTOR_ADDR /\ m = PushedAll(s)
  <2>1. U16(Read(m, IRQ_VECTOR_ADDR) + 256 * Read(m, IRQ_VECTOR_ADDR + 1)) = w
    BY <1>4, <1>8 DEF l, h, w
  <2>2. Program!Executed(s, "BRK", "impl") =
          State(s.r.A, s.r.X, s.r.Y, Top(s, -3), w, s.r.status \cup {IF_}, m)
    BY <1>8, <2>1, BreakExecuted
  <2>. QED  BY <1>6, <1>7, <1>8, <2>2 DEF Restarts, Retires, State
<1>9. CASE v = RESET_VECTOR_ADDR /\ \E p \in 0..(IF IsBreak(s) THEN 2 ELSE 0) : m = Before(s, p)
  <2>1. PICK p \in 0..(IF IsBreak(s) THEN 2 ELSE 0) : m = Before(s, p)
    BY <1>9
  <2>2. p \in 0..2
    OBVIOUS
  <2>3. Program!AfterReset(s, p) =
          State(s.r.A, s.r.X, s.r.Y, Top(s, -3), w, s.r.status \cup {IF_}, m)
    BY <1>9, <2>1, <2>2, ResetExecuted DEF l, h, w
  <2>4. [r |-> Visible(d), m |-> n] = Program!AfterReset(s, p)
    BY <1>6, <2>3 DEF State
  <2>. QED  BY <1>6, <1>7, <2>4 DEF Restarts
<1>. QED  BY <1>2, <1>8, <1>9 DEF Vectored

LEMMA BreakStep ==
  ASSUME NEW c, NEW s, NEW m, NEW d, NEW n, Running(c), IsState(s), MemoryType(m),
         c.break_status \subseteq {"RST"},
         BreakAt(s, c, m, Stage(c)), Stage(c) <= 6, Turned(c, m, do_00(c), d, n)
  PROVE  /\ d.break_status \subseteq {"RST"}
         /\ IF d.SYNC THEN Restarts(s, d, n) ELSE BreakAt(s, d, n, Stage(d))
<1>1. Stage(c) \in 0..6
  BY StageType DEF Running
<1>2. CASE Stage(c) = 0
  BY <1>2, BreakFirst
<1>3. CASE Stage(c) \in 1..2
  BY <1>3, BreakPushed
<1>4. CASE Stage(c) = 3
  BY <1>4, BreakVectors
<1>5. CASE Stage(c) \in 4..5
  BY <1>5, BreakReads
<1>6. CASE Stage(c) = 6
  BY <1>6, BreakEnds
<1>. QED  BY <1>1, <1>2, <1>3, <1>4, <1>5, <1>6

----------------------------------------------------------------------------
(* What the table says of stores and of BRK. *)

(***************************************************************************)
(* STX and STY, which are not marked as writing, have no mode that leaves  *)
(* out the cycle of the page crossing; a reset can pass for no opcode but  *)
(* BRK.                                                                    *)
(***************************************************************************)
Regular(code) ==
  /\ opcodes[code][1] = "BRK" => code = 0
  /\ opcodes[code][1] = "JSR" => code = 32
  /\ opcodes[code][1] \in StoreOps =>
       opcodes[code][1] \in WriteOps \/ opcodes[code][2] \notin {"abs_x", "abs_y", "ind_y"}

LEMMA TableRegular == \A code \in Byte : Regular(code)
<1>1. \A code \in 0..15 : Regular(code)
  BY Row0Entries DEF Regular, XX, StoreOps, WriteOps
<1>2. \A code \in 16..31 : Regular(code)
  BY Row1Entries DEF Regular, XX, StoreOps, WriteOps
<1>3. \A code \in 32..47 : Regular(code)
  BY Row2Entries DEF Regular, XX, StoreOps, WriteOps
<1>4. \A code \in 48..63 : Regular(code)
  BY Row3Entries DEF Regular, XX, StoreOps, WriteOps
<1>5. \A code \in 64..79 : Regular(code)
  BY Row4Entries DEF Regular, XX, StoreOps, WriteOps
<1>6. \A code \in 80..95 : Regular(code)
  BY Row5Entries DEF Regular, XX, StoreOps, WriteOps
<1>7. \A code \in 96..111 : Regular(code)
  BY Row6Entries DEF Regular, XX, StoreOps, WriteOps
<1>8. \A code \in 112..127 : Regular(code)
  BY Row7Entries DEF Regular, XX, StoreOps, WriteOps
<1>9. \A code \in 128..143 : Regular(code)
  BY Row8Entries DEF Regular, XX, StoreOps, WriteOps
<1>10. \A code \in 144..159 : Regular(code)
  BY Row9Entries DEF Regular, XX, StoreOps, WriteOps
<1>11. \A code \in 160..175 : Regular(code)
  BY RowAEntries DEF Regular, XX, StoreOps, WriteOps
<1>12. \A code \in 176..191 : Regular(code)
  BY RowBEntries DEF Regular, XX, StoreOps, WriteOps
<1>13. \A code \in 192..207 : Regular(code)
  BY RowCEntries DEF Regular, XX, StoreOps, WriteOps
<1>14. \A code \in 208..223 : Regular(code)
  BY RowDEntries DEF Regular, XX, StoreOps, WriteOps
<1>15. \A code \in 224..239 : Regular(code)
  BY RowEEntries DEF Regular, XX, StoreOps, WriteOps
<1>16. \A code \in 240..255 : Regular(code)
  BY RowFEntries DEF Regular, XX, StoreOps, WriteOps
<1>. QED  BY <1>1, <1>2, <1>3, <1>4, <1>5, <1>6, <1>7, <1>8, <1>9, <1>10, <1>11, <1>12, <1>13, <1>14, <1>15, <1>16 DEF Byte

LEMMA ModesOfHandlers ==
  ASSUME NEW h \in Handlers
  PROVE  /\ h[1] \in BranchOps => h[2] = "rel"
         /\ h[1] \in ImpliedOps \cup {"PHA", "PHP", "PLA", "PLP", "RTS", "RTI", "BRK"} =>
              h[2] = "impl"
         /\ h[1] = "JMP" => h[2] \in {"abs", "ind"}
BY DEF Handlers, ReadOps, StoreOps, ModifyOps, BranchOps, ImpliedOps, FlagOps, RegOps

(* A step of Isa from s to t. *)
Steps(s, t) ==
  \/ Program!Here(s)[1] # "none"
     /\ t = Program!Executed(s, Program!Here(s)[1], Program!Here(s)[2])
  \/ \E k \in 0..(IF Program!Here(s)[1] = "BRK" THEN 2 ELSE 0) : t = Program!AfterReset(s, k)

LEMMA StepsExecuted ==
  ASSUME NEW s, NEW t, NEW op, NEW mode, Program!Here(s)[1] = op, Program!Here(s)[2] = mode,
         op # "none", t = Program!Executed(s, op, mode)
  PROVE  Steps(s, t)
BY Zenon DEF Steps

LEMMA StepsReset ==
  ASSUME NEW s, NEW t, NEW k \in 0..(IF Program!Here(s)[1] = "BRK" THEN 2 ELSE 0),
         t = Program!AfterReset(s, k)
  PROVE  Steps(s, t)
BY Zenon DEF Steps

(* Isa finds at PC the instruction whose handler runs. *)
LEMMA HereHandled ==
  ASSUME NEW s, IsState(s), NEW code \in Byte, code = Read(s.m, s.r.PC), Handler = opcodes,
         Handler[code][1] # "XX"
  PROVE  /\ code # 32 => Program!Here(s) = Handler[code]
         /\ code = 32 => Handler[code] = <<"JSR", "abs">> /\ Program!Here(s) = <<"JSR", "impl">>
         /\ Program!Here(s)[1] = Handler[code][1]
<1>1. Program!Here(s) = Program!Decode(code)
  BY SameMemory DEF Program!Here
<1>2. opcodes[code] # XX
  BY DEF XX
<1>3. CASE code # 32
  <2>1. Agrees(code)
    BY <1>3, OpcodesAgree
  <2>. QED  BY <1>1, <1>2, <1>3, <2>1 DEF Agrees
<1>4. CASE code = 32
  BY <1>1, <1>4, OpcodesAgree
<1>. QED  BY <1>3, <1>4

LEMMA BreakHere ==
  ASSUME NEW s, IsState(s), Handler = opcodes, IsBreak(s)
  PROVE  Program!Here(s) = <<"BRK", "impl">>
<1>1. Program!Here(s) = Program!Decode(0)
  BY SameMemory DEF Program!Here, IsBreak
<1>2. Agrees(0)
  BY OpcodesAgree DEF Byte
<1>3. opcodes[0] = <<"BRK", "impl">> /\ opcodes[0] # XX
  BY HandlerAssumption DEF XX
<1>. QED  BY <1>1, <1>2, <1>3 DEF Agrees

(* A cycle of BRK. *)
LEMMA RunBreak ==
  ASSUME NEW c \in CpuState, NEW s, NEW m, NEW d, NEW n, Running(c), IsState(s),
         MemoryType(m), Handler = opcodes, Stage(c) <= Last(c), Opcode(c) = 0,
         Midway(s, c, m), Turned(c, m, run_opcode(c), d, n)
  PROVE  IF d.SYNC THEN Steps(s, [r |-> Visible(d), m |-> n]) ELSE Midway(s, d, n)
<1>1. run_opcode(c) = do_00(c) /\ Last(c) = 6
  <2>1. Handler[Opcode(c)][1] = "BRK"
    BY HandlerAssumption
  <2>. QED  BY <2>1 DEF run_opcode, Last, LastStage, ReadOps, StoreOps,
                        ModifyOps, ImpliedOps, FlagOps, RegOps, BranchOps
<1>2. c.break_status \subseteq {"RST"} /\ BreakAt(s, c, m, Stage(c)) /\ Stage(c) <= 6
  BY <1>1 DEF CpuState, Midway
<1>3. Turned(c, m, do_00(c), d, n) /\ Opcode(d) = 0
  BY <1>1 DEF Turned
<1>4. IF d.SYNC THEN Restarts(s, d, n) ELSE BreakAt(s, d, n, Stage(d))
  BY <1>2, <1>3, BreakStep
<1>5. CASE d.SYNC
  <2>. DEFINE h == Program!Here(s)
  <2>1. IsBreak(s) => h[1] = "BRK" /\ h[2] = "impl" /\ h[1] # "none"
    <3>1. IsBreak(s) => h = <<"BRK", "impl">>
      BY BreakHere
    <3>. HIDE DEF h
    <3>. QED  BY <3>1
  <2>2. CASE IsBreak(s) /\ Retires(s, d, n, "BRK", "impl")
    <3>1. h[1] = "BRK" /\ h[2] = "impl" /\ "BRK" # "none"
      BY <2>1, <2>2
    <3>2. [r |-> Visible(d), m |-> n] = Program!Executed(s, "BRK", "impl")
      BY <2>2 DEF Retires
    <3>. QED  BY <1>5, <3>1, <3>2, StepsExecuted
  <2>3. CASE \E p \in 0..(IF IsBreak(s) THEN 2 ELSE 0) :
               [r |-> Visible(d), m |-> n] = Program!AfterReset(s, p)
    <3>1. PICK p \in 0..(IF IsBreak(s) THEN 2 ELSE 0) :
            [r |-> Visible(d), m |-> n] = Program!AfterReset(s, p)
      BY <2>3
    <3>2. p \in 0..(IF h[1] = "BRK" THEN 2 ELSE 0)
      <4>1. CASE IsBreak(s)
        BY <2>1, <4>1
      <4>2. CASE ~IsBreak(s)
        BY <4>2
      <4>. QED  BY <4>1, <4>2
    <3>. QED  BY <1>5, <3>1, <3>2, StepsReset
  <2>. QED  BY <1>4, <1>5, <2>2, <2>3 DEF Restarts
<1>6. CASE ~d.SYNC
  BY <1>3, <1>4, <1>6 DEF Midway
<1>. QED  BY <1>5, <1>6

(***************************************************************************)
(* A cycle of any other handler: it ends the instruction as Isa says, or   *)
(* it has come one stage further.                                          *)
(***************************************************************************)
LEMMA HandlerStep ==
  ASSUME NEW c \in CpuState, NEW s, NEW m, NEW d, NEW n, Running(c), IsState(s),
         Handler = opcodes, Stage(c) <= Last(c), Handler[Opcode(c)][1] \notin {"XX", "BRK"},
         Partway(s, c, m), Turned(c, m, run_opcode(c), d, n)
  PROVE  LET op   == Handler[Opcode(c)][1]
             mode == Handler[Opcode(c)][2]
         IN  IF d.SYNC
             THEN Retires(s, d, n, op, IF op = "JSR" THEN "impl" ELSE mode)
             ELSE Partway(s, d, n)
<1>. DEFINE op   == Handler[Opcode(c)][1]
            mode == Handler[Opcode(c)][2]
            Good == IF d.SYNC
                    THEN Retires(s, d, n, op, IF op = "JSR" THEN "impl" ELSE mode)
                    ELSE Partway(s, d, n)
<1>. SUFFICES Good
  OBVIOUS
<1>1. Handler[Opcode(c)] \in Handlers /\ Opcode(c) \in Byte
  BY OpcodeType, HandlerAssumption
<1>2. /\ op \in ReadOps => mode \in MemModes \cup {"imm"}
      /\ op \in StoreOps => mode \in MemModes
      /\ op \in ModifyOps => mode \in MemModes \cup {"acc"}
      /\ op \in ReadOps \cup StoreOps \cup ModifyOps \cup BranchOps \cup ImpliedOps
                \cup {"PHA", "PHP", "PLA", "PLP", "JSR", "RTS", "RTI", "JMP", "BRK", "XX"}
  BY <1>1, HandlerShape
<1>3. /\ op \in BranchOps => mode = "rel"
      /\ op \in ImpliedOps \cup {"PHA", "PHP", "PLA", "PLP", "RTS", "RTI", "BRK"} => mode = "impl"
      /\ op = "JMP" => mode \in {"abs", "ind"}
  BY <1>1, ModesOfHandlers
<1>4. op \in StoreOps => op \in WriteOps \/ mode \notin {"abs_x", "abs_y", "ind_y"}
  BY <1>1, TableRegular DEF Regular
<1>5. Handler[Opcode(d)][1] = op /\ Handler[Opcode(d)][2] = mode
  BY DEF Turned
<1>6. op \notin {"XX", "BRK"}
  OBVIOUS
<1>. USE DEF ReadOps, StoreOps, ModifyOps, ImpliedOps, FlagOps, RegOps, BranchOps
<1>. HIDE DEF op, mode
<1>7. CASE op \in ReadOps
  <2>1. /\ run_opcode(c) = do_read(c, op, mode) /\ Last(c) = ArgStages(mode)
        /\ ArgAt(s, c, m, mode, Stage(c))
    BY <1>7 DEF run_opcode, Last, LastStage, op, mode, Partway
  <2>2. IF d.SYNC THEN Retires(s, d, n, op, mode) ELSE ArgAt(s, d, n, mode, Stage(d))
    BY <1>2, <1>7, <2>1, ReadStep
  <2>. QED  BY <1>5, <1>7, <2>2 DEF Partway
<1>8. CASE op \in StoreOps
  <2>1. /\ run_opcode(c) = do_store(c, op, mode) /\ Last(c) = ArgStages(mode)
        /\ StoreAt(s, c, m, op, mode, Stage(c))
    BY <1>8 DEF run_opcode, Last, LastStage, op, mode, Partway
  <2>3. Handler[Opcode(c)][1] \in WriteOps \/ mode \notin {"abs_x", "abs_y", "ind_y"}
    BY <1>4, <1>8 DEF op
  <2>2. IF d.SYNC THEN Retires(s, d, n, op, mode) ELSE StoreAt(s, d, n, op, mode, Stage(d))
    BY <1>2, <1>8, <2>1, <2>3, StoreStep
  <2>. QED  BY <1>5, <1>8, <2>2 DEF Partway
<1>9. CASE op \in ModifyOps /\ mode = "acc"
  <2>1. run_opcode(c) = do_accumulator(c, op) /\ Last(c) = 1 /\ IdleAt(s, c, m)
    BY <1>9 DEF run_opcode, Last, LastStage, op, mode, Partway
  <2>2. IF d.SYNC THEN Retires(s, d, n, op, "acc") ELSE IdleAt(s, d, n)
    BY <1>9, <2>1, AccumulatorStep
  <2>. QED  BY <1>5, <1>9, <2>2 DEF Partway
<1>10. CASE op \in ModifyOps /\ mode # "acc"
  <2>1. /\ run_opcode(c) = do_modify(c, op, mode) /\ Last(c) = ArgStages(mode) + 2
        /\ ModifyAt(s, c, m, op, mode, Stage(c))
    BY <1>10 DEF run_opcode, Last, LastStage, op, mode, Partway
  <2>2. IF d.SYNC THEN Retires(s, d, n, op, mode) ELSE ModifyAt(s, d, n, op, mode, Stage(d))
    BY <1>2, <1>10, <2>1, ModifyStep
  <2>. QED  BY <1>5, <1>10, <2>2 DEF Partway
<1>11. CASE op \in ImpliedOps
  <2>1. run_opcode(c) = do_implied(c, op) /\ Last(c) = 1 /\ IdleAt(s, c, m)
    BY <1>11 DEF run_opcode, Last, LastStage, op, mode, Partway
  <2>2. IF d.SYNC THEN Retires(s, d, n, op, "impl") ELSE IdleAt(s, d, n)
    BY <1>11, <2>1, ImpliedStep
  <2>. QED  BY <1>3, <1>5, <1>11, <2>2 DEF Partway
<1>12. CASE op \in BranchOps
  <2>1. /\ run_opcode(c) = branch(c, Taken(op, c.status)) /\ Last(c) = 3
        /\ BranchAt(s, c, m, op, Stage(c))
    BY <1>12 DEF run_opcode, Last, LastStage, op, mode, Partway
  <2>2. IF d.SYNC THEN Retires(s, d, n, op, "rel") ELSE BranchAt(s, d, n, op, Stage(d))
    BY <1>12, <2>1, BranchStep
  <2>. QED  BY <1>3, <1>5, <1>12, <2>2 DEF Partway
<1>13. CASE op = "PHA"
  <2>1. run_opcode(c) = do_push(c, c.A) /\ Last(c) = 2 /\ PushAt(s, c, m, s.r.A, Stage(c))
    BY <1>13 DEF run_opcode, Last, LastStage, op, mode, Partway
  <2>2. IF d.SYNC THEN Retires(s, d, n, "PHA", "impl") ELSE PushAt(s, d, n, s.r.A, Stage(d))
    BY <2>1, PushesStep
  <2>. QED  BY <1>3, <1>5, <1>13, <2>2 DEF Partway
<1>14. CASE op = "PHP"
  <2>1. /\ run_opcode(c) = do_push(c, StatusByte(c)) /\ Last(c) = 2
        /\ PushAt(s, c, m, ByteOf(s.r.status \cup {BF, XF}), Stage(c))
    BY <1>14 DEF run_opcode, Last, LastStage, op, mode, Partway
  <2>2. IF d.SYNC THEN Retires(s, d, n, "PHP", "impl")
                  ELSE PushAt(s, d, n, ByteOf(s.r.status \cup {BF, XF}), Stage(d))
    BY <2>1, PushesStep
  <2>. QED  BY <1>3, <1>5, <1>14, <2>2 DEF Partway
<1>15. CASE op = "PLA"
  <2>1. /\ run_opcode(c) = do_pull(c, SetReg(c, "A", c.data_bus)) /\ Last(c) = 3
        /\ PullAt(s, c, m, Stage(c))
    BY <1>15 DEF run_opcode, Last, LastStage, op, mode, Partway
  <2>2. IF d.SYNC THEN Retires(s, d, n, "PLA", "impl") ELSE PullAt(s, d, n, Stage(d))
    BY <2>1, PullsStep
  <2>. QED  BY <1>3, <1>5, <1>15, <2>2 DEF Partway
<1>16. CASE op = "PLP"
  <2>1. /\ run_opcode(c) = do_pull(c, PulledStatus(c)) /\ Last(c) = 3
        /\ PullAt(s, c, m, Stage(c))
    BY <1>16 DEF run_opcode, Last, LastStage, op, mode, Partway, PulledStatus
  <2>2. IF d.SYNC THEN Retires(s, d, n, "PLP", "impl") ELSE PullAt(s, d, n, Stage(d))
    BY <2>1, PullsStep
  <2>. QED  BY <1>3, <1>5, <1>16, <2>2 DEF Partway
<1>17. CASE op = "JSR"
  <2>1. run_opcode(c) = do_20(c) /\ Last(c) = 5 /\ CallAt(s, c, m, Stage(c))
    BY <1>17 DEF run_opcode, Last, LastStage, op, mode, Partway
  <2>2. IF d.SYNC THEN Retires(s, d, n, "JSR", "impl") ELSE CallAt(s, d, n, Stage(d))
    BY <2>1, CallStep
  <2>. QED  BY <1>5, <1>17, <2>2 DEF Partway
<1>18. CASE op = "RTS"
  <2>1. run_opcode(c) = do_60(c) /\ Last(c) = 5 /\ ReturnAt(s, c, m, Stage(c))
    BY <1>18 DEF run_opcode, Last, LastStage, op, mode, Partway
  <2>2. IF d.SYNC THEN Retires(s, d, n, "RTS", "impl") ELSE ReturnAt(s, d, n, Stage(d))
    BY <2>1, ReturnStep
  <2>. QED  BY <1>3, <1>5, <1>18, <2>2 DEF Partway
<1>19. CASE op = "RTI"
  <2>1. run_opcode(c) = do_40(c) /\ Last(c) = 5 /\ RtiAt(s, c, m, Stage(c))
    BY <1>19 DEF run_opcode, Last, LastStage, op, mode, Partway
  <2>2. IF d.SYNC THEN Retires(s, d, n, "RTI", "impl") ELSE RtiAt(s, d, n, Stage(d))
    BY <2>1, InterruptReturnStep
  <2>. QED  BY <1>3, <1>5, <1>19, <2>2 DEF Partway
<1>20. CASE op = "JMP" /\ mode = "abs"
  <2>1. run_opcode(c) = do_4C(c) /\ Last(c) = 2 /\ JumpAt(s, c, m, "abs", Stage(c))
    BY <1>20 DEF run_opcode, Last, LastStage, op, mode, Partway
  <2>2. IF d.SYNC THEN Retires(s, d, n, "JMP", "abs") ELSE JumpAt(s, d, n, "abs", Stage(d))
    BY <2>1, JumpStep
  <2>. QED  BY <1>5, <1>20, <2>2 DEF Partway
<1>21. CASE op = "JMP" /\ mode = "ind"
  <2>1. run_opcode(c) = do_6C(c) /\ Last(c) = 4 /\ JumpAt(s, c, m, "ind", Stage(c))
    BY <1>21 DEF run_opcode, Last, LastStage, op, mode, Partway
  <2>2. IF d.SYNC THEN Retires(s, d, n, "JMP", "ind") ELSE JumpAt(s, d, n, "ind", Stage(d))
    BY <2>1, IndirectJumpStep
  <2>. QED  BY <1>5, <1>21, <2>2 DEF Partway
<1>22. op \in {"PHA", "PHP", "PLA", "PLP", "JSR", "RTS", "RTI"} =>
         op = "PHA" \/ op = "PHP" \/ op = "PLA" \/ op = "PLP" \/ op = "JSR" \/ op = "RTS"
           \/ op = "RTI"
  OBVIOUS
<1>. HIDE DEF Good
<1>. QED  BY <1>2, <1>3, <1>6, <1>7, <1>8, <1>9, <1>10, <1>11, <1>12, <1>13, <1>14, <1>15,
             <1>16, <1>17, <1>18, <1>19, <1>20, <1>21, <1>22

LEMMA RunStep ==
  ASSUME NEW c \in CpuState, NEW s, NEW m, NEW d, NEW n, Running(c), IsState(s),
         MemoryType(m), Handler = opcodes, Stage(c) <= Last(c), Handler[Opcode(c)][1] # "XX",
         Midway(s, c, m), Turned(c, m, run_opcode(c), d, n)
  PROVE  IF d.SYNC THEN Steps(s, [r |-> Visible(d), m |-> n]) ELSE Midway(s, d, n)
<1>. DEFINE code == Opcode(c)
            op   == Handler[code][1]
            mode == Handler[code][2]
            t    == [r |-> Visible(d), m |-> n]
            how  == IF op = "JSR" THEN "impl" ELSE mode
<1>1. CASE code = 0
  BY <1>1, RunBreak
<1>2. CASE code # 0
  <2>1. code \in Byte /\ code = Read(s.m, s.r.PC) /\ Partway(s, c, m)
    BY <1>2, OpcodeType DEF Midway
  <2>2. op \notin {"XX", "BRK"}
    BY <1>2, <2>1, TableRegular DEF Regular
  <2>3. /\ code # 32 => Program!Here(s) = Handler[code]
        /\ code = 32 => Handler[code] = <<"JSR", "abs">> /\ Program!Here(s) = <<"JSR", "impl">>
        /\ Program!Here(s)[1] = op
    BY <2>1, <2>2, HereHandled
  <2>4. IF d.SYNC THEN Retires(s, d, n, op, how) ELSE Partway(s, d, n)
    BY <2>2, <2>1, HandlerStep
  <2>5. Opcode(d) = code
    BY DEF Turned
  <2>6. CASE d.SYNC
    <3>1. code # 32 => op # "JSR"
      BY <2>1, TableRegular DEF Regular
    <3>2. Program!Here(s)[2] = how
      BY <2>3, <3>1
    <3>3. op # "none"
      <4>1. Handler[code] \in Handlers
        BY <2>1, HandlerAssumption
      <4>. QED  BY <4>1, HandlerShape DEF ReadOps, StoreOps, ModifyOps, BranchOps, ImpliedOps,
                                          FlagOps, RegOps
    <3>4. t = Program!Executed(s, op, how)
      BY <2>4, <2>6 DEF Retires
    <3>. HIDE DEF op, how, t
    <3>5. Steps(s, t)
      BY <2>3, <3>2, <3>3, <3>4, StepsExecuted
    <3>. QED  BY <2>6, <3>5 DEF t
  <2>7. CASE ~d.SYNC
    BY <1>2, <2>1, <2>4, <2>5, <2>7 DEF Midway
  <2>. QED  BY <2>6, <2>7
<1>. QED  BY <1>1, <1>2

----------------------------------------------------------------------------
(* The behaviours. *)

(***************************************************************************)
(* The inductive invariant: the processor is sound and has just fetched,   *)
(* or it is partway through the instruction that retired stands before.    *)
(***************************************************************************)
FollowInv == IInv /\ IsState(retired) /\ Following

(* The beginning of an instruction: nothing has been done yet. *)
LEMMA PartwayAtFirst ==
  ASSUME NEW s, NEW c, NEW m, Stage(c) = 0, m = s.m,
         Shows(s, c, s.r.S, At(s, 1), s.r.status)
  PROVE  Partway(s, c, m)
<1>. DEFINE mode == Handler[Opcode(c)][2]
<1>1. ArgStages(mode) \in 1..5
  BY ArgStagesType
<1>2. ArgAt(s, c, m, mode, 0)
  BY <1>1 DEF ArgAt, Argued, Passed
<1>3. JumpAt(s, c, m, mode, 0)
  BY DEF JumpAt, Passed
<1>4. /\ IdleAt(s, c, m) /\ CallAt(s, c, m, 0) /\ ReturnAt(s, c, m, 0) /\ PullAt(s, c, m, 0)
      /\ \A op : BranchAt(s, c, m, op, 0)
      /\ \A b : PushAt(s, c, m, b, 0)
  BY DEF IdleAt, CallAt, ReturnAt, PullAt, BranchAt, PushAt
<1>5. RtiAt(s, c, m, 0)
  BY DEF RtiAt, Shows
<1>6. \A op : StoreAt(s, c, m, op, mode, 0) /\ ModifyAt(s, c, m, op, mode, 0)
  BY <1>1, <1>2 DEF StoreAt, ModifyAt
<1>. HIDE DEF mode
<1>. QED  BY <1>2, <1>3, <1>4, <1>5, <1>6 DEF Partway, mode

(* A fetch, or the reset that takes its place. *)
LEMMA FetchedMidway ==
  ASSUME NEW c \in CpuState, c.SYNC, NEW s, IsState(s), NEW m, MemoryType(m),
         s = [r |-> Visible(c), m |-> m], c.data_bus = Read(m, c.PC)
  PROVE  Midway(s, Begun(c), m)
<1>. DEFINE b == Begun(c)
<1>. SUFFICES Midway(s, b, m)
  OBVIOUS
<1>1. /\ s.m = m /\ s.r = Visible(c)
      /\ s.r.A = c.A /\ s.r.X = c.X /\ s.r.Y = c.Y /\ s.r.S = c.S /\ s.r.PC = c.PC
      /\ s.r.status = c.status \ {BF, XF}
  BY DEF Visible
<1>2. /\ b.A = c.A /\ b.X = c.X /\ b.Y = c.Y /\ b.S = c.S /\ b.status = c.status
      /\ b.break_status = c.break_status
  BY DEF CpuState, Begun, Fetched
<1>3. CASE c.break_status = {}
  <2>1. b.IR = 8 * c.data_bus /\ b.PC = U16(c.PC + 1)
    BY <1>3 DEF CpuState, Begun, Fetched
  <2>. HIDE DEF b
  <2>2. Opcode(b) = c.data_bus /\ Stage(b) = 0
    <3>1. \A x \in Byte : (8 * x) \div 8 = x /\ (8 * x) % 8 = 0
      BY DEF Byte
    <3>2. c.data_bus \in Byte
      BY DEF CpuState
    <3>. QED  BY <2>1, <3>1, <3>2 DEF Opcode, Stage
  <2>3. Opcode(b) = Read(s.m, s.r.PC) /\ b.PC = At(s, 1)
    BY <1>1, <2>1, <2>2 DEF At
  <2>4. Shows(s, b, s.r.S, At(s, 1), s.r.status)
    BY <1>1, <1>2, <2>3 DEF Shows
  <2>5. CASE Opcode(b) = 0
    <3>1. Breaking(s, b, m, 0)
      BY <1>1, <2>3, <2>5 DEF Breaking, IsBreak, Before
    <3>. QED  BY <2>2, <2>3, <2>4, <2>5, <3>1 DEF Midway, BreakAt
  <2>6. CASE Opcode(b) # 0
    BY <1>1, <2>2, <2>3, <2>4, <2>6, PartwayAtFirst DEF Midway
  <2>. QED  BY <2>5, <2>6
<1>4. CASE c.break_status # {}
  <2>1. b.IR = 0 /\ b.PC = c.PC
    BY <1>4 DEF CpuState, Begun, Fetched
  <2>. HIDE DEF b
  <2>2. Opcode(b) = 0 /\ Stage(b) = 0
    BY <2>1 DEF Opcode, Stage
  <2>3. Shows(s, b, s.r.S, b.PC, s.r.status)
    BY <1>1, <1>2 DEF Shows
  <2>4. Resetting(b)
    BY <1>2, <1>4 DEF Resetting, CpuState
  <2>5. \E q \in 0..(IF IsBreak(s) THEN 0 ELSE 0) : m = Before(s, q)
    BY <1>1 DEF Before
  <2>6. Breaking(s, b, m, 0)
    BY <2>4, <2>5 DEF Breaking
  <2>. QED  BY <2>2, <2>3, <2>6 DEF Midway, BreakAt
<1>. QED  BY <1>3, <1>4

(***************************************************************************)
(* Midway does not look at SYNC, RW or RES, and a reset may come at any    *)
(* stage.                                                                  *)
(***************************************************************************)
LEMMA SameMidway ==
  ASSUME NEW c, NEW b, NEW s, NEW m, Midway(s, c, m),
         b.A = c.A, b.X = c.X, b.Y = c.Y, b.S = c.S, b.PC = c.PC, b.status = c.status,
         b.IR = c.IR, b.AD = c.AD, b.addr_bus = c.addr_bus, b.data_bus = c.data_bus,
         c.break_status \subseteq b.break_status
  PROVE  Midway(s, b, m)
<1>1. Opcode(b) = Opcode(c) /\ Stage(b) = Stage(c)
  BY DEF Opcode, Stage
<1>2. Resetting(c) => Resetting(b)
  BY DEF Resetting
<1>3. \A S, PC, status : Shows(s, c, S, PC, status) => Shows(s, b, S, PC, status)
  BY DEF Shows
<1>4. CASE Opcode(c) = 0
  <2>1. BreakAt(s, c, m, Stage(c))
    BY <1>4 DEF Midway
  <2>2. \A k : Breaking(s, c, m, k) => Breaking(s, b, m, k)
    BY <1>2 DEF Breaking
  <2>3. BreakAt(s, b, m, Stage(c))
    BY <1>3, <2>1, <2>2 DEF BreakAt
  <2>. QED  BY <1>1, <1>4, <2>3 DEF Midway
<1>5. CASE Opcode(c) # 0
  <2>. DEFINE k == Stage(c)
  <2>1. Opcode(c) = Read(s.m, s.r.PC) /\ Partway(s, c, m)
    BY <1>5 DEF Midway
  <2>2. \A mode : ArgAt(s, c, m, mode, k) => ArgAt(s, b, m, mode, k)
    BY <1>3 DEF ArgAt
  <2>3. \A op, mode : StoreAt(s, c, m, op, mode, k) => StoreAt(s, b, m, op, mode, k)
    BY <1>3, <2>2 DEF StoreAt
  <2>4. \A op, mode : ModifyAt(s, c, m, op, mode, k) => ModifyAt(s, b, m, op, mode, k)
    BY <1>3, <2>2 DEF ModifyAt
  <2>5. IdleAt(s, c, m) => IdleAt(s, b, m)
    BY <1>3 DEF IdleAt
  <2>6. \A op : BranchAt(s, c, m, op, k) => BranchAt(s, b, m, op, k)
    BY <1>3 DEF BranchAt
  <2>7. \A v : PushAt(s, c, m, v, k) => PushAt(s, b, m, v, k)
    BY <1>3, <2>5 DEF PushAt
  <2>8. PullAt(s, c, m, k) => PullAt(s, b, m, k)
    BY <1>3 DEF PullAt
  <2>9. CallAt(s, c, m, k) => CallAt(s, b, m, k)
    BY <1>3 DEF CallAt
  <2>10. ReturnAt(s, c, m, k) => ReturnAt(s, b, m, k)
    BY <1>3 DEF ReturnAt
  <2>11. RtiAt(s, c, m, k) => RtiAt(s, b, m, k)
    BY <1>3 DEF RtiAt
  <2>12. \A mode : JumpAt(s, c, m, mode, k) => JumpAt(s, b, m, mode, k)
    BY <1>3 DEF JumpAt
  <2>. HIDE DEF k
  <2>13. Partway(s, b, m)
    BY <1>1, <2>1, <2>2, <2>3, <2>4, <2>5, <2>6, <2>7, <2>8, <2>9, <2>10, <2>11, <2>12
       DEF Partway, k
  <2>. QED  BY <1>1, <1>5, <2>1, <2>13 DEF Midway
<1>. QED  BY <1>4, <1>5

LEMMA BegunMidway ==
  FollowInv /\ phase = "execute" => Midway(retired, Begun(cpu), mem)
<1>. SUFFICES ASSUME FollowInv, phase = "execute" PROVE Midway(retired, Begun(cpu), mem)
  OBVIOUS
<1>1. cpu \in CpuState /\ MemoryType(mem) /\ IsState(retired) /\ phase # "crashed"
  BY DEF FollowInv, IInv, TypeOK, MemoryType
<1>2. CASE cpu.SYNC
  BY <1>1, <1>2, FetchedMidway DEF FollowInv, Following
<1>3. CASE ~cpu.SYNC
  <2>1. Midway(retired, cpu, mem)
    BY <1>1, <1>3 DEF FollowInv, Following
  <2>. DEFINE b == Begun(cpu)
  <2>2. /\ b.A = cpu.A /\ b.X = cpu.X /\ b.Y = cpu.Y /\ b.S = cpu.S /\ b.PC = cpu.PC
        /\ b.status = cpu.status /\ b.IR = cpu.IR /\ b.AD = cpu.AD
        /\ b.addr_bus = cpu.addr_bus /\ b.data_bus = cpu.data_bus
        /\ cpu.break_status \subseteq b.break_status
    BY <1>1, <1>3 DEF CpuState, Begun
  <2>3. Midway(retired, b, mem)
    <3>. HIDE DEF b
    <3>. QED  BY <2>1, <2>2, SameMidway
  <2>. QED  BY <2>3
<1>. QED  BY <1>2, <1>3

LEMMA VisibleState ==
  ASSUME NEW c \in CpuState, NEW m, MemoryType(m)
  PROVE  IsState([r |-> Visible(c), m |-> m])
<1>. DEFINE s == [r |-> Visible(c), m |-> m]
<1>1. s.r = Visible(c) /\ s.m = m
  OBVIOUS
<1>2. Visible(c) \in Program!Registers
  <2>1. /\ Program!Byte = Byte /\ Program!Word = Word
        /\ Program!Bit \ {Program!BF, Program!XF} = Bit \ {BF, XF}
    BY FlagNumbers DEF Program!Byte, Byte, Program!Word, Word, Program!Bit, Bit
  <2>2. /\ c.A \in Byte /\ c.X \in Byte /\ c.Y \in Byte /\ c.S \in Byte /\ c.PC \in Word
        /\ c.status \ {BF, XF} \in SUBSET (Bit \ {BF, XF})
    BY DEF CpuState
  <2>. QED  BY <2>1, <2>2 DEF Visible, Program!Registers
<1>3. s = State(s.r.A, s.r.X, s.r.Y, s.r.S, s.r.PC, s.r.status, s.m)
  BY DEF Visible, State, Regs
<1>. HIDE DEF s
<1>. QED  BY <1>1, <1>2, <1>3 DEF IsState, s

LEMMA StartFollows == StartInit => FollowInv
<1>. SUFFICES ASSUME StartInit PROVE FollowInv
  OBVIOUS
<1>1. PICK s \in Starts : /\ cpu = AtFetch(s.r, s.m) /\ mem = s.m
                          /\ retired = [r |-> Visible(cpu), m |-> s.m]
  BY DEF StartInit
<1>. DEFINE r == s.r
            m == s.m
<1>2. /\ r.A \in Byte /\ r.X \in Byte /\ r.Y \in Byte /\ r.S \in Byte /\ r.PC \in Word
      /\ r.status \in SUBSET Bit
  BY StartsAssumption
<1>3. MemoryType(m)
  BY StartsAssumption DEF MemoryType
<1>. HIDE DEF r, m
<1>4. Read(m, r.PC) \in Byte
  BY <1>2, <1>3, ReadType
<1>5. /\ AtFetch(r, m) \in CpuState /\ AtFetch(r, m).SYNC
      /\ AtFetch(r, m).data_bus = Read(m, r.PC) /\ AtFetch(r, m).PC = r.PC
      /\ AtFetch(r, m).addr_bus = r.PC /\ AtFetch(r, m).RW
  <2>1. 0 \in Byte /\ 0 \in Word /\ 0 \in IRs
    BY DEF Byte, Word, IRs
  <2>. QED  BY <1>2, <1>4, <2>1 DEF AtFetch, init_cpu, CpuState
<1>6. cpu = AtFetch(r, m) /\ mem = m /\ retired = [r |-> Visible(cpu), m |-> m] /\ phase = "sample"
  BY <1>1 DEF r, m, StartInit
<1>7. IInv
  BY <1>3, <1>5, <1>6 DEF IInv, TypeOK, StageBound, FetchCoherent, MemoryType
<1>8. IsState(retired)
  BY <1>3, <1>5, <1>6, VisibleState
<1>9. Following
  BY <1>5, <1>6 DEF Following
<1>. QED  BY <1>7, <1>8, <1>9 DEF FollowInv

(* The cycle that Execute runs. *)
LEMMA ExecuteFollows ==
  ASSUME Handler = opcodes, FollowInv, Execute,
         IF cpu'.SYNC THEN retired' = [r |-> Visible(cpu'), m |-> mem'] ELSE retired' = retired
  PROVE  FollowInv' /\ (cpu'.SYNC => Steps(retired, retired'))
<1>. DEFINE c == Begun(cpu)
            s == retired
            m == mem
            d == cpu'
            n == mem'
<1>1. IInv /\ IInv'
  BY ExecuteKeeps DEF FollowInv
<1>2. c \in CpuState /\ Running(c) /\ Stage(c) <= Last(c)
  BY <1>1, BegunFits
<1>3. phase = "execute" /\ Handler[Opcode(c)][1] # "XX" /\ phase' = "sample"
      /\ d = Answered(m, Cycled(c)) /\ n = Written(m, Cycled(c))
  BY DEF Execute, Unknown
<1>4. Midway(s, c, m) /\ IsState(s) /\ MemoryType(m)
  BY <1>1, <1>3, BegunMidway DEF FollowInv, IInv, TypeOK, MemoryType
<1>5. Turned(c, m, run_opcode(c), Answered(m, Cycled(c)), Written(m, Cycled(c)))
  <2>. HIDE DEF c, m
  <2>. QED  BY <1>2, <1>3, CycleTurns
<1>6. d.SYNC => d.data_bus = Read(n, d.PC)
  <2>1. Kept(c, Cycled(c))
    <3>. HIDE DEF c
    <3>. QED  BY <1>2, <1>3, CycledKeeps
  <2>. DEFINE e == Cycled(c)
  <2>. HIDE DEF e
  <2>2. Kept(c, e) /\ d = Answered(m, e) /\ n = Written(m, e)
    BY <1>3, <2>1 DEF e
  <2>. HIDE DEF c, m, d, n
  <2>. QED  BY <1>4, <2>2, AccessKeeps
<1>7. d \in CpuState /\ MemoryType(n)
  BY <1>1 DEF IInv, TypeOK, MemoryType
<1>8. IF d.SYNC THEN Steps(s, [r |-> Visible(d), m |-> n]) ELSE Midway(s, d, n)
  <2>1. Turned(c, m, run_opcode(c), d, n)
    BY <1>3, <1>5
  <2>. HIDE DEF c, s, m, d, n
  <2>. QED  BY <1>2, <1>3, <1>4, <2>1, RunStep
<1>9. CASE d.SYNC
  <2>1. retired' = [r |-> Visible(d), m |-> n]
    BY <1>9
  <2>2. IsState([r |-> Visible(d), m |-> n])
    <3>. HIDE DEF d, n
    <3>. QED  BY <1>7, VisibleState
  <2>3. Following'
    BY <1>3, <1>6, <1>9, <2>1 DEF Following, Read
  <2>4. IsState(retired)'
    BY <2>1, <2>2
  <2>. QED  BY <1>1, <1>8, <1>9, <2>1, <2>3, <2>4 DEF FollowInv
<1>10. CASE ~d.SYNC
  <2>1. retired' = retired
    BY <1>10
  <2>2. Following'
    BY <1>8, <1>10, <2>1 DEF Following
  <2>3. IsState(retired)'
    BY <1>4, <2>1
  <2>. QED  BY <1>1, <1>10, <2>2, <2>3 DEF FollowInv
<1>. QED  BY <1>9, <1>10

(* The other steps leave alone what Following looks at. *)
LEMMA QuietFollows ==
  ASSUME FollowInv, IInv', retired' = retired, mem' = mem,
         phase' # "crashed" =>
           /\ phase # "crashed"
           /\ cpu'.A = cpu.A /\ cpu'.X = cpu.X /\ cpu'.Y = cpu.Y /\ cpu'.S = cpu.S
           /\ cpu'.PC = cpu.PC /\ cpu'.status = cpu.status
           /\ cpu'.IR = cpu.IR /\ cpu'.AD = cpu.AD
           /\ cpu'.addr_bus = cpu.addr_bus /\ cpu'.data_bus = cpu.data_bus
           /\ cpu'.SYNC = cpu.SYNC
           /\ cpu.break_status \subseteq cpu'.break_status
  PROVE  FollowInv'
<1>1. IsState(retired)'
  BY DEF FollowInv
<1>2. CASE phase' = "crashed"
  BY <1>1, <1>2 DEF FollowInv, Following
<1>3. CASE phase' # "crashed" /\ cpu.SYNC
  <2>1. retired = [r |-> Visible(cpu), m |-> mem] /\ cpu.data_bus = Read(mem, cpu.PC)
    BY <1>3 DEF FollowInv, Following
  <2>2. Visible(cpu') = Visible(cpu)
    BY <1>3 DEF Visible
  <2>3. Following'
    BY <1>3, <2>1, <2>2 DEF Following
  <2>. QED  BY <1>1, <2>3 DEF FollowInv
<1>4. CASE phase' # "crashed" /\ ~cpu.SYNC
  <2>1. Midway(retired, cpu, mem)
    BY <1>4 DEF FollowInv, Following
  <2>2. Midway(retired, cpu', mem)
    BY <1>4, <2>1, SameMidway
  <2>3. Following'
    BY <1>4, <2>2 DEF Following
  <2>. QED  BY <1>1, <2>3 DEF FollowInv
<1>. QED  BY <1>2, <1>3, <1>4

LEMMA StepFollows ==
  ASSUME Handler = opcodes, FollowInv, [FollowNext]_allVars
  PROVE  FollowInv' /\ (retired' = retired \/ Steps(retired, retired'))
<1>1. IInv /\ cpu \in CpuState
  BY DEF FollowInv, IInv, TypeOK
<1>2. CASE FollowCycle /\ Sample
  <2>1. IInv'
    BY <1>1, <1>2, SampleKeeps
  <2>2. /\ retired' = retired /\ mem' = mem /\ phase = "sample" /\ phase' = "execute"
        /\ cpu' = IF cpu.RES THEN cpu ELSE [cpu EXCEPT !.break_status = @ \cup {"RST"}]
    BY <1>2 DEF FollowCycle, Ends, Sample
  <2>3. /\ cpu'.A = cpu.A /\ cpu'.X = cpu.X /\ cpu'.Y = cpu.Y /\ cpu'.S = cpu.S
        /\ cpu'.PC = cpu.PC /\ cpu'.status = cpu.status
        /\ cpu'.IR = cpu.IR /\ cpu'.AD = cpu.AD
        /\ cpu'.addr_bus = cpu.addr_bus /\ cpu'.data_bus = cpu.data_bus
        /\ cpu'.SYNC = cpu.SYNC
        /\ cpu.break_status \subseteq cpu'.break_status
    BY <1>1, <2>2 DEF CpuState
  <2>. QED  BY <2>1, <2>2, <2>3, QuietFollows
<1>3. CASE FollowCycle /\ Execute
  <2>1. IF cpu'.SYNC THEN retired' = [r |-> Visible(cpu'), m |-> mem'] ELSE retired' = retired
    BY <1>3 DEF FollowCycle, Ends, Execute
  <2>. QED  BY <1>3, <2>1, ExecuteFollows
<1>4. CASE FollowCycle /\ Crash
  <2>1. IInv'
    BY <1>1, <1>4, CrashKeeps
  <2>2. ~cpu'.SYNC /\ mem' = mem /\ phase' = "crashed"
    BY <1>1, <1>4, BegunFits DEF Crash, Running
  <2>3. retired' = retired
    BY <1>4, <2>2 DEF FollowCycle, Ends
  <2>. QED  BY <2>1, <2>2, <2>3, QuietFollows
<1>5. CASE FollowPress
  <2>1. PressReset /\ retired' = retired
    BY <1>5 DEF FollowPress
  <2>2. IInv'
    BY <1>1, <2>1, PressKeeps
  <2>3. mem' = mem /\ phase' = phase /\ cpu' = [cpu EXCEPT !.RES = FALSE]
    BY <2>1 DEF PressReset
  <2>4. /\ cpu'.A = cpu.A /\ cpu'.X = cpu.X /\ cpu'.Y = cpu.Y /\ cpu'.S = cpu.S
        /\ cpu'.PC = cpu.PC /\ cpu'.status = cpu.status
        /\ cpu'.IR = cpu.IR /\ cpu'.AD = cpu.AD
        /\ cpu'.addr_bus = cpu.addr_bus /\ cpu'.data_bus = cpu.data_bus
        /\ cpu'.SYNC = cpu.SYNC
        /\ cpu.break_status \subseteq cpu'.break_status
    BY <1>1, <2>3 DEF CpuState
  <2>. QED  BY <2>1, <2>2, <2>3, <2>4, QuietFollows
<1>6. CASE UNCHANGED allVars
  <2>1. cpu' = cpu /\ mem' = mem /\ phase' = phase /\ retired' = retired
    BY <1>6 DEF allVars
  <2>2. IInv'
    BY <1>1, <2>1, StepInv DEF vars
  <2>. QED  BY <2>1, <2>2, QuietFollows
<1>. QED  BY <1>2, <1>3, <1>4, <1>5, <1>6 DEF FollowNext, FollowCycle, Cycle

LEMMA StepsNext == Steps(retired, retired') => Program!Next
BY Zenon DEF Steps, Program!Next, Program!Instruction, Program!Reset

LEMMA StartProgram == FollowInv => Program!Init
<1>1. FollowInv => retired.r \in Program!Registers /\ MemoryType(retired.m)
  BY DEF FollowInv, IsState
<1>2. Program!Byte = Byte /\ Program!Word = Word
  BY DEF Program!Byte, Byte, Program!Word, Word
<1>. QED  BY <1>1, <1>2 DEF MemoryType, Program!Init

(***************************************************************************)
(* The opcodes have the meaning that their bits give them: every entry of  *)
(* opcodes[] in m6502_opcodes.c is the operation and the addressing mode   *)
(* that Decode finds, except that Isa names no mode for JSR; the entries   *)
(* without a handler are the opcodes that are no instruction.              *)
(***************************************************************************)
THEOREM TableDecodes ==
  /\ \A code \in Byte \ {32} :
       Program!Decode(code) = IF opcodes[code] = XX THEN <<"none", "impl">>
                              ELSE opcodes[code]
  /\ Program!Decode(32) = <<"JSR", "impl">> /\ opcodes[32] = <<"JSR", "abs">>
BY OpcodesAgree DEF Agrees

(***************************************************************************)
(* At every point of a behaviour the processor is where the instruction at *)
(* retired.r.PC has got: after a fetch nothing has happened since, and     *)
(* after k cycles of a handler of m6502_opcodes.c its registers, AD, the   *)
(* data bus and the memory are those of the k-th stage; a reset that comes *)
(* between two stages has written nothing more.                            *)
(***************************************************************************)
THEOREM ProcessorFollows ==
  ASSUME Handler = opcodes
  PROVE  FollowSpec => []FollowInv
<1>1. StartInit => FollowInv
  BY StartFollows
<1>2. FollowInv /\ [FollowNext]_allVars => FollowInv'
  BY StepFollows
<1>. QED  BY <1>1, <1>2, PTL DEF FollowSpec

(***************************************************************************)
(* Cpu implements Isa: between two opcode fetches of cpu_cycle, whatever   *)
(* handler ran, in whatever addressing mode, and whether or not a reset    *)
(* came, the registers and the memory change as one instruction of Isa, or *)
(* one reset, changes them.                                                *)
(***************************************************************************)
THEOREM CpuImplementsIsa ==
  ASSUME Handler = opcodes
  PROVE  FollowSpec => ImplementsIsa
<1>1. StartInit => FollowInv /\ Program!Init
  BY StartFollows, StartProgram
<1>2. FollowInv /\ [FollowNext]_allVars => FollowInv' /\ [Program!Next]_retired
  BY StepFollows, StepsNext
<1>. QED  BY <1>1, <1>2, PTL DEF FollowSpec, ImplementsIsa, Program!Spec

----------------------------------------------------------------------------
(* The clock cycles of an instruction. *)

(* The modes with an index added to a word: a page may be crossed. *)
LongIndexed == {"abs_x", "abs_y", "ind_y"}

Crossed(s, mode) ==
  CASE mode = "abs_x" -> CrossesPage(Absolute(s), s.r.X)
    [] mode = "abs_y" -> CrossesPage(Absolute(s), s.r.Y)
    [] mode = "ind_y" -> CrossesPage(Pointed(s, First(s)), s.r.Y)
    [] OTHER          -> FALSE

(***************************************************************************)
(* n cycles have led to the stage of c: as many as the stage says, or one  *)
(* less when get_arg_* has left one out.  The last two stages of abs,X and *)
(* abs,Y are reached one by one, and the last stage of a branch is         *)
(* reached, only across a page.                                            *)
(***************************************************************************)
Taking(s, c, n) ==
  LET op   == Handler[Opcode(c)][1]
      mode == Handler[Opcode(c)][2]
      k    == Stage(c)
  IN  \/ /\ n = k
         /\ op \in ReadOps /\ mode \in {"abs_x", "abs_y"} /\ k > 2 => Crossed(s, mode)
         /\ op \in BranchOps /\ k = 3 => High(c.AD) # High(c.PC)
      \/ /\ n = k - 1
         /\ op \in ReadOps /\ mode \in LongIndexed /\ k = ArgStages(mode)
         /\ ~Crossed(s, mode)

(***************************************************************************)
(* The count is that of the stages, from the fetch on.                     *)
(***************************************************************************)
Counting ==
  phase # "crashed" => IF cpu.SYNC THEN cycles = 0 ELSE Taking(retired, cpu, cycles)

LEMMA CrossedPages ==
  ASSUME NEW s, IsState(s)
  PROVE  /\ Crossed(s, "abs_x") <=> Low(Absolute(s)) + s.r.X >= 256
         /\ Crossed(s, "abs_y") <=> Low(Absolute(s)) + s.r.Y >= 256
         /\ Crossed(s, "ind_y") <=> Low(Pointed(s, First(s))) + s.r.Y >= 256
<1>1. Absolute(s) \in Int /\ Pointed(s, First(s)) \in Int /\ s.r.X \in Int /\ s.r.Y \in Int
  <2>1. Absolute(s) \in Word /\ First(s) \in Byte
    BY AddressTypes
  <2>2. Pointed(s, First(s)) \in Word
    BY <2>1, PointedTypes
  <2>3. s.r.X \in Byte /\ s.r.Y \in Byte
    BY RegistersTypes
  <2>4. Word \subseteq Int /\ Byte \subseteq Int
    BY DEF Word, Byte
  <2>. QED  BY <2>1, <2>2, <2>3, <2>4
<1>. QED  BY <1>1 DEF Crossed, CrossesPage, Low

LEMMA SkipDecides ==
  ASSUME NEW c, NEW shortcut, c.IR \in Int
  PROVE  /\ Skip(c, shortcut) = c.IR + 1 => shortcut
         /\ Skip(c, shortcut) = c.IR /\ Handler[Opcode(c)][1] \notin WriteOps => ~shortcut
BY DEF Skip

(***************************************************************************)
(* get_arg_* leaves a cycle out only where no page is crossed, and with    *)
(* abs,X and abs,Y wherever none is.                                       *)
(***************************************************************************)
ArgTime(s, c, g, mode) ==
  /\ g.IR = c.IR + 1 =>
       mode \in LongIndexed /\ Stage(c) = ArgStages(mode) - 2 /\ ~Crossed(s, mode)
  /\ g.IR = c.IR /\ mode \in {"abs_x", "abs_y"} /\ Stage(c) = 2
       /\ Handler[Opcode(c)][1] \notin WriteOps => Crossed(s, mode)

LEMMA AbsoluteIndexTime ==
  ASSUME NEW c, NEW s, NEW m, NEW mode \in {"abs_x", "abs_y"}, Arguing(s, c, m, mode)
  PROVE  ArgTime(s, c, GetArg(c, mode), mode)
<1>. DEFINE x == IF mode = "abs_x" THEN c.X ELSE c.Y
            g == GetArg(c, mode)
            low == Low(Absolute(s)) + x < 256
<1>1. g = get_arg_absolute_index(c, x) /\ ArgStages(mode) = 4 /\ mode \in LongIndexed
  BY DEF GetArg, ArgStages, LongIndexed
<1>2. /\ Running(c) /\ IsState(s) /\ c.IR \in Int /\ c.X = s.r.X /\ c.Y = s.r.Y
  BY Found
<1>3. Stage(c) # 2 => g.IR = c.IR
  BY <1>1, <1>2, AbsoluteIndexReads
<1>4. Stage(c) = 2 => g.IR = Skip(c, low)
  <2>1. Stage(c) = 2 => g.IR = Skip(c, Low(OrHigh(c.AD, c.data_bus)) + x < 256)
    BY <1>1, <1>2, AbsoluteIndexReads
  <2>2. Stage(c) = 2 => OrHigh(c.AD, c.data_bus) = Absolute(s)
    BY AbsoluteFound
  <2>. QED  BY <2>1, <2>2
<1>5. low <=> ~Crossed(s, mode)
  <2>1. x = IF mode = "abs_x" THEN s.r.X ELSE s.r.Y
    BY <1>2
  <2>2. Low(Absolute(s)) \in Int /\ s.r.X \in Int /\ s.r.Y \in Int
    <3>1. Absolute(s) \in Word /\ s.r.X \in Byte /\ s.r.Y \in Byte
      BY <1>2, AddressTypes, RegistersTypes
    <3>. QED  BY <3>1, BytesOfWord DEF Byte
  <2>. HIDE DEF x
  <2>. QED  BY <1>2, <2>1, <2>2, CrossedPages
<1>. HIDE DEF g, low
<1>. QED  BY <1>1, <1>2, <1>3, <1>4, <1>5, SkipDecides DEF ArgTime, g

LEMMA IndirectIndexTime ==
  ASSUME NEW c, NEW s, NEW m, Arguing(s, c, m, "ind_y")
  PROVE  ArgTime(s, c, GetArg(c, "ind_y"), "ind_y")
<1>. DEFINE g  == GetArg(c, "ind_y")
            ad == OrHigh(c.AD, c.data_bus)
<1>1. g = get_arg_indirect_index(c) /\ ArgStages("ind_y") = 5 /\ "ind_y" \in LongIndexed
  BY DEF GetArg, ArgStages, LongIndexed
<1>2. /\ Running(c) /\ IsState(s) /\ c.IR \in Int /\ c.Y = s.r.Y
      /\ Argued(s, c.AD, c.data_bus, "ind_y", Stage(c))
  BY Found
<1>3. /\ Stage(c) # 3 => g.IR = c.IR
      /\ Stage(c) = 3 => g.IR = Skip(c, ad + c.Y <= 255)
  BY <1>1, <1>2, IndirectIndexReads
<1>4. First(s) \in Byte /\ s.r.Y \in Byte
  BY <1>2, AddressTypes, RegistersTypes
<1>5. Stage(c) = 3 => ad = Pointed(s, First(s)) /\ ad \in Word
  BY <1>2, <1>4, PointedTypes DEF Argued
<1>. HIDE DEF g, ad
<1>6. CASE Stage(c) = 3
  <2>1. ad + s.r.Y <= 255 => Low(ad) + s.r.Y <= 255
    <3>1. ad \in Int /\ ad >= 0 /\ s.r.Y \in Int /\ s.r.Y >= 0
      <4>1. \A w \in Word \cup Byte : w \in Int /\ w >= 0
        BY DEF Word, Byte
      <4>2. ad \in Word /\ s.r.Y \in Byte
        BY <1>4, <1>5, <1>6
      <4>. QED  BY <4>1, <4>2
    <3>2. ad + s.r.Y <= 255 => ad % 256 = ad
      BY <3>1
    <3>. QED  BY <3>2 DEF Low
  <2>2. Low(ad) + s.r.Y <= 255 => ~Crossed(s, "ind_y")
    <3>1. Low(ad) \in Int /\ s.r.Y \in Int
      BY <1>4, <1>5, <1>6, BytesOfWord DEF Byte
    <3>. QED  BY <1>2, <1>5, <1>6, <3>1, CrossedPages
  <2>3. g.IR = c.IR + 1 => ad + s.r.Y <= 255
    <3>. DEFINE low == ad + c.Y <= 255
    <3>1. g.IR = Skip(c, low)
      BY <1>3, <1>6
    <3>. HIDE DEF low
    <3>2. g.IR = c.IR + 1 => low
      BY <1>2, <3>1, SkipDecides
    <3>. QED  BY <1>2, <3>2 DEF low
  <2>. QED  BY <1>1, <1>6, <2>1, <2>2, <2>3 DEF ArgTime, g
<1>7. CASE Stage(c) # 3
  BY <1>2, <1>3, <1>7 DEF ArgTime, g
<1>. QED  BY <1>6, <1>7

LEMMA ArgTimes ==
  ASSUME NEW c, NEW s, NEW m, NEW mode \in MemModes \cup {"imm"}, Arguing(s, c, m, mode)
  PROVE  ArgTime(s, c, GetArg(c, mode), mode)
<1>1. CASE mode \in {"abs_x", "abs_y"}
  BY <1>1, AbsoluteIndexTime
<1>2. CASE mode = "ind_y"
  BY <1>2, IndirectIndexTime
<1>3. CASE mode \notin LongIndexed
  <2>1. Running(c) /\ c.IR \in Int
    BY Found
  <2>2. mode # "imm" => GetArg(c, mode).IR = c.IR
    BY <1>3, <2>1, WriteArg DEF LongIndexed
  <2>3. mode = "imm" => GetArg(c, mode).IR = c.IR
    BY <2>1, ByteReads DEF GetArg
  <2>. QED  BY <1>3, <2>1, <2>2, <2>3 DEF ArgTime, LongIndexed
<1>. QED  BY <1>1, <1>2, <1>3 DEF LongIndexed

(* A cycle of a read: the count goes on, or the operand has been used. *)
LEMMA ReadTaking ==
  ASSUME NEW c, NEW s, NEW m, NEW d, NEW n, NEW k, Running(c), IsState(s),
         NEW op \in ReadOps, NEW mode \in MemModes \cup {"imm"},
         Handler[Opcode(c)][1] = op, Handler[Opcode(c)][2] = mode,
         ArgAt(s, c, m, mode, Stage(c)), Stage(c) <= ArgStages(mode),
         Turned(c, m, do_read(c, op, mode), d, n), Taking(s, c, k)
  PROVE  IF d.SYNC THEN Stage(c) = ArgStages(mode) ELSE Taking(s, d, k + 1)
<1>1. Stage(c) \in 0..7 /\ ArgStages(mode) \in 1..5
  BY StageType, ArgStagesType DEF Running
<1>2. CASE Stage(c) < ArgStages(mode)
  <2>. DEFINE g == GetArg(c, mode)
  <2>1. do_read(c, op, mode) = g /\ Arguing(s, c, m, mode)
    BY <1>2 DEF do_read, Arguing
  <2>2. ~d.SYNC /\ Stage(d) \in (Stage(c) + 1)..ArgStages(mode)
    BY <2>1, Arrives
  <2>3. Stage(d) = Stage(c) + 1 + (g.IR - c.IR) /\ Opcode(d) = Opcode(c)
    BY <2>1 DEF Turned
  <2>4. ArgTime(s, c, g, mode)
    BY <2>1, ArgTimes
  <2>5. c.IR \in Int /\ (g.IR = c.IR \/ g.IR = c.IR + 1)
    <3>1. Continues(c, g) \/ Skips(c, g)
      BY GetArgContinues
    <3>. HIDE DEF g
    <3>. QED  BY <3>1 DEF Continues, Skips, Running, Machine
  <2>6. op \notin WriteOps /\ op \notin BranchOps
    BY DEF ReadOps, WriteOps, BranchOps
  <2>7. /\ k = Stage(c)
        /\ mode \in {"abs_x", "abs_y"} /\ Stage(c) > 2 => Crossed(s, mode)
    BY <1>1, <1>2 DEF Taking
  <2>. HIDE DEF g
  <2>8. CASE g.IR = c.IR
    <3>1. Stage(d) = Stage(c) + 1
      BY <1>1, <2>3, <2>5, <2>8
    <3>2. mode \in {"abs_x", "abs_y"} /\ Stage(d) > 2 => Crossed(s, mode)
      BY <1>1, <2>4, <2>6, <2>7, <2>8, <3>1 DEF ArgTime
    <3>. QED  BY <2>2, <2>3, <2>6, <2>7, <3>1, <3>2 DEF Taking
  <2>9. CASE g.IR = c.IR + 1
    <3>1. Stage(d) = Stage(c) + 2
      BY <1>1, <2>3, <2>5, <2>9
    <3>2. mode \in LongIndexed /\ Stage(d) = ArgStages(mode) /\ ~Crossed(s, mode)
      BY <1>1, <2>4, <2>9, <3>1 DEF ArgTime
    <3>3. k + 1 = Stage(d) - 1
      BY <1>1, <2>7, <3>1
    <3>. QED  BY <2>2, <2>3, <3>2, <3>3 DEF Taking
  <2>. QED  BY <2>5, <2>8, <2>9
<1>3. CASE ~(Stage(c) < ArgStages(mode))
  <2>. DEFINE o == ReadOperand(c, op)
  <2>1. do_read(c, op, mode) = fetch(o) /\ o \in Machine
    BY <1>3, ReadOperandComputes DEF do_read, Computes, Continues
  <2>. HIDE DEF o
  <2>2. d.SYNC
    BY <2>1, FetchVisible DEF Turned
  <2>. QED  BY <1>1, <1>3, <2>2
<1>. QED  BY <1>2, <1>3

(***************************************************************************)
(* A handler that leaves out no cycle and calls fetch in its last stage    *)
(* only: all but those of the reads and the branches.                      *)
(***************************************************************************)
Steady(c, ran, last) == ran.IR = c.IR /\ (ran.SYNC => Stage(c) = last)

LEMMA SteadyUntilLast ==
  ASSUME NEW c, NEW ran, NEW last \in Int, Running(c), Advances(c, ran, last),
         Stage(c) <= last, Stage(c) < last => ran.IR = c.IR /\ ~ran.SYNC
  PROVE  Steady(c, ran, last)
<1>1. Stage(c) \in Int
  BY StageType DEF Running
<1>2. CASE Stage(c) < last
  BY <1>2 DEF Steady
<1>3. CASE Stage(c) = last
  BY <1>1, <1>3 DEF Advances, Fetches, Steady
<1>. QED  BY <1>1, <1>2, <1>3

LEMMA SimpleSteady ==
  ASSUME NEW c, Running(c)
  PROVE  /\ Stage(c) <= 1 =>
              /\ \A op : Steady(c, do_accumulator(c, op), 1)
              /\ \A op : Steady(c, do_implied(c, op), 1)
         /\ Stage(c) <= 2 => Steady(c, do_4C(c), 2)
<1>1. Stage(c) \in 0..7 /\ IdleRead(c).IR = c.IR /\ ~IdleRead(c).SYNC
      /\ AddressLow(c).IR = c.IR /\ ~AddressLow(c).SYNC
  BY StageType, SimpleSteps, AddressLowContinues DEF Running, Continues
<1>2. ASSUME Stage(c) <= 1, NEW op PROVE Steady(c, do_accumulator(c, op), 1)
  <2>1. Stage(c) < 1 => do_accumulator(c, op) = IdleRead(c)
    BY <1>1 DEF do_accumulator
  <2>. QED  BY <1>1, <1>2, <2>1, AccumulatorAdvances, SteadyUntilLast
<1>3. ASSUME Stage(c) <= 1, NEW op PROVE Steady(c, do_implied(c, op), 1)
  <2>1. Stage(c) < 1 => do_implied(c, op) = IdleRead(c)
    BY <1>1 DEF do_implied
  <2>. QED  BY <1>1, <1>3, <2>1, ImpliedAdvances, SteadyUntilLast
<1>4. ASSUME Stage(c) <= 2 PROVE Steady(c, do_4C(c), 2)
  <2>1. Stage(c) < 2 => do_4C(c) = AddressLow(c)
    BY DEF do_4C
  <2>. QED  BY <1>1, <1>4, <2>1, JumpAdvances, SteadyUntilLast
<1>. QED  BY <1>2, <1>3, <1>4

LEMMA StackSteady ==
  ASSUME NEW c, Running(c)
  PROVE  /\ \A b \in Byte : Stage(c) <= 2 => Steady(c, do_push(c, b), 2)
         /\ \A pulled : Computes(c, pulled) /\ Stage(c) <= 3 => Steady(c, do_pull(c, pulled), 3)
<1>1. Stage(c) \in 0..7
  BY StageType DEF Running
<1>2. ASSUME NEW b \in Byte, Stage(c) <= 2 PROVE Steady(c, do_push(c, b), 2)
  <2>1. Stage(c) < 2 => do_push(c, b).IR = c.IR /\ ~do_push(c, b).SYNC
    BY <1>1 DEF do_push, IdleRead, push_stack, Running, Machine
  <2>. QED  BY <1>2, <2>1, PushAdvances, SteadyUntilLast
<1>3. ASSUME NEW pulled, Computes(c, pulled), Stage(c) <= 3
      PROVE  Steady(c, do_pull(c, pulled), 3)
  <2>1. Stage(c) < 3 => do_pull(c, pulled).IR = c.IR /\ ~do_pull(c, pulled).SYNC
    BY <1>1 DEF do_pull, IdleRead, PopNext, Running, Machine
  <2>. QED  BY <1>3, <2>1, PullAdvances, SteadyUntilLast
<1>. QED  BY <1>2, <1>3

LEMMA CallsSteady ==
  ASSUME NEW c, Running(c)
  PROVE  /\ Stage(c) <= 5 => /\ Steady(c, do_20(c), 5)
                             /\ Steady(c, do_40(c), 5)
                             /\ Steady(c, do_60(c), 5)
         /\ Stage(c) <= 4 => Steady(c, do_6C(c), 4)
<1>1. Stage(c) \in 0..7
  BY StageType DEF Running
<1>2. ASSUME Stage(c) <= 5 PROVE Steady(c, do_20(c), 5)
  <2>1. Stage(c) < 5 => do_20(c).IR = c.IR /\ ~do_20(c).SYNC
    BY <1>1 DEF do_20, IdleRead, NextByte, push_stack, Running, Machine
  <2>. QED  BY <1>2, <2>1, CallAdvances, SteadyUntilLast
<1>3. ASSUME Stage(c) <= 5 PROVE Steady(c, do_40(c), 5)
  <2>1. Stage(c) < 5 => do_40(c).IR = c.IR /\ ~do_40(c).SYNC
    BY <1>1 DEF do_40, IdleRead, PopNext, Running, Machine
  <2>. QED  BY <1>3, <2>1, InterruptReturnAdvances, SteadyUntilLast
<1>4. ASSUME Stage(c) <= 5 PROVE Steady(c, do_60(c), 5)
  <2>1. Stage(c) < 5 => do_60(c).IR = c.IR /\ ~do_60(c).SYNC
    BY <1>1 DEF do_60, IdleRead, NextByte, PopNext, Running, Machine
  <2>. QED  BY <1>4, <2>1, ReturnAdvances, SteadyUntilLast
<1>5. ASSUME Stage(c) <= 4 PROVE Steady(c, do_6C(c), 4)
  <2>1. Stage(c) < 4 => do_6C(c).IR = c.IR /\ ~do_6C(c).SYNC
    BY <1>1 DEF do_6C, AddressLow, NextByte, Running, Machine
  <2>. QED  BY <1>5, <2>1, IndirectJumpAdvances, SteadyUntilLast
<1>. QED  BY <1>2, <1>3, <1>4, <1>5

LEMMA BreakSteady ==
  ASSUME NEW c, Running(c), Stage(c) <= 6
  PROVE  Steady(c, do_00(c), 6)
<1>. DEFINE skipped == IF c.break_status = {} THEN [c EXCEPT !.PC = U16(@ + 1)] ELSE c
            vector  == CASE "RST" \in c.break_status -> RESET_VECTOR_ADDR
                         [] "NMI" \in c.break_status -> NMI_VECTOR_ADDR
                         [] OTHER                    -> IRQ_VECTOR_ADDR
<1>1. Stage(c) \in 0..7 /\ c \in Machine /\ ~c.SYNC
  BY StageType DEF Running
<1>2. \A e, b : e \in Machine => /\ PushUnlessReset(e, b).IR = e.IR
                                 /\ PushUnlessReset(e, b).SYNC = e.SYNC
  BY DEF PushUnlessReset, push_stack, Machine
<1>3. skipped \in Machine /\ skipped.IR = c.IR /\ skipped.SYNC = c.SYNC
  <2>1. U16(c.PC + 1) \in Word
    BY <1>1, FieldTypes, CountWord
  <2>. QED  BY <1>1, <2>1 DEF Machine
<1>4. Stage(c) = 0 => do_00(c) = IdleRead(c)
  BY DEF do_00
<1>5. Stage(c) = 1 => do_00(c) = PushUnlessReset(skipped, High(skipped.PC))
  BY DEF do_00
<1>6. Stage(c) = 2 => do_00(c) = PushUnlessReset(c, Low(c.PC))
  BY DEF do_00
<1>7. Stage(c) = 3 => do_00(c) = [PushUnlessReset(c, StatusByte(c)) EXCEPT
                                    !.AD = vector, !.RES = TRUE, !.break_status = {}]
  BY DEF do_00
<1>8. Stage(c) \in 4..5 => do_00(c).IR = c.IR /\ ~do_00(c).SYNC
  BY <1>1 DEF do_00, Machine
<1>. HIDE DEF skipped, vector
<1>9. Stage(c) = 3 => do_00(c).IR = c.IR /\ ~do_00(c).SYNC
  <2>1. Continues(c, PushUnlessReset(c, StatusByte(c)))
    <3>. DEFINE p == push_stack(c, StatusByte(c))
                reset == "RST" \in c.break_status
    <3>1. Continues(c, p)
      BY PushContinues, ByteOfType DEF StatusByte
    <3>2. PushUnlessReset(c, StatusByte(c)) = [p EXCEPT !.RW = reset] /\ reset \in BOOLEAN
      BY DEF PushUnlessReset
    <3>. HIDE DEF p, reset
    <3>. QED  BY <3>1, <3>2 DEF Continues, Machine
  <2>. QED  BY <1>7, <2>1 DEF Continues, Machine
<1>10. Stage(c) < 6 => do_00(c).IR = c.IR /\ ~do_00(c).SYNC
  <2>1. IdleRead(c).IR = c.IR /\ ~IdleRead(c).SYNC
    BY SimpleSteps DEF Continues
  <2>. QED  BY <1>1, <1>2, <1>3, <1>4, <1>5, <1>6, <1>8, <1>9, <2>1
<1>. QED  BY <1>10, BreakAdvances, SteadyUntilLast

LEMMA StoreSteady ==
  ASSUME NEW c, Running(c), NEW op, NEW mode \in MemModes, Stage(c) <= ArgStages(mode),
         Handler[Opcode(c)][1] \in WriteOps \/ mode \notin LongIndexed
  PROVE  Steady(c, do_store(c, op, mode), ArgStages(mode))
<1>. DEFINE g == GetArg(c, mode)
            n == ArgStages(mode)
<1>1. Stage(c) \in 0..7 /\ n \in 1..5
  BY StageType, ArgStagesType DEF Running
<1>2. g.IR = c.IR /\ ~g.SYNC /\ g \in Machine
  BY WriteArg, GetArgContinues DEF Continues, Skips, LongIndexed
<1>3. /\ Stage(c) < n - 1 => do_store(c, op, mode) = g
      /\ Stage(c) = n - 1 => do_store(c, op, mode) = [g EXCEPT !.data_bus = Stored(c, op),
                                                               !.RW = FALSE]
  BY <1>1 DEF do_store
<1>. DEFINE w == [g EXCEPT !.data_bus = Stored(c, op), !.RW = FALSE]
<1>. HIDE DEF g
<1>4. w.IR = g.IR /\ w.SYNC = g.SYNC
  BY <1>2 DEF Machine
<1>5. Stage(c) < n => do_store(c, op, mode) = g \/ do_store(c, op, mode) = w
  BY <1>1, <1>3
<1>. HIDE DEF w
<1>6. Stage(c) < n => do_store(c, op, mode).IR = c.IR /\ ~do_store(c, op, mode).SYNC
  BY <1>2, <1>4, <1>5
<1>. QED  BY <1>1, <1>6, StoreAdvances, SteadyUntilLast

LEMMA ModifySteady ==
  ASSUME NEW c, Running(c), NEW op, NEW mode \in MemModes, Stage(c) <= ArgStages(mode) + 2,
         Handler[Opcode(c)][1] \in WriteOps
  PROVE  Steady(c, do_modify(c, op, mode), ArgStages(mode) + 2)
<1>. DEFINE g   == GetArg(c, mode)
            n   == ArgStages(mode)
            ran == do_modify(c, op, mode)
<1>1. Stage(c) \in 0..7 /\ n \in 1..5
  BY StageType, ArgStagesType DEF Running
<1>2. g.IR = c.IR /\ ~g.SYNC
  BY WriteArg, GetArgContinues DEF Continues, Skips
<1>3. Stage(c) < n => ran = g
  BY <1>1 DEF do_modify
<1>4. Stage(c) \in n..(n + 1) => ran.IR = c.IR /\ ~ran.SYNC
  BY <1>1 DEF do_modify, Running, Machine
<1>5. Stage(c) < n + 2 => ran.IR = c.IR /\ ~ran.SYNC
  BY <1>1, <1>2, <1>3, <1>4
<1>6. Advances(c, ran, n + 2)
  BY ModifyAdvances
<1>. HIDE DEF ran, n
<1>7. n + 2 \in Int
  BY <1>1
<1>. QED  BY <1>5, <1>6, <1>7, SteadyUntilLast DEF ran, n

(* Every handler but those of the reads and the branches. *)
LEMMA RunSteady ==
  ASSUME NEW c \in CpuState, Running(c), Handler = opcodes, Stage(c) <= Last(c),
         Handler[Opcode(c)][1] \notin ReadOps \cup BranchOps \cup {"XX"}
  PROVE  Steady(c, run_opcode(c), Last(c))
<1>. DEFINE op   == Handler[Opcode(c)][1]
            mode == Handler[Opcode(c)][2]
<1>1. Handler[Opcode(c)] \in Handlers /\ Opcode(c) \in Byte
  BY OpcodeType, HandlerAssumption
<1>2. /\ op \in StoreOps => mode \in MemModes
      /\ op \in ModifyOps => mode \in MemModes \cup {"acc"}
      /\ op = "JMP" => mode \in {"abs", "ind"}
      /\ op \in StoreOps \cup ModifyOps \cup ImpliedOps
                \cup {"PHA", "PHP", "PLA", "PLP", "JSR", "RTS", "RTI", "JMP", "BRK"}
  BY <1>1, HandlerShape
<1>3. op \in StoreOps => op \in WriteOps \/ mode \notin LongIndexed
  BY <1>1, TableRegular DEF Regular, LongIndexed
<1>4. op \in ModifyOps => op \in WriteOps
  BY DEF ModifyOps, WriteOps
<1>5. c.A \in Byte /\ c.data_bus \in Byte
  BY FieldTypes DEF Running
<1>6. Handler[Opcode(c)][1] = op /\ Handler[Opcode(c)][2] = mode
  OBVIOUS
<1>. HIDE DEF op, mode
<1>. USE DEF ReadOps, StoreOps, ModifyOps, ImpliedOps, FlagOps, RegOps, BranchOps
<1>7. CASE op \in StoreOps
  <2>1. run_opcode(c) = do_store(c, op, mode) /\ Last(c) = ArgStages(mode)
    BY <1>6, <1>7 DEF run_opcode, Last, LastStage
  <2>. HIDE DEF StoreOps
  <2>. QED  BY <1>2, <1>3, <1>6, <1>7, <2>1, StoreSteady
<1>8. CASE op \in ModifyOps /\ mode = "acc"
  <2>1. run_opcode(c) = do_accumulator(c, op) /\ Last(c) = 1
    BY <1>6, <1>8 DEF run_opcode, Last, LastStage
  <2>. QED  BY <2>1, SimpleSteady
<1>9. CASE op \in ModifyOps /\ mode # "acc"
  <2>1. run_opcode(c) = do_modify(c, op, mode) /\ Last(c) = ArgStages(mode) + 2
    BY <1>6, <1>9 DEF run_opcode, Last, LastStage
  <2>. HIDE DEF ModifyOps
  <2>. QED  BY <1>2, <1>4, <1>6, <1>9, <2>1, ModifySteady
<1>10. CASE op \in ImpliedOps
  <2>1. run_opcode(c) = do_implied(c, op) /\ Last(c) = 1
    BY <1>6, <1>10 DEF run_opcode, Last, LastStage
  <2>. QED  BY <2>1, SimpleSteady
<1>11. CASE op \in {"PHP", "PHA"}
  <2>1. /\ op = "PHP" => run_opcode(c) = do_push(c, StatusByte(c))
        /\ op = "PHA" => run_opcode(c) = do_push(c, c.A)
        /\ Last(c) = 2
    BY <1>6, <1>11 DEF run_opcode, Last, LastStage
  <2>2. StatusByte(c) \in Byte
    BY ByteOfType DEF StatusByte
  <2>. QED  BY <1>5, <1>11, <2>1, <2>2, StackSteady
<1>12. CASE op \in {"PLP", "PLA"}
  <2>. DEFINE status == Bits(c.data_bus) \ {BF}
  <2>1. /\ op = "PLP" => run_opcode(c) = do_pull(c, [c EXCEPT !.status = status])
        /\ op = "PLA" => run_opcode(c) = do_pull(c, SetReg(c, "A", c.data_bus))
        /\ Last(c) = 3
    BY <1>6, <1>12 DEF run_opcode, Last, LastStage
  <2>2. Computes(c, [c EXCEPT !.status = status])
    BY BitsType, StatusComputes
  <2>3. Computes(c, SetReg(c, "A", c.data_bus))
    BY <1>5, SetRegComputes
  <2>. QED  BY <1>12, <2>1, <2>2, <2>3, StackSteady
<1>13. CASE op \in {"JSR", "RTS", "RTI"}
  <2>1. /\ op = "JSR" => run_opcode(c) = do_20(c)
        /\ op = "RTS" => run_opcode(c) = do_60(c)
        /\ op = "RTI" => run_opcode(c) = do_40(c)
        /\ Last(c) = 5
    BY <1>6, <1>13 DEF run_opcode, Last, LastStage
  <2>. QED  BY <1>13, <2>1, CallsSteady
<1>14. CASE op = "JMP"
  <2>1. /\ mode = "abs" => run_opcode(c) = do_4C(c) /\ Last(c) = 2
        /\ mode = "ind" => run_opcode(c) = do_6C(c) /\ Last(c) = 4
    BY <1>6, <1>14 DEF run_opcode, Last, LastStage
  <2>. QED  BY <1>2, <1>14, <2>1, SimpleSteady, CallsSteady
<1>15. CASE op = "BRK"
  <2>1. run_opcode(c) = do_00(c) /\ Last(c) = 6
    BY <1>6, <1>15 DEF run_opcode, Last, LastStage
  <2>. QED  BY <2>1, BreakSteady
<1>. QED  BY <1>2, <1>7, <1>8, <1>9, <1>10, <1>11, <1>12, <1>13, <1>14, <1>15

LEMMA SteadyTaking ==
  ASSUME NEW c, NEW s, NEW m, NEW ran, NEW d, NEW n, NEW k, NEW last \in 0..6, Running(c),
         Handler[Opcode(c)][1] \notin ReadOps \cup BranchOps,
         Steady(c, ran, last), Turned(c, m, ran, d, n), Taking(s, c, k)
  PROVE  IF d.SYNC THEN k = last ELSE Taking(s, d, k + 1)
<1>1. Stage(c) \in 0..7 /\ c.IR \in Int /\ k = Stage(c)
  BY StageType DEF Running, Machine, Taking
<1>2. Stage(d) = Stage(c) + 1 /\ Opcode(d) = Opcode(c)
  BY <1>1 DEF Steady, Turned
<1>3. d.SYNC => Stage(c) = last
  BY DEF Steady, Turned
<1>. QED  BY <1>1, <1>2, <1>3 DEF Taking

(* The cycles of a branch. *)
Aim(s) == U16(At(s, 2) + Signed(First(s)))

BranchTime(s, op) ==
  IF ~Taken(op, s.r.status) THEN 2 ELSE IF High(Aim(s)) = High(At(s, 2)) THEN 3 ELSE 4

LEMMA BranchTaking ==
  ASSUME NEW c, NEW s, NEW m, NEW d, NEW n, NEW k, Running(c), IsState(s),
         NEW op \in BranchOps, Handler[Opcode(c)][1] = op,
         BranchAt(s, c, m, op, Stage(c)), Stage(c) <= 3,
         Turned(c, m, branch(c, Taken(op, c.status)), d, n), Taking(s, c, k)
  PROVE  IF d.SYNC THEN k + 1 = BranchTime(s, op) ELSE Taking(s, d, k + 1)
<1>. DEFINE b == branch(c, Taken(op, c.status))
<1>1. /\ Stage(c) \in 0..3 /\ c \in Machine /\ c.IR \in Int /\ op \notin ReadOps
      /\ k = Stage(c) /\ (k = 3 => High(c.AD) # High(c.PC))
  BY StageType DEF Running, Machine, Taking, ReadOps, BranchOps
<1>2. /\ Shows(s, c, s.r.S, At(s, IF Stage(c) = 0 THEN 1 ELSE 2), s.r.status)
      /\ Stage(c) >= 2 => Taken(op, s.r.status) /\ c.AD = Aim(s)
  BY DEF BranchAt, Aim
<1>3. /\ Taken(op, c.status) <=> Taken(op, s.r.status)
      /\ Stage(c) >= 1 => c.PC = At(s, 2)
  <2>1. Seen(c.status) = s.r.status
    BY <1>2 DEF Shows, Seen
  <2>. QED  BY <1>1, <1>2, <2>1, SeenConditions DEF Shows
<1>4. b.IR = c.IR
  BY <1>1, BranchAdvances DEF Advances, Continues, Fetches, Skips, branch, NextByte, fetch, Machine
<1>5. /\ Stage(c) = 0 => ~b.SYNC
      /\ Stage(c) = 1 => (b.SYNC <=> ~Taken(op, c.status))
      /\ Stage(c) = 2 => (b.SYNC <=> High(c.AD) = High(c.PC))
      /\ Stage(c) = 2 /\ ~b.SYNC => b.AD = c.AD /\ b.PC = c.PC
      /\ Stage(c) = 3 => b.SYNC
  <2>1. ~c.SYNC
    BY DEF Running
  <2>. QED  BY <1>1, <2>1 DEF branch, NextByte, fetch, Machine
<1>. HIDE DEF b
<1>6. /\ Stage(d) = Stage(c) + 1 /\ Opcode(d) = Opcode(c)
      /\ d.SYNC = b.SYNC /\ d.AD = b.AD /\ d.PC = b.PC
  BY <1>1, <1>4 DEF Turned, b
<1>7. CASE d.SYNC
  BY <1>1, <1>2, <1>3, <1>5, <1>6, <1>7 DEF BranchTime
<1>8. CASE ~d.SYNC
  <2>1. Stage(d) = 3 => High(d.AD) # High(d.PC)
    BY <1>1, <1>5, <1>6, <1>8
  <2>. QED  BY <1>1, <1>6, <1>8, <2>1 DEF Taking
<1>. QED  BY <1>7, <1>8

----------------------------------------------------------------------------
(* The documented cycles, from the last stages. *)

LEMMA DocumentedReads ==
  ASSUME NEW s, IsState(s), NEW op \in ReadOps, NEW mode \in MemModes \cup {"imm"},
         Program!Here(s)[1] = op, Program!Here(s)[2] = mode
  PROVE  DocumentedCycles(s) =
           ArgStages(mode) + (IF mode \in LongIndexed /\ ~Crossed(s, mode) THEN 0 ELSE 1)
<1>1. /\ Program!Address(s) = Absolute(s)
      /\ Program!ZeroPagePointer(s, Program!Argument(s, 1)) = Pointed(s, First(s))
  <2>1. First(s) \in Byte
    BY AddressTypes
  <2>2. First(s) \in Int /\ Low(First(s)) = First(s)
    BY <2>1 DEF Byte, Low
  <2>. QED  BY <2>2, ArgumentBytes, PointerBytes
<1>. DEFINE crossed == \/ mode = "abs_x" /\ CrossesPage(Absolute(s), s.r.X)
                       \/ mode = "abs_y" /\ CrossesPage(Absolute(s), s.r.Y)
                       \/ mode = "ind_y" /\ CrossesPage(Pointed(s, First(s)), s.r.Y)
            fixed   == [imm |-> 2, zpg |-> 3, zpg_x |-> 4, zpg_y |-> 4, abs |-> 4,
                        abs_x |-> 4, abs_y |-> 4, x_ind |-> 6, ind_y |-> 5]
<1>2. DocumentedCycles(s) = fixed[mode] + (IF crossed THEN 1 ELSE 0)
  <2>. DEFINE pointer == Program!ZeroPagePointer(s, Program!Argument(s, 1))
              found   == \/ mode = "abs_x" /\ CrossesPage(Program!Address(s), s.r.X)
                         \/ mode = "abs_y" /\ CrossesPage(Program!Address(s), s.r.Y)
                         \/ mode = "ind_y" /\ CrossesPage(pointer, s.r.Y)
  <2>1. found <=> crossed
    BY <1>1
  <2>2. DocumentedCycles(s) = fixed[mode] + (IF found THEN 1 ELSE 0)
    <3>1. op \notin StoreOps \cup ModifyOps \cup ImpliedOps \cup BranchOps
                    \cup {"PHA", "PHP", "PLA", "PLP", "BRK", "JMP"}
      BY DEF BranchOps, ReadOps, StoreOps, ModifyOps, ImpliedOps, FlagOps, RegOps
    <3>. QED  BY <3>1 DEF DocumentedCycles
  <2>. HIDE DEF found, crossed, fixed
  <2>. QED  BY <2>1, <2>2
<1>3. fixed[mode] = ArgStages(mode) + (IF mode \in LongIndexed THEN 0 ELSE 1)
  BY DEF MemModes, ArgStages, LongIndexed
<1>4. crossed <=> mode \in LongIndexed /\ Crossed(s, mode)
  BY DEF Crossed, LongIndexed
<1>. HIDE DEF crossed, fixed
<1>5. ArgStages(mode) \in Int
  BY ArgStagesType
<1>. QED  BY <1>2, <1>3, <1>4, <1>5

LEMMA DocumentedBranches ==
  ASSUME NEW s, IsState(s), NEW op \in BranchOps, Program!Here(s)[1] = op
  PROVE  DocumentedCycles(s) = BranchTime(s, op)
<1>1. /\ Program!Condition(op, s.r.status) <=> Taken(op, s.r.status)
      /\ U16(U16(s.r.PC + 2) + Signed(Program!Argument(s, 1))) = Aim(s)
      /\ U16(s.r.PC + 2) = At(s, 2)
  BY SameCondition, ArgumentBytes DEF Aim, At
<1>2. op \notin ReadOps \cup StoreOps \cup ModifyOps \cup ImpliedOps
                \cup {"PHA", "PHP", "PLA", "PLP", "BRK", "JMP"}
  BY DEF BranchOps, ReadOps, StoreOps, ModifyOps, ImpliedOps, FlagOps, RegOps
<1>. HIDE DEF BranchOps
<1>. QED  BY <1>1, <1>2 DEF DocumentedCycles, BranchTime

LEMMA DocumentedOthers ==
  ASSUME NEW s, NEW h \in Handlers, h[1] \notin ReadOps \cup BranchOps \cup {"XX"},
         Program!Here(s)[1] = h[1], h[1] # "JSR" => Program!Here(s)[2] = h[2]
  PROVE  DocumentedCycles(s) = LastStage(h[1], h[2]) + 1
<1>. DEFINE op    == h[1]
            mode  == h[2]
            fixed == [imm |-> 2, zpg |-> 3, zpg_x |-> 4, zpg_y |-> 4, abs |-> 4,
                      abs_x |-> 4, abs_y |-> 4, x_ind |-> 6, ind_y |-> 5]
<1>1. /\ op \in StoreOps => mode \in MemModes
      /\ op \in ModifyOps => mode \in {"acc", "zpg", "zpg_x", "abs", "abs_x"}
      /\ op = "JMP" => mode \in {"abs", "ind"}
      /\ op \in StoreOps \cup ModifyOps \cup ImpliedOps
                \cup {"PHA", "PHP", "PLA", "PLP", "JSR", "RTS", "RTI", "JMP", "BRK"}
  BY HandlerShape DEF Handlers, ReadOps, StoreOps, ModifyOps, BranchOps, ImpliedOps, FlagOps,
                      RegOps
<1>2. Program!Here(s)[1] = op /\ (op # "JSR" => Program!Here(s)[2] = mode)
  OBVIOUS
<1>. HIDE DEF op, mode
<1>. USE DEF ReadOps, StoreOps, ModifyOps, ImpliedOps, FlagOps, RegOps, BranchOps
<1>3. CASE op \in StoreOps
  <2>1. DocumentedCycles(s) = fixed[mode] + (IF mode \in LongIndexed THEN 1 ELSE 0)
    BY <1>2, <1>3 DEF DocumentedCycles, LongIndexed
  <2>2. fixed[mode] + (IF mode \in LongIndexed THEN 1 ELSE 0) = ArgStages(mode) + 1
    BY <1>1, <1>3 DEF MemModes, LongIndexed, ArgStages
  <2>. QED  BY <1>3, <2>1, <2>2 DEF LastStage, op, mode
<1>4. CASE op \in ModifyOps
  <2>1. DocumentedCycles(s) = IF mode = "acc" THEN 2
                              ELSE fixed[mode] + (IF mode = "abs_x" THEN 3 ELSE 2)
    BY <1>2, <1>4 DEF DocumentedCycles
  <2>2. mode # "acc" => fixed[mode] + (IF mode = "abs_x" THEN 3 ELSE 2) = ArgStages(mode) + 3
    BY <1>1, <1>4 DEF ArgStages
  <2>3. ArgStages(mode) \in Int
    BY ArgStagesType
  <2>. QED  BY <1>4, <2>1, <2>2, <2>3 DEF LastStage, op, mode
<1>5. CASE op \in ImpliedOps
  BY <1>2, <1>5 DEF DocumentedCycles, LastStage, op
<1>6. CASE op \in {"PHA", "PHP", "PLA", "PLP", "JSR", "RTS", "RTI", "BRK"}
  BY <1>2, <1>6 DEF DocumentedCycles, LastStage, op
<1>7. CASE op = "JMP"
  BY <1>1, <1>2, <1>7 DEF DocumentedCycles, LastStage, op, mode
<1>. QED  BY <1>1, <1>3, <1>4, <1>5, <1>6, <1>7

----------------------------------------------------------------------------
(* A whole cycle, and the behaviours. *)

(* The count n at the end of an instruction; BRK may also be a reset. *)
Lasted(s, c, n) ==
  Opcode(c) # 0 \/ Program!Here(s)[1] = "BRK" =>
    \/ n = DocumentedCycles(s)
    \/ IndirectRead(s) /\ n - 1 = DocumentedCycles(s)

LEMMA ReadLasts ==
  ASSUME NEW c, NEW s, NEW k, IsState(s), Running(c),
         NEW op \in ReadOps, NEW mode \in MemModes \cup {"imm"},
         Handler[Opcode(c)][1] = op, Handler[Opcode(c)][2] = mode,
         Program!Here(s)[1] = op, Program!Here(s)[2] = mode,
         Stage(c) = ArgStages(mode), Taking(s, c, k)
  PROVE  Lasted(s, c, k + 1)
<1>1. DocumentedCycles(s) =
        ArgStages(mode) + (IF mode \in LongIndexed /\ ~Crossed(s, mode) THEN 0 ELSE 1)
  BY DocumentedReads
<1>2. ArgStages(mode) \in Int /\ (mode \in {"abs_x", "abs_y"} => ArgStages(mode) = 4)
  BY ArgStagesType DEF ArgStages
<1>3. \/ /\ k = ArgStages(mode)
         /\ mode \in {"abs_x", "abs_y"} => Crossed(s, mode)
      \/ k = ArgStages(mode) - 1 /\ mode \in LongIndexed /\ ~Crossed(s, mode)
  BY <1>2 DEF Taking
<1>4. mode = "ind_y" => IndirectRead(s)
  BY DEF IndirectRead
<1>5. mode \in LongIndexed => mode \in {"abs_x", "abs_y"} \/ mode = "ind_y"
  BY DEF LongIndexed
<1>6. CASE k = ArgStages(mode) - 1 /\ mode \in LongIndexed /\ ~Crossed(s, mode)
  <2>1. k + 1 = DocumentedCycles(s)
    BY <1>1, <1>2, <1>6
  <2>. QED  BY <2>1 DEF Lasted
<1>7. CASE k = ArgStages(mode) /\ (mode \in LongIndexed => Crossed(s, mode))
  <2>1. k + 1 = DocumentedCycles(s)
    BY <1>1, <1>2, <1>7
  <2>. QED  BY <2>1 DEF Lasted
<1>8. CASE k = ArgStages(mode) /\ mode = "ind_y" /\ ~Crossed(s, mode)
  <2>1. (k + 1) - 1 = DocumentedCycles(s)
    BY <1>1, <1>2, <1>8 DEF LongIndexed
  <2>. QED  BY <1>4, <1>8, <2>1 DEF Lasted
<1>. QED  BY <1>3, <1>5, <1>6, <1>7, <1>8

LEMMA TakingStep ==
  ASSUME NEW c \in CpuState, NEW s, NEW m, NEW d, NEW n, NEW k, Running(c), IsState(s),
         Handler = opcodes, Stage(c) <= Last(c), Handler[Opcode(c)][1] # "XX",
         Midway(s, c, m), Turned(c, m, run_opcode(c), d, n), Taking(s, c, k)
  PROVE  IF d.SYNC THEN Lasted(s, d, k + 1) ELSE Taking(s, d, k + 1)
<1>. DEFINE code == Opcode(c)
            h    == Handler[code]
            op   == h[1]
            mode == h[2]
<1>1. h \in Handlers /\ code \in Byte /\ Opcode(d) = code
  BY OpcodeType, HandlerAssumption DEF Turned
<1>2. /\ op \in ReadOps => mode \in MemModes \cup {"imm"}
      /\ Handler[0] = <<"BRK", "impl">>
  BY <1>1, HandlerShape, HandlerAssumption
<1>3. code # 0 => /\ Partway(s, c, m)
                  /\ Program!Here(s)[1] = op
                  /\ op # "JSR" => Program!Here(s)[2] = mode
  <2>1. code # 0 => code = Read(s.m, s.r.PC) /\ Partway(s, c, m)
    BY DEF Midway
  <2>2. code # 0 => /\ code # 32 => Program!Here(s) = Handler[code]
                    /\ Program!Here(s)[1] = op
    BY <1>1, <2>1, HereHandled
  <2>3. code = 32 => op = "JSR"
    <3>1. opcodes[32] = <<"JSR", "abs">>
      BY OpcodesAgree
    <3>. QED  BY <3>1
  <2>. QED  BY <2>1, <2>2, <2>3
<1>4. Handler[Opcode(c)][1] = op /\ Handler[Opcode(c)][2] = mode /\ op # "XX"
  OBVIOUS
<1>5. op \in ReadOps \cup BranchOps => code # 0
  BY <1>2 DEF ReadOps, BranchOps
<1>6. CASE op \in ReadOps
  <2>1. /\ run_opcode(c) = do_read(c, op, mode) /\ Last(c) = ArgStages(mode)
        /\ ArgAt(s, c, m, mode, Stage(c))
    <3>. HIDE DEF op, mode
    <3>1. Partway(s, c, m)
      BY <1>3, <1>5, <1>6
    <3>. QED  BY <1>4, <1>6, <3>1 DEF run_opcode, Last, LastStage, Partway, ReadOps, StoreOps,
                                      ModifyOps, ImpliedOps, FlagOps, RegOps, BranchOps
  <2>2. Program!Here(s)[1] = op /\ Program!Here(s)[2] = mode
    <3>1. op # "JSR"
      BY <1>6 DEF ReadOps
    <3>. QED  BY <1>3, <1>5, <1>6, <3>1
  <2>. HIDE DEF op, mode
  <2>3. IF d.SYNC THEN Stage(c) = ArgStages(mode) ELSE Taking(s, d, k + 1)
    BY <1>2, <1>4, <1>6, <2>1, ReadTaking
  <2>4. d.SYNC => Lasted(s, c, k + 1)
    BY <1>2, <1>4, <1>6, <2>2, <2>3, ReadLasts
  <2>. QED  BY <1>1, <2>3, <2>4 DEF Lasted
<1>7. CASE op \in BranchOps
  <2>1. /\ run_opcode(c) = branch(c, Taken(op, c.status)) /\ Last(c) = 3
        /\ BranchAt(s, c, m, op, Stage(c))
    <3>. HIDE DEF op, mode
    <3>1. Partway(s, c, m)
      BY <1>3, <1>5, <1>7
    <3>. QED  BY <1>4, <1>7, <3>1 DEF run_opcode, Last, LastStage, Partway, ReadOps, StoreOps,
                                      ModifyOps, ImpliedOps, FlagOps, RegOps, BranchOps
  <2>2. Program!Here(s)[1] = op
    BY <1>3, <1>5, <1>7
  <2>. HIDE DEF op, mode
  <2>3. IF d.SYNC THEN k + 1 = BranchTime(s, op) ELSE Taking(s, d, k + 1)
    BY <1>4, <1>7, <2>1, BranchTaking
  <2>4. DocumentedCycles(s) = BranchTime(s, op)
    BY <1>7, <2>2, DocumentedBranches
  <2>. QED  BY <2>3, <2>4 DEF Lasted
<1>8. CASE op \notin ReadOps \cup BranchOps
  <2>1. Last(c) = LastStage(op, mode) /\ Last(c) \in 0..6 /\ Last(c) \in Int
    BY LastType DEF Last
  <2>2. Steady(c, run_opcode(c), Last(c))
    BY <1>8, RunSteady
  <2>3. IF d.SYNC THEN k = Last(c) ELSE Taking(s, d, k + 1)
    BY <1>8, <2>1, <2>2, SteadyTaking
  <2>4. CASE d.SYNC /\ code # 0
    <3>1. DocumentedCycles(s) = LastStage(op, mode) + 1
      BY <1>1, <1>3, <1>8, <2>4, DocumentedOthers
    <3>. QED  BY <2>1, <2>3, <2>4, <3>1 DEF Lasted
  <2>5. CASE d.SYNC /\ code = 0
    <3>1. Program!Here(s)[1] = "BRK" => DocumentedCycles(s) = 7
      BY DEF DocumentedCycles, ReadOps, StoreOps, ModifyOps, ImpliedOps, FlagOps, RegOps,
             BranchOps
    <3>2. Last(c) = 6
      BY <1>2, <2>1, <2>5 DEF LastStage, ReadOps, StoreOps, ModifyOps, ImpliedOps, FlagOps,
                              RegOps, BranchOps
    <3>. QED  BY <1>1, <2>3, <2>5, <3>1, <3>2 DEF Lasted
  <2>. QED  BY <2>3, <2>4, <2>5
<1>. QED  BY <1>6, <1>7, <1>8

(* The count at the fetch, and where the stage stays. *)
LEMMA FreshTaking ==
  ASSUME NEW s, NEW c, Stage(c) = 0
  PROVE  Taking(s, c, 0)
BY DEF Taking

LEMMA SameTaking ==
  ASSUME NEW s, NEW b, NEW c, NEW n, Taking(s, c, n),
         b.IR = c.IR, b.AD = c.AD, b.PC = c.PC
  PROVE  Taking(s, b, n)
<1>1. Opcode(b) = Opcode(c) /\ Stage(b) = Stage(c)
  BY DEF Opcode, Stage
<1>. QED  BY <1>1 DEF Taking

LEMMA CyclesCount ==
  ASSUME cpu \in CpuState, Counting, phase # "crashed"
  PROVE  cycles \in Int
<1>1. Stage(cpu) \in Int
  BY DEF CpuState, IRs, Stage
<1>. QED  BY <1>1 DEF Counting, Taking

(* The count at the beginning of the cycle. *)
LEMMA BegunTaking ==
  ASSUME FollowInv, Counting, phase = "execute"
  PROVE  Taking(retired, Begun(cpu), cycles)
<1>1. cpu \in CpuState
  BY DEF FollowInv, IInv, TypeOK
<1>2. CASE cpu.SYNC
  <2>. DEFINE b == Begun(cpu)
  <2>1. b.IR = 0 \/ b.IR = 8 * cpu.data_bus
    BY <1>1, <1>2 DEF CpuState, Begun, Fetched
  <2>. HIDE DEF b
  <2>2. Stage(b) = 0
    <3>1. cpu.data_bus \in Byte
      BY <1>1 DEF CpuState
    <3>2. b.IR % 8 = 0
      BY <2>1, <3>1 DEF Byte
    <3>. QED  BY <3>2 DEF Stage
  <2>3. cycles = 0
    BY <1>2 DEF Counting
  <2>4. Taking(retired, b, cycles)
    BY <2>2, <2>3, FreshTaking
  <2>. QED  BY <2>4 DEF b
<1>3. CASE ~cpu.SYNC
  <2>. DEFINE b == Begun(cpu)
  <2>1. b.IR = cpu.IR /\ b.AD = cpu.AD /\ b.PC = cpu.PC
    BY <1>1, <1>3 DEF CpuState, Begun
  <2>2. Taking(retired, cpu, cycles)
    BY <1>3 DEF Counting
  <2>. HIDE DEF b
  <2>3. Taking(retired, b, cycles)
    BY <2>1, <2>2, SameTaking
  <2>. QED  BY <2>3 DEF b
<1>. QED  BY <1>2, <1>3

LEMMA ExecuteCounts ==
  ASSUME Handler = opcodes, FollowInv, Counting, FollowCycle, Execute
  PROVE  Counting' /\ (cpu'.SYNC => Lasted(retired, cpu', cycles + 1))
<1>. DEFINE c == Begun(cpu)
            m == mem
            d == cpu'
            n == mem'
<1>1. /\ phase = "execute" /\ Handler[Opcode(c)][1] # "XX" /\ phase' = "sample"
      /\ d = Answered(m, Cycled(c)) /\ n = Written(m, Cycled(c))
  BY DEF Execute, Unknown
<1>2. c \in CpuState /\ Running(c) /\ Stage(c) <= Last(c) /\ IsState(retired)
  BY BegunFits DEF FollowInv
<1>3. Midway(retired, c, m) /\ Taking(retired, c, cycles)
  BY <1>1, BegunMidway, BegunTaking
<1>4. Turned(c, m, run_opcode(c), d, n)
  <2>1. Turned(c, m, run_opcode(c), Answered(m, Cycled(c)), Written(m, Cycled(c)))
    <3>. HIDE DEF c, m
    <3>. QED  BY <1>1, <1>2, CycleTurns
  <2>. QED  BY <1>1, <2>1
<1>5. IF d.SYNC THEN Lasted(retired, d, cycles + 1) ELSE Taking(retired, d, cycles + 1)
  <2>. HIDE DEF c, m, d, n
  <2>. QED  BY <1>1, <1>2, <1>3, <1>4, TakingStep
<1>6. IF d.SYNC THEN cycles' = 0 ELSE cycles' = cycles + 1 /\ retired' = retired
  BY <1>1 DEF FollowCycle, Ends
<1>. QED  BY <1>1, <1>5, <1>6 DEF Counting

(* The other steps change neither the stage nor the count. *)
LEMMA QuietCounts ==
  ASSUME Counting, retired' = retired, cycles' = cycles,
         phase' # "crashed" =>
           /\ phase # "crashed" /\ cpu'.IR = cpu.IR /\ cpu'.AD = cpu.AD
           /\ cpu'.PC = cpu.PC /\ cpu'.SYNC = cpu.SYNC
  PROVE  Counting'
<1>1. phase' # "crashed" /\ Taking(retired, cpu, cycles) => Taking(retired, cpu', cycles)
  BY SameTaking
<1>. QED  BY <1>1 DEF Counting

(* What CycleAccurate asks of a step. *)
Accurate ==
  EndsInstruction =>
    \/ cycles + 1 = DocumentedCycles(retired)
    \/ IndirectRead(retired) /\ cycles = DocumentedCycles(retired)

LEMMA StepCounts ==
  ASSUME Handler = opcodes, FollowInv, Counting, [FollowNext]_allVars
  PROVE  Counting' /\ Accurate
<1>1. cpu \in CpuState
  BY DEF FollowInv, IInv, TypeOK
<1>2. CASE FollowCycle /\ Sample
  <2>1. /\ phase = "sample" /\ ~Ends
        /\ cpu' = IF cpu.RES THEN cpu ELSE [cpu EXCEPT !.break_status = @ \cup {"RST"}]
    BY <1>2 DEF Sample, Ends
  <2>2. retired' = retired /\ cycles' = cycles + 0
    BY <1>2, <2>1 DEF FollowCycle
  <2>3. cycles' = cycles
    BY <1>1, <2>1, <2>2, CyclesCount
  <2>4. /\ cpu'.IR = cpu.IR /\ cpu'.AD = cpu.AD
        /\ cpu'.PC = cpu.PC /\ cpu'.SYNC = cpu.SYNC
    BY <1>1, <2>1 DEF CpuState
  <2>5. Counting'
    BY <2>1, <2>2, <2>3, <2>4, QuietCounts
  <2>. QED  BY <2>1, <2>5 DEF Accurate, EndsInstruction
<1>3. CASE FollowCycle /\ Execute
  <2>1. Counting' /\ (cpu'.SYNC => Lasted(retired, cpu', cycles + 1))
    BY <1>3, ExecuteCounts
  <2>2. ASSUME EndsInstruction, Lasted(retired, cpu', cycles + 1)
        PROVE  \/ cycles + 1 = DocumentedCycles(retired)
               \/ IndirectRead(retired) /\ cycles = DocumentedCycles(retired)
    <3>1. cycles \in Int
      BY <1>1, <1>3, CyclesCount DEF Execute
    <3>2. Opcode(cpu') = 0 => Program!Here(retired)[1] = "BRK"
      BY <2>2 DEF EndsInstruction
    <3>3. \/ cycles + 1 = DocumentedCycles(retired)
          \/ IndirectRead(retired) /\ (cycles + 1) - 1 = DocumentedCycles(retired)
      BY <2>2, <3>2 DEF Lasted
    <3>. QED  BY <3>1, <3>3
  <2>. QED  BY <2>1, <2>2 DEF Accurate, EndsInstruction, Ends
<1>4. CASE FollowCycle /\ Crash
  <2>1. phase' = "crashed" /\ ~cpu'.SYNC
    BY <1>4, BegunFits DEF FollowInv, Crash, Running
  <2>. QED  BY <2>1 DEF Counting, Accurate, EndsInstruction, Ends
<1>5. CASE FollowPress
  <2>1. /\ cpu' = [cpu EXCEPT !.RES = FALSE] /\ phase' = phase
        /\ retired' = retired /\ cycles' = cycles /\ left' = left
    BY <1>5 DEF FollowPress, PressReset
  <2>2. /\ cpu'.IR = cpu.IR /\ cpu'.AD = cpu.AD
        /\ cpu'.PC = cpu.PC /\ cpu'.SYNC = cpu.SYNC
    BY <1>1, <2>1 DEF CpuState
  <2>3. Counting'
    BY <2>1, <2>2, QuietCounts
  <2>. QED  BY <2>1, <2>3 DEF Accurate, EndsInstruction
<1>6. CASE UNCHANGED allVars
  <2>1. cpu' = cpu /\ phase' = phase /\ retired' = retired /\ cycles' = cycles /\ left' = left
    BY <1>6 DEF allVars
  <2>2. Counting'
    BY <2>1, QuietCounts
  <2>. QED  BY <2>1, <2>2 DEF Accurate, EndsInstruction
<1>. QED  BY <1>2, <1>3, <1>4, <1>5, <1>6 DEF FollowNext, FollowCycle, Cycle

(***************************************************************************)
(* The clock cycles are the documented ones: from every start, with every  *)
(* memory image, every instruction that cpu_cycle ends (reset or BRK in    *)
(* its place aside) has taken its documented number of cycles since the    *)
(* opcode fetch, with one more on a crossed page (get_arg_absolute_index,  *)
(* get_arg_indirect_index) and one or two more on a taken branch (branch); *)
(* only a read through (zpg),Y may take one more than documented.          *)
(***************************************************************************)
THEOREM CyclesDocumented ==
  ASSUME Handler = opcodes
  PROVE  FollowSpec => CycleAccurate
<1>1. StartInit => FollowInv /\ Counting
  <2>1. StartInit => Counting
    <3>. SUFFICES ASSUME StartInit PROVE Counting
      OBVIOUS
    <3>1. PICK s \in Starts : cpu = AtFetch(s.r, s.m)
      BY DEF StartInit
    <3>2. cpu.SYNC
      BY <3>1 DEF AtFetch, init_cpu
    <3>. QED  BY <3>2 DEF StartInit, Counting
  <2>. QED  BY <2>1, StartFollows
<1>2. FollowInv /\ Counting /\ [FollowNext]_allVars => FollowInv' /\ Counting' /\ Accurate
  BY StepFollows, StepCounts
<1>. QED  BY <1>1, <1>2, PTL DEF FollowSpec, CycleAccurate, Accurate
=============================================================================
