-------------------------------- MODULE Isa --------------------------------
(***************************************************************************)
(* What a program sees of the 6502: whole instructions, one step each, on  *)
(* the registers and the memory.  This is the instruction set the emulator *)
(* promises (README.md of the repository names the references it was       *)
(* written from); CpuIsa shows that the cycles of Microcode implement it.  *)
(*                                                                         *)
(* The decoding is done from the bit pattern aaabbbcc of an opcode, not    *)
(* from a table.  The operations on a byte are those of Alu.  The B and X  *)
(* bits exist only in a pushed status byte, so the register has neither.   *)
(***************************************************************************)
EXTENDS Alu

CONSTANT Image       \* the memory when the machine is switched on

VARIABLE machine     \* [r |-> registers, m |-> bytes written]

Registers == [A : Byte, X : Byte, Y : Byte, S : Byte, PC : Word,
              status : SUBSET (Bit \ {BF, XF})]

Peek(m, a) == IF a \in DOMAIN m THEN m[a] ELSE Image[a]
PeekWord(m, lo, hi) == Peek(m, lo) + 256 * Peek(m, hi)
Poke(m, a, b) == [x \in DOMAIN m \cup {a} |-> IF x = a THEN b ELSE m[x]]

(* The field of an opcode's bits: aaabbbcc. *)
aaa(code) == code \div 32
bbb(code) == (code \div 4) % 8
cc(code)  == code % 4

Accumulator == <<"ORA", "AND", "EOR", "ADC", "STA", "LDA", "CMP", "SBC">>
Shift       == <<"ASL", "ROL", "LSR", "ROR", "STX", "LDX", "DEC", "INC">>
Control     == <<"none", "BIT", "JMP", "JMP", "STY", "LDY", "CPY", "CPX">>
Branches    == <<"BPL", "BMI", "BVC", "BVS", "BCC", "BCS", "BNE", "BEQ">>

Column01 == <<"x_ind", "zpg", "imm", "abs", "ind_y", "zpg_x", "abs_y", "abs_x">>
Column10 == <<"imm", "zpg", "acc", "abs", "none", "zpg_x", "none", "abs_x">>

(* The instructions outside the three regular groups. *)
Single ==
  [code \in {0, 8, 24, 32, 40, 56, 64, 72, 88, 96, 104, 120, 136, 138, 152, 154, 168,
             170, 184, 186, 200, 202, 216, 232, 234, 248} |->
     CASE code = 0   -> "BRK" [] code = 8   -> "PHP" [] code = 24  -> "CLC"
       [] code = 32  -> "JSR" [] code = 40  -> "PLP" [] code = 56  -> "SEC"
       [] code = 64  -> "RTI" [] code = 72  -> "PHA" [] code = 88  -> "CLI"
       [] code = 96  -> "RTS" [] code = 104 -> "PLA" [] code = 120 -> "SEI"
       [] code = 136 -> "DEY" [] code = 138 -> "TXA" [] code = 152 -> "TYA"
       [] code = 154 -> "TXS" [] code = 168 -> "TAY" [] code = 170 -> "TAX"
       [] code = 184 -> "CLV" [] code = 186 -> "TSX" [] code = 200 -> "INY"
       [] code = 202 -> "DEX" [] code = 216 -> "CLD" [] code = 232 -> "INX"
       [] code = 234 -> "NOP" [] code = 248 -> "SED"]

(* Which of the regular patterns are instructions. *)
Legal01(code) == code # 137                                   \* no STA #
Legal10(code) ==
  CASE bbb(code) = 0 -> aaa(code) = 5                         \* only LDX #
    [] bbb(code) = 2 -> aaa(code) < 4                         \* acc
    [] bbb(code) = 7 -> aaa(code) # 4                         \* no STX abs,Y
    [] OTHER         -> bbb(code) \in {1, 3, 5}
Legal00(code) ==
  CASE aaa(code) = 0         -> FALSE
    [] aaa(code) = 1         -> bbb(code) \in {1, 3}          \* BIT
    [] aaa(code) \in {2, 3}  -> bbb(code) = 3                 \* JMP
    [] aaa(code) = 4         -> bbb(code) \in {1, 3, 5}       \* STY
    [] aaa(code) = 5         -> bbb(code) \in {0, 1, 3, 5, 7} \* LDY
    [] OTHER                 -> bbb(code) \in {0, 1, 3}       \* CPY, CPX

(* STX and LDX are indexed by Y. *)
IndexedByX(code, mode) ==
  IF aaa(code) \in {4, 5}
  THEN CASE mode = "zpg_x" -> "zpg_y" [] mode = "abs_x" -> "abs_y" [] OTHER -> mode
  ELSE mode

Decode(code) ==
  CASE code \in DOMAIN Single                -> <<Single[code], "impl">>
    [] code % 32 = 16                        -> <<Branches[aaa(code) + 1], "rel">>
    [] cc(code) = 1 /\ Legal01(code)         ->
         <<Accumulator[aaa(code) + 1], Column01[bbb(code) + 1]>>
    [] cc(code) = 2 /\ Legal10(code)         ->
         <<Shift[aaa(code) + 1], IndexedByX(code, Column10[bbb(code) + 1])>>
    [] cc(code) = 0 /\ Legal00(code)         ->
         <<Control[aaa(code) + 1],
           IF aaa(code) = 3 THEN "ind" ELSE Column10[bbb(code) + 1]>>
    [] OTHER                                 -> <<"none", "impl">>

Length(op, mode) ==
  CASE op = "JSR" \/ mode \in {"abs", "abs_x", "abs_y", "ind"} -> 3
    [] mode \in {"impl", "acc"}                                -> 1
    [] OTHER                                                   -> 2

----------------------------------------------------------------------------
(* The operand of the instruction at PC. *)

Argument(s, i) == Peek(s.m, U16(s.r.PC + i))
Address(s)     == Argument(s, 1) + 256 * Argument(s, 2)

(* A pointer in page zero stays in page zero. *)
ZeroPagePointer(s, z) == PeekWord(s.m, z % 256, (z + 1) % 256)

EffectiveAddress(s, mode) ==
  CASE mode = "zpg"   -> Argument(s, 1)
    [] mode = "zpg_x" -> (Argument(s, 1) + s.r.X) % 256
    [] mode = "zpg_y" -> (Argument(s, 1) + s.r.Y) % 256
    [] mode = "abs"   -> Address(s)
    [] mode = "abs_x" -> U16(Address(s) + s.r.X)
    [] mode = "abs_y" -> U16(Address(s) + s.r.Y)
    [] mode = "x_ind" -> ZeroPagePointer(s, Argument(s, 1) + s.r.X)
    [] mode = "ind_y" -> U16(ZeroPagePointer(s, Argument(s, 1)) + s.r.Y)
    [] mode = "imm"   -> U16(s.r.PC + 1)

Operand(s, mode) == Peek(s.m, EffectiveAddress(s, mode))

Loaded(r, reg, b) ==
  [r EXCEPT ![reg] = b, !.status = update_flags_register(@, b)]

(* An operation of Alu on the registers and an operand. *)
WithOperand(r, b) == [A |-> r.A, status |-> r.status, data_bus |-> b]
From(r, c) == [r EXCEPT !.A = c.A, !.status = c.status]

Reading(r, op, b) ==
  LET c == WithOperand(r, b)
  IN  CASE op = "ORA" -> From(r, do_ORA(c))
        [] op = "AND" -> From(r, do_AND(c))
        [] op = "EOR" -> From(r, do_EOR(c))
        [] op = "ADC" -> From(r, do_ADC(c))
        [] op = "SBC" -> From(r, do_SBC(c))
        [] op = "BIT" -> From(r, do_BIT(c))
        [] op = "CMP" -> From(r, do_CMP(c, r.A))
        [] op = "CPX" -> From(r, do_CMP(c, r.X))
        [] op = "CPY" -> From(r, do_CMP(c, r.Y))
        [] op = "LDA" -> Loaded(r, "A", b)
        [] op = "LDX" -> Loaded(r, "X", b)
        [] op = "LDY" -> Loaded(r, "Y", b)

Changing(status, op, b) ==
  CASE op = "ASL" -> do_ASL(status, b)
    [] op = "ROL" -> do_ROL(status, b)
    [] op = "LSR" -> do_LSR(status, b)
    [] op = "ROR" -> do_ROR(status, b)
    [] op \in {"INC", "DEC"} ->
         LET res == U8(b + (IF op = "INC" THEN 1 ELSE -1))
         IN  [res |-> res, status |-> update_flags_register(status, res)]

(* The registers after an instruction without operand. *)
Inherent(r, op) ==
  CASE op = "CLC" -> [r EXCEPT !.status = Flag(@, CF, FALSE)]
    [] op = "SEC" -> [r EXCEPT !.status = Flag(@, CF, TRUE)]
    [] op = "CLI" -> [r EXCEPT !.status = Flag(@, IF_, FALSE)]
    [] op = "SEI" -> [r EXCEPT !.status = Flag(@, IF_, TRUE)]
    [] op = "CLD" -> [r EXCEPT !.status = Flag(@, DF, FALSE)]
    [] op = "SED" -> [r EXCEPT !.status = Flag(@, DF, TRUE)]
    [] op = "CLV" -> [r EXCEPT !.status = Flag(@, VF, FALSE)]
    [] op = "INX" -> Loaded(r, "X", U8(r.X + 1))
    [] op = "DEX" -> Loaded(r, "X", U8(r.X - 1))
    [] op = "INY" -> Loaded(r, "Y", U8(r.Y + 1))
    [] op = "DEY" -> Loaded(r, "Y", U8(r.Y - 1))
    [] op = "TAX" -> Loaded(r, "X", r.A)
    [] op = "TXA" -> Loaded(r, "A", r.X)
    [] op = "TAY" -> Loaded(r, "Y", r.A)
    [] op = "TYA" -> Loaded(r, "A", r.Y)
    [] op = "TSX" -> Loaded(r, "X", r.S)
    [] op = "TXS" -> [r EXCEPT !.S = r.X]
    [] op = "NOP" -> r

(* The stack occupies page one; S is the next free byte. *)
Slot(r, i) == 256 + U8(r.S + i)
Pushed(s, b) == [r |-> [s.r EXCEPT !.S = U8(@ - 1)], m |-> Poke(s.m, Slot(s.r, 0), b)]
PushedWord(s, w) == Pushed(Pushed(s, w \div 256), w % 256)
PushedStatus(s) == Pushed(s, ByteOf(s.r.status \cup {BF, XF}))
StatusOf(b) == Bits(b) \ {BF, XF}
Popped(r, n) == [r EXCEPT !.S = U8(@ + n)]
WordOnStack(s, i) == PeekWord(s.m, Slot(s.r, i), Slot(s.r, i + 1))

Condition(op, status) ==
  CASE op = "BPL" -> NF \notin status [] op = "BMI" -> NF \in status
    [] op = "BVC" -> VF \notin status [] op = "BVS" -> VF \in status
    [] op = "BCC" -> CF \notin status [] op = "BCS" -> CF \in status
    [] op = "BNE" -> ZF \notin status [] op = "BEQ" -> ZF \in status

Jump(s, w) == [s EXCEPT !.r.PC = U16(w)]

(* A jump through a pointer reads both of its bytes from one page. *)
JumpTarget(s) ==
  LET p == Address(s) IN PeekWord(s.m, p, 256 * (p \div 256) + ((p + 1) % 256))

BreakVector(s) ==
  LET pushed == PushedStatus(PushedWord(s, U16(s.r.PC + 2)))
  IN  PeekWord(pushed.m, 65534, 65535)

(* The machine after the instruction op, with its operand found by mode. *)
Executed(s, op, mode) ==
  LET after == Jump(s, s.r.PC + Length(op, mode))
  IN  CASE op \in {"ORA", "AND", "EOR", "ADC", "SBC", "BIT", "CMP", "CPX", "CPY",
                   "LDA", "LDX", "LDY"} ->
             [after EXCEPT !.r = Reading(@, op, Operand(s, mode))]
        [] op \in {"STA", "STX", "STY"} ->
             LET reg == CASE op = "STA" -> s.r.A [] op = "STX" -> s.r.X [] OTHER -> s.r.Y
             IN  [after EXCEPT !.m = Poke(@, EffectiveAddress(s, mode), reg)]
        [] op \in {"ASL", "ROL", "LSR", "ROR", "INC", "DEC"} /\ mode = "acc" ->
             LET new == Changing(s.r.status, op, s.r.A)
             IN  [after EXCEPT !.r.A = new.res, !.r.status = new.status]
        [] op \in {"ASL", "ROL", "LSR", "ROR", "INC", "DEC"} /\ mode # "acc" ->
             LET new == Changing(s.r.status, op, Operand(s, mode))
             IN  [after EXCEPT !.m = Poke(@, EffectiveAddress(s, mode), new.res),
                               !.r.status = new.status]
        [] op \in {Branches[i] : i \in 1..8} ->
             IF Condition(op, s.r.status)
             THEN Jump(after, after.r.PC + Signed(Argument(s, 1))) ELSE after
        [] op = "JMP" -> Jump(s, IF mode = "ind" THEN JumpTarget(s) ELSE Address(s))
        [] op = "JSR" -> LET called == PushedWord(s, U16(s.r.PC + 2))
                         IN  Jump(called, Argument(s, 1) + 256 * Argument(called, 2))
        [] op = "RTS" -> Jump([s EXCEPT !.r.S = U8(@ + 2)], WordOnStack(s, 1) + 1)
        [] op = "RTI" -> [Jump([s EXCEPT !.r.S = U8(@ + 3)], WordOnStack(s, 2))
                            EXCEPT !.r.status = StatusOf(Peek(s.m, Slot(s.r, 1)))]
        [] op = "PHA" -> Pushed(after, s.r.A)
        [] op = "PHP" -> PushedStatus(after)
        [] op = "PLA" -> [after EXCEPT !.r = Loaded(Popped(@, 1), "A",
                                                    Peek(s.m, Slot(s.r, 1)))]
        [] op = "PLP" -> [after EXCEPT !.r.S = U8(@ + 1),
                                       !.r.status = StatusOf(Peek(s.m, Slot(s.r, 1)))]
        [] op = "BRK" -> Jump([PushedStatus(PushedWord(s, U16(s.r.PC + 2)))
                                 EXCEPT !.r.status = @ \cup {IF_}],
                              BreakVector(s))
        [] OTHER      -> [after EXCEPT !.r = Inherent(@, op)]

----------------------------------------------------------------------------
Here(s) == Decode(Peek(s.m, s.r.PC))

(***************************************************************************)
(* A reset leaves A, X, Y and the memory alone, moves S down by three and  *)
(* continues at the reset vector.  It may also arrive while BRK is pushing *)
(* its return address: the bytes already pushed stay in memory.            *)
(***************************************************************************)
PushedBefore(s, k) ==
  CASE k = 0 -> s.m
    [] k = 1 -> Pushed(s, U16(s.r.PC + 2) \div 256).m
    [] k = 2 -> PushedWord(s, U16(s.r.PC + 2)).m

AfterReset(s, k) ==
  LET m == PushedBefore(s, k)
  IN  [m |-> m,
       r |-> [s.r EXCEPT !.S = U8(@ - 3), !.status = @ \cup {IF_},
                         !.PC = PeekWord(m, 65532, 65533)]]

Init ==
  /\ machine.r \in Registers
  /\ \A a \in DOMAIN machine.m : a \in Word /\ machine.m[a] \in Byte

Instruction ==
  /\ Here(machine)[1] # "none"
  /\ machine' = Executed(machine, Here(machine)[1], Here(machine)[2])

Reset ==
  \E k \in 0..(IF Here(machine)[1] = "BRK" THEN 2 ELSE 0) :
    machine' = AfterReset(machine, k)

Next == Instruction \/ Reset

Spec == Init /\ [][Next]_machine
=============================================================================
