-------------------------------- MODULE Alu --------------------------------
(***************************************************************************)
(* The arithmetic and logic operations of the 6502 of m6502.c: the do_*    *)
(* helpers that every opcode handler calls once its operand is on the data *)
(* bus.                                                                    *)
(*                                                                         *)
(* A byte is a number in 0..255.  Where the C code works on single bits,   *)
(* the byte is taken apart into the set of the positions of its one bits:  *)
(* | & ^ are then union, intersection and symmetric difference.  The       *)
(* status register is kept in that form: a subset of 0..7.                 *)
(*                                                                         *)
(* An operation takes a record c with at least the fields A, status and    *)
(* data_bus, as the C function takes M6502* cpu, and returns the record    *)
(* with the fields it assigns changed.                                     *)
(***************************************************************************)
EXTENDS Integers

Byte == 0..255
Word == 0..65535
Bit  == 0..7

(***************************************************************************)
(* The status flags, by the position of their bit (STATUS_* in m6502.h).   *)
(***************************************************************************)
CF == 0
ZF == 1
IF_ == 2
DF == 3
BF == 4
XF == 5
VF == 6
NF == 7

Weight == <<1, 2, 4, 8, 16, 32, 64, 128>>

Bits(b) == {i \in Bit : (b \div Weight[i + 1]) % 2 = 1}

ByteOf(S) ==
  LET w(i, v) == IF i \in S THEN v ELSE 0
  IN  w(0, 1) + w(1, 2) + w(2, 4) + w(3, 8)
        + w(4, 16) + w(5, 32) + w(6, 64) + w(7, 128)

BitOr(a, b)  == ByteOf(Bits(a) \cup Bits(b))
BitAnd(a, b) == ByteOf(Bits(a) \cap Bits(b))
BitXor(a, b) == ByteOf((Bits(a) \cup Bits(b)) \ (Bits(a) \cap Bits(b)))

(* The byte or word that an unsigned C variable holds after x is assigned. *)
U8(x)  == x % 256
U16(x) == x % 65536

(* Bit 7 of the low byte of x, the sign of the byte. *)
Negative(x) == (x \div 128) % 2 = 1

(* int8_t conversion of a byte, used for branch offsets. *)
Signed(b) == IF b >= 128 THEN b - 256 ELSE b

Flag(status, f, on) == IF on THEN status \cup {f} ELSE status \ {f}

CarryIn(status) == IF CF \in status THEN 1 ELSE 0

update_flags_register(status, reg) ==
  (status \ {NF, ZF}) \cup (IF Negative(reg) THEN {NF}
                            ELSE IF U8(reg) = 0 THEN {ZF} ELSE {})

----------------------------------------------------------------------------
(* Loading a register sets N and Z from the value loaded. *)
Load(c, status, value) ==
  [c EXCEPT !.A = value, !.status = update_flags_register(status, value)]

do_ORA(c) == Load(c, c.status, BitOr(c.A, c.data_bus))
do_AND(c) == Load(c, c.status, BitAnd(c.A, c.data_bus))
do_EOR(c) == Load(c, c.status, BitXor(c.A, c.data_bus))

do_BIT(c) ==
  [c EXCEPT !.status = ((@ \ {ZF, NF, VF})
                          \cup (IF BitAnd(c.A, c.data_bus) = 0 THEN {ZF} ELSE {}))
                       \cup (Bits(c.data_bus) \cap {VF, NF})]

(* A defect: the low digit is adjusted from eleven. *)
DecimalSumOffByOne(a, b, carry) ==
  LET adjust == (a % 16) + (b % 16) + carry > 10
      lo     == (a % 16) + (b % 16) + carry + (IF adjust THEN 6 ELSE 0)
      hi_sum == (a \div 16) + (b \div 16) + (IF adjust THEN 1 ELSE 0)
      hi     == IF hi_sum > 9 THEN hi_sum + 6 ELSE hi_sum
  IN  [value |-> (lo % 16) + 16 * (hi % 16), carry |-> hi_sum > 9]

(***************************************************************************)
(* The decimal sum, digit by digit; hi and lo are the uint8_t temporaries  *)
(* hi_sum and lo_sum.                                                      *)
(***************************************************************************)
DecimalSum(a, b, carry) ==
  LET lo_sum == (a % 16) + (b % 16) + carry
      adjust == lo_sum > 9
      lo     == IF adjust THEN lo_sum + 6 ELSE lo_sum
      hi_sum == (a \div 16) + (b \div 16) + (IF adjust THEN 1 ELSE 0)
      hi     == IF hi_sum > 9 THEN hi_sum + 6 ELSE hi_sum
  IN  [value |-> (lo % 16) + 16 * (hi % 16), carry |-> hi_sum > 9]

(***************************************************************************)
(* SBC keeps the V flag of before in decimal mode: the decimal branch of   *)
(* do_SBC clears only the carry, unlike do_ADC, which clears both.         *)
(***************************************************************************)
DecimalDifference(a, b, borrow) ==
  LET lo_digit == (a % 16) - (b % 16) - borrow
      hi_digit == (a \div 16) - (b \div 16) - (IF lo_digit < 0 THEN 1 ELSE 0)
      lo       == IF lo_digit < 0 THEN lo_digit + 10 ELSE lo_digit
      hi       == IF hi_digit < 0 THEN hi_digit + 10 ELSE hi_digit
  IN  [value |-> (lo % 16) + 16 * (hi % 16), carry |-> hi_digit >= 0]

(* A defect: the operand alone decides. *)
AdcOverflowOfOperand(prev, operand, new) == Negative(operand) # Negative(new)

AdcOverflow(prev, operand, new) ==
  Negative(prev) = Negative(operand) /\ Negative(prev) # Negative(new)

SbcOverflow(prev, operand, new) ==
  Negative(prev) # Negative(operand) /\ Negative(prev) # Negative(new)

do_ADC(c) ==
  LET decimal == DecimalSum(c.A, c.data_bus, CarryIn(c.status))
      sum     == c.A + c.data_bus + CarryIn(c.status)
      new     == IF DF \in c.status THEN decimal.value ELSE sum
      carry   == IF DF \in c.status THEN decimal.carry ELSE sum > 255
  IN  Load(c, Flag(Flag(c.status, CF, carry), VF, AdcOverflow(c.A, c.data_bus, new)), U8(new))

do_SBC(c) ==
  LET borrow  == 1 - CarryIn(c.status)
      decimal == DecimalDifference(c.A, c.data_bus, borrow)
      new     == IF DF \in c.status THEN decimal.value ELSE U16(c.A - c.data_bus - borrow)
      carry   == IF DF \in c.status THEN decimal.carry ELSE new < 256
      stale   == DF \in c.status /\ VF \in c.status
      over    == stale \/ SbcOverflow(c.A, c.data_bus, new)
  IN  Load(c, Flag(Flag(c.status, CF, carry), VF, over), U8(new))

(* A defect: equal bytes borrow. *)
do_CMP_Strict(c, reg) ==
  [c EXCEPT !.status = Flag(update_flags_register(@, U16(reg - c.data_bus)), CF, reg > c.data_bus)]

do_CMP(c, reg) ==
  [c EXCEPT !.status = Flag(update_flags_register(@, U16(reg - c.data_bus)), CF, reg >= c.data_bus)]

----------------------------------------------------------------------------
(***************************************************************************)
(* The shifts take a byte and return it with the new status.               *)
(***************************************************************************)
Shifted(status, res, carry) ==
  [res |-> res, status |-> update_flags_register(Flag(status, CF, carry), res)]

do_ASL(status, x) == Shifted(status, U8(2 * x), x >= 128)
do_ROL(status, x) == Shifted(status, U8(2 * x) + CarryIn(status), x >= 128)
do_LSR(status, x) == Shifted(status, x \div 2, x % 2 = 1)

(* A defect: the bit that goes out comes in again at once. *)
do_ROR_Around(status, x) == Shifted(status, (x \div 2) + 128 * (x % 2), x % 2 = 1)

do_ROR(status, x) == Shifted(status, (x \div 2) + 128 * CarryIn(status), x % 2 = 1)
=============================================================================
