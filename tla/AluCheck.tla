------------------------------ MODULE AluCheck ------------------------------
(***************************************************************************)
(* The operations of Alu against what the 6502's documentation says they   *)
(* compute: integer arithmetic on bytes, two's complement, binary coded    *)
(* decimal.  A behaviour is one operation; the properties relate the       *)
(* registers before and after it.                                          *)
(***************************************************************************)
EXTENDS Alu

CONSTANTS
  Accumulators,    \* values of A
  Operands,        \* values on the data bus
  Statuses         \* flags before the operation

ASSUME AluAssumption ==
  Accumulators \subseteq Byte /\ Operands \subseteq Byte /\ Statuses \subseteq SUBSET Bit

VARIABLES
  before,          \* the registers before the operation
  op,              \* the operation
  after            \* the registers after it

vars == <<before, op, after>>

Operations == {"ADC", "SBC", "CMP", "ORA", "AND", "EOR", "BIT",
               "ASL", "ROL", "LSR", "ROR"}

(* A shift of the accumulator, as the handlers of do_0A, do_2A, ... do it. *)
Shift(c, new) == [c EXCEPT !.A = new.res, !.status = new.status]

Result(c, o) ==
  CASE o = "ADC" -> do_ADC(c)
    [] o = "SBC" -> do_SBC(c)
    [] o = "CMP" -> do_CMP(c, c.A)
    [] o = "ORA" -> do_ORA(c)
    [] o = "AND" -> do_AND(c)
    [] o = "EOR" -> do_EOR(c)
    [] o = "BIT" -> do_BIT(c)
    [] o = "ASL" -> Shift(c, do_ASL(c.status, c.A))
    [] o = "ROL" -> Shift(c, do_ROL(c.status, c.A))
    [] o = "LSR" -> Shift(c, do_LSR(c.status, c.A))
    [] o = "ROR" -> Shift(c, do_ROR(c.status, c.A))

Init ==
  /\ before \in [A : Accumulators, data_bus : Operands, status : Statuses]
  /\ op = "none"
  /\ after = before

Apply ==
  /\ op = "none"
  /\ op' \in Operations
  /\ after' = Result(before, op')
  /\ UNCHANGED before

Next == Apply

Spec == Init /\ [][Next]_vars

----------------------------------------------------------------------------
Decimal == DF \in before.status
C == CarryIn(before.status)
A == before.A
M == before.data_bus

Has(flag) == flag \in after.status
Kept(flags) == after.status \cap flags = before.status \cap flags

(* N and Z describe the byte b. *)
SignAndZero(b) == Has(NF) = (b > 127) /\ Has(ZF) = (b = 0)

OutOfRange(n) == n < -128 \/ n > 127

(***************************************************************************)
(* Binary ADC is A + M + C modulo 256, with the carry out of it, and V     *)
(* exactly when the signed sum does not fit (do_ADC, m6502.c:236).         *)
(***************************************************************************)
BinaryAddition ==
  op = "ADC" /\ ~Decimal =>
    /\ after.A = (A + M + C) % 256
    /\ Has(CF) = (A + M + C > 255)
    /\ Has(VF) = OutOfRange(Signed(A) + Signed(M) + C)
    /\ SignAndZero(after.A)

(***************************************************************************)
(* Binary SBC is A - M - (1 - C), C is set when there is no borrow, and V  *)
(* exactly when the signed difference does not fit (do_SBC, m6502.c:284).  *)
(***************************************************************************)
BinarySubtraction ==
  op = "SBC" /\ ~Decimal =>
    /\ after.A = (A - M - (1 - C)) % 256
    /\ Has(CF) = (A - M - (1 - C) >= 0)
    /\ Has(VF) = OutOfRange(Signed(A) - Signed(M) - (1 - C))
    /\ SignAndZero(after.A)

Digits(b) == b \div 16 < 10 /\ b % 16 < 10
Value(b)  == 10 * (b \div 16) + (b % 16)

(***************************************************************************)
(* On two decimal digits each, decimal ADC and SBC compute modulo 100, and *)
(* the result is again two digits.                                         *)
(***************************************************************************)
DecimalArithmetic ==
  Decimal /\ Digits(A) /\ Digits(M) =>
    /\ op = "ADC" => /\ Digits(after.A)
                     /\ Value(after.A) = (Value(A) + Value(M) + C) % 100
                     /\ Has(CF) = (Value(A) + Value(M) + C > 99)
    /\ op = "SBC" => /\ Digits(after.A)
                     /\ Value(after.A) = (Value(A) - Value(M) - (1 - C)) % 100
                     /\ Has(CF) = (Value(A) - Value(M) - (1 - C) >= 0)

(***************************************************************************)
(* The comparisons and BIT leave A alone, order bytes without sign in the  *)
(* carry, and copy the two high bits of the operand (do_CMP, do_BIT).      *)
(***************************************************************************)
Comparisons ==
  /\ op = "CMP" => /\ after.A = A
                   /\ Has(CF) = (A >= M)
                   /\ Has(ZF) = (A = M)
                   /\ Has(NF) = ((A - M) % 256 > 127)
                   /\ Kept({IF_, DF, VF})
  /\ op = "BIT" => /\ after.A = A
                   /\ Has(NF) = (M > 127)
                   /\ Has(VF) = ((M \div 64) % 2 = 1)
                   /\ Kept({CF, IF_, DF})

(* The carry and the byte are nine bits that the rotations turn and the    *)
(* shifts push a zero into. *)
NineBits ==
  LET nine == after.A + (IF Has(CF) THEN 256 ELSE 0)
      turned == 2 * after.A + (IF Has(CF) THEN 1 ELSE 0)
  IN  /\ op = "ASL" => nine = 2 * A
      /\ op = "ROL" => nine = 2 * A + C
      /\ op = "LSR" => turned = A
      /\ op = "ROR" => turned = A + 256 * C
      /\ op \in {"ASL", "ROL", "LSR", "ROR"} =>
           SignAndZero(after.A) /\ Kept({IF_, DF, VF})

(* a + b is the sum of the or and the and, and the exclusive or is their   *)
(* difference. *)
Sums ==
  LET ored == do_ORA(before).A
      anded == do_AND(before).A
      eored == do_EOR(before).A
  IN  op \in {"ORA", "AND", "EOR"} =>
        /\ ored + anded = A + M
        /\ eored = ored - anded
        /\ after.A \in {ored, anded, eored}
        /\ SignAndZero(after.A) /\ Kept({CF, IF_, DF, VF})

(***************************************************************************)
(* No shift loses the bit that goes out, and the bitwise operations are    *)
(* told apart by what they do to sums (do_ORA ... do_ROR).                 *)
(***************************************************************************)
BitOperations == NineBits /\ Sums
=============================================================================
