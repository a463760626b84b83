--------------------------- MODULE AluCheckProofs ---------------------------
(***************************************************************************)
(* The arithmetic of Alu for every byte: binary and decimal ADC and SBC,   *)
(* the comparisons and the shifts compute what AluCheck says.              *)
(***************************************************************************)
EXTENDS AluCheck, TLAPS

(* Bytes, digits and bits. *)

LEMMA CarryInType == ASSUME NEW status PROVE CarryIn(status) \in 0..1
BY DEF CarryIn

(* The decimal sum and difference of two bytes are bytes. *)
LEMMA DecimalType ==
  ASSUME NEW a \in Byte, NEW b \in Byte, NEW k \in 0..1
  PROVE  DecimalSum(a, b, k).value \in Byte /\ DecimalDifference(a, b, k).value \in Byte
BY DEF DecimalSum, DecimalDifference, Byte

(* A byte is the sum of its bits. *)
LEMMA Halves ==
  ASSUME NEW a \in 0..255
  PROVE  /\ a = 2 * (a \div 2) + (a % 2)
         /\ a \div 2 = 2 * (a \div 4) + ((a \div 2) % 2)
         /\ a \div 4 = 2 * (a \div 8) + ((a \div 4) % 2)
         /\ a \div 8 = 2 * (a \div 16) + ((a \div 8) % 2)
         /\ a \div 16 = 2 * (a \div 32) + ((a \div 16) % 2)
         /\ a \div 32 = 2 * (a \div 64) + ((a \div 32) % 2)
         /\ a \div 64 = 2 * (a \div 128) + ((a \div 64) % 2)
         /\ a \div 128 = (a \div 128) % 2
<1>1. a = 2 * (a \div 2) + (a % 2) /\ a \div 128 = (a \div 128) % 2
  OBVIOUS
<1>2. a \div 2 = 2 * (a \div 4) + ((a \div 2) % 2)
  OBVIOUS
<1>3. a \div 4 = 2 * (a \div 8) + ((a \div 4) % 2)
  OBVIOUS
<1>4. a \div 8 = 2 * (a \div 16) + ((a \div 8) % 2)
  OBVIOUS
<1>5. a \div 16 = 2 * (a \div 32) + ((a \div 16) % 2)
  OBVIOUS
<1>6. a \div 32 = 2 * (a \div 64) + ((a \div 32) % 2)
  OBVIOUS
<1>7. a \div 64 = 2 * (a \div 128) + ((a \div 64) % 2)
  OBVIOUS
<1> QED
  BY <1>1, <1>2, <1>3, <1>4, <1>5, <1>6, <1>7

LEMMA ByteOfBits == ASSUME NEW a \in Byte PROVE ByteOf(Bits(a)) = a
<1>1. a \in 0..255
  BY DEF Byte
<1>3. /\ 0 \in Bits(a) <=> a % 2 = 1
      /\ 1 \in Bits(a) <=> (a \div 2) % 2 = 1
      /\ 2 \in Bits(a) <=> (a \div 4) % 2 = 1
      /\ 3 \in Bits(a) <=> (a \div 8) % 2 = 1
      /\ 4 \in Bits(a) <=> (a \div 16) % 2 = 1
      /\ 5 \in Bits(a) <=> (a \div 32) % 2 = 1
      /\ 6 \in Bits(a) <=> (a \div 64) % 2 = 1
      /\ 7 \in Bits(a) <=> (a \div 128) % 2 = 1
  BY <1>1 DEF Bits, Bit, Weight
<1>4. /\ a % 2 \in 0..1 /\ (a \div 2) % 2 \in 0..1 /\ (a \div 4) % 2 \in 0..1
      /\ (a \div 8) % 2 \in 0..1 /\ (a \div 16) % 2 \in 0..1 /\ (a \div 32) % 2 \in 0..1
      /\ (a \div 64) % 2 \in 0..1 /\ (a \div 128) % 2 \in 0..1
  BY <1>1
<1>5. PICK b0 \in 0..1, b1 \in 0..1, b2 \in 0..1, b3 \in 0..1,
           b4 \in 0..1, b5 \in 0..1, b6 \in 0..1, b7 \in 0..1 :
        /\ b0 = a % 2 /\ b1 = (a \div 2) % 2 /\ b2 = (a \div 4) % 2 /\ b3 = (a \div 8) % 2
        /\ b4 = (a \div 16) % 2 /\ b5 = (a \div 32) % 2 /\ b6 = (a \div 64) % 2
        /\ b7 = (a \div 128) % 2
  BY <1>4
<1>6. a = b0 + 2 * b1 + 4 * b2 + 8 * b3 + 16 * b4 + 32 * b5 + 64 * b6 + 128 * b7
  BY <1>1, <1>5, Halves
<1>7. /\ 0 \in Bits(a) <=> b0 = 1
      /\ 1 \in Bits(a) <=> b1 = 1
      /\ 2 \in Bits(a) <=> b2 = 1
      /\ 3 \in Bits(a) <=> b3 = 1
      /\ 4 \in Bits(a) <=> b4 = 1
      /\ 5 \in Bits(a) <=> b5 = 1
      /\ 6 \in Bits(a) <=> b6 = 1
      /\ 7 \in Bits(a) <=> b7 = 1
  BY <1>3, <1>5
<1> QED
  BY <1>6, <1>7 DEF ByteOf



Register == [A : Byte, data_bus : Byte, status : SUBSET Bit]

IInv ==
  /\ before \in Register
  /\ op \in Operations \cup {"none"}
  /\ op # "none" => after = Result(before, op)

LEMMA AluInv == Spec => []IInv
<1>1. Init => IInv
  BY AluAssumption DEF Init, IInv, Register
<1>2. IInv /\ [Next]_vars => IInv'
  <2> SUFFICES ASSUME IInv, [Next]_vars PROVE IInv'
    OBVIOUS
  <2>1. CASE Apply
    BY <2>1 DEF Apply, IInv
  <2>2. CASE UNCHANGED vars
    BY <2>2 DEF vars, IInv
  <2> QED
    BY <2>1, <2>2 DEF Next
<1> QED
  BY <1>1, <1>2, PTL DEF Spec

(* The flags after update_flags_register. *)
LEMMA UpdatedFlags ==
  ASSUME NEW status \in SUBSET Bit, NEW reg
  PROVE  /\ NF \in update_flags_register(status, reg) <=> Negative(reg)
         /\ ZF \in update_flags_register(status, reg) <=> ~Negative(reg) /\ U8(reg) = 0
         /\ \A f \in Bit \ {NF, ZF} :
              f \in update_flags_register(status, reg) <=> f \in status
BY DEF update_flags_register, NF, ZF, Bit

LEMMA ByteSign == ASSUME NEW b \in Byte PROVE U8(b) = b /\ Negative(b) = (b > 127)
BY DEF U8, Byte, Negative

LEMMA DifferenceSign ==
  ASSUME NEW d \in -255..255
  PROVE  /\ Negative(U16(d)) <=> d % 256 > 127
         /\ ~Negative(U16(d)) /\ U8(U16(d)) = 0 <=> d = 0
<1>1. Negative(U16(d)) <=> d % 256 > 127
  BY DEF Negative, U16
<1>2. U8(U16(d)) = d % 256
  BY DEF U8, U16
<1>3. d % 256 = 0 <=> d = 0
  OBVIOUS
<1> QED
  BY <1>1, <1>2, <1>3

(* The flags of a comparison. *)
LEMMA CompareFlags ==
  ASSUME NEW a \in Byte, NEW b \in Byte, NEW status \in SUBSET Bit, NEW s,
         s = Flag(update_flags_register(status, U16(a - b)), CF, a >= b)
  PROVE  /\ CF \in s <=> a >= b
         /\ ZF \in s <=> a = b
         /\ NF \in s <=> (a - b) % 256 > 127
         /\ \A f \in Bit \ {CF, ZF, NF} : f \in s <=> f \in status
<1>1. PICK d \in -255..255 : d = a - b
  BY DEF Byte
<1>2. PICK u : u = update_flags_register(status, U16(d))
  OBVIOUS
<1>3. /\ NF \in u <=> Negative(U16(d))
      /\ ZF \in u <=> ~Negative(U16(d)) /\ U8(U16(d)) = 0
      /\ \A f \in Bit \ {NF, ZF} : f \in u <=> f \in status
  BY <1>2, UpdatedFlags
<1>4. d = 0 <=> a = b
  BY <1>1 DEF Byte
<1>5. s = Flag(u, CF, a >= b)
  BY <1>1, <1>2
<1>6. CF \in s <=> a >= b
  BY <1>5 DEF Flag
<1>7. \A f \in Bit \ {CF} : f \in s <=> f \in u
  BY <1>5 DEF Flag
<1>8. {CF, ZF, NF} \subseteq Bit /\ CF # ZF /\ CF # NF
  BY DEF CF, ZF, NF, Bit
<1>9. ZF \in s <=> a = b
  BY <1>3, <1>4, <1>7, <1>8, DifferenceSign
<1>10. NF \in s <=> (a - b) % 256 > 127
  BY <1>1, <1>3, <1>7, <1>8, DifferenceSign
<1>11. \A f \in Bit \ {CF, ZF, NF} : f \in s <=> f \in status
  BY <1>3, <1>7, <1>8
<1> QED
  BY <1>6, <1>9, <1>10, <1>11

LEMMA ComparisonsOfBytes == IInv => Comparisons
<1> SUFFICES ASSUME IInv PROVE Comparisons
  OBVIOUS
<1>1. A \in Byte /\ M \in Byte /\ before.status \in SUBSET Bit /\ before \in Register
  BY DEF IInv, Register, A, M
<1>2. ASSUME op = "CMP" PROVE
        /\ after.A = A
        /\ Has(CF) = (A >= M) /\ Has(ZF) = (A = M) /\ Has(NF) = ((A - M) % 256 > 127)
        /\ Kept({IF_, DF, VF})
  <2> DEFINE s == Flag(update_flags_register(before.status, U16(A - M)), CF, A >= M)
  <2>1. after = [before EXCEPT !.status = s]
    BY <1>2 DEF IInv, Result, do_CMP, A, M
  <2>2. after.A = A /\ after.status = s
    BY <2>1, <1>1 DEF Register, A
  <2>3. /\ CF \in s <=> A >= M
        /\ ZF \in s <=> A = M
        /\ NF \in s <=> (A - M) % 256 > 127
        /\ \A f \in Bit \ {CF, ZF, NF} : f \in s <=> f \in before.status
    BY <1>1, CompareFlags
  <2> HIDE DEF s
  <2>4. \A f \in {IF_, DF, VF} : f \in s <=> f \in before.status
    BY <2>3 DEF CF, ZF, NF, IF_, DF, VF, Bit
  <2> QED
    BY <2>2, <2>3, <2>4 DEF Has, Kept
<1>3. ASSUME op = "BIT" PROVE
        /\ after.A = A
        /\ Has(NF) = (M > 127) /\ Has(VF) = ((M \div 64) % 2 = 1)
        /\ Kept({CF, IF_, DF})
  <2> DEFINE z == IF BitAnd(A, M) = 0 THEN {ZF} ELSE {}
  <2>1. after = [before EXCEPT !.status = ((before.status \ {ZF, NF, VF}) \cup z)
                                            \cup (Bits(M) \cap {VF, NF})]
    BY <1>3 DEF IInv, Result, do_BIT, A, M
  <2>2. /\ after.A = A
        /\ after.status = ((before.status \ {ZF, NF, VF}) \cup z) \cup (Bits(M) \cap {VF, NF})
    BY <2>1, <1>1 DEF Register, A
  <2>3. z \subseteq {ZF}
    OBVIOUS
  <2>4. /\ NF \in Bits(M) <=> M > 127
        /\ VF \in Bits(M) <=> (M \div 64) % 2 = 1
    BY <1>1 DEF Bits, Bit, Weight, NF, VF, Byte
  <2> HIDE DEF z
  <2> QED
    BY <2>2, <2>3, <2>4 DEF Has, Kept, CF, ZF, NF, IF_, DF, VF
<1> QED
  BY <1>2, <1>3 DEF Comparisons

(* The flags after the accumulator has been loaded with a sum. *)
LEMMA LoadedFlags ==
  ASSUME NEW status \in SUBSET Bit, NEW carry \in BOOLEAN, NEW over \in BOOLEAN,
         NEW v \in Byte, NEW s,
         s = update_flags_register(Flag(Flag(status, CF, carry), VF, over), v)
  PROVE  /\ CF \in s <=> carry
         /\ VF \in s <=> over
         /\ NF \in s <=> v > 127
         /\ ZF \in s <=> v = 0
<1>1. PICK u : u = Flag(Flag(status, CF, carry), VF, over)
  OBVIOUS
<1>2. u \in SUBSET Bit /\ (CF \in u <=> carry) /\ (VF \in u <=> over)
  BY <1>1 DEF Flag, CF, VF, Bit
<1>3. /\ NF \in s <=> Negative(v)
      /\ ZF \in s <=> ~Negative(v) /\ U8(v) = 0
      /\ \A f \in Bit \ {NF, ZF} : f \in s <=> f \in u
  BY <1>1, <1>2, UpdatedFlags
<1>4. {CF, VF} \subseteq Bit \ {NF, ZF}
  BY DEF CF, VF, NF, ZF, Bit
<1>5. (Negative(v) <=> v > 127) /\ U8(v) = v
  BY ByteSign
<1>6. v = 0 => ~(v > 127)
  BY DEF Byte
<1> QED
  BY <1>2, <1>3, <1>4, <1>5, <1>6

(* V of a sum: equal signs that the result does not have. *)
LEMMA SumOverflow ==
  ASSUME NEW a \in Byte, NEW b \in Byte, NEW k \in 0..1
  PROVE  AdcOverflow(a, b, a + b + k) <=> OutOfRange(Signed(a) + Signed(b) + k)
<1>1. PICK n \in 0..511 : n = a + b + k
  BY DEF Byte
<1>2. Negative(n) = (n % 256 > 127)
  BY DEF Negative
<1>3. /\ Signed(a) = IF a > 127 THEN a - 256 ELSE a
      /\ Signed(b) = IF b > 127 THEN b - 256 ELSE b
  BY DEF Signed, Byte
<1>4. n % 256 = IF n > 255 THEN n - 256 ELSE n
  OBVIOUS
<1>5. AdcOverflow(a, b, n) <=> (a > 127 <=> b > 127) /\ ~(a > 127 <=> n % 256 > 127)
  BY <1>2, ByteSign DEF AdcOverflow
<1> QED
  BY <1>1, <1>3, <1>4, <1>5 DEF OutOfRange, Byte

(* And of a difference. *)
LEMMA DifferenceOverflow ==
  ASSUME NEW a \in Byte, NEW b \in Byte, NEW k \in 0..1
  PROVE  SbcOverflow(a, b, U16(a - b - k)) <=> OutOfRange(Signed(a) - Signed(b) - k)
<1>1. PICK d \in -256..255 : d = a - b - k
  BY DEF Byte
<1>2. Negative(U16(d)) = (d % 256 > 127)
  BY DEF Negative, U16
<1>3. /\ Signed(a) = IF a > 127 THEN a - 256 ELSE a
      /\ Signed(b) = IF b > 127 THEN b - 256 ELSE b
  BY DEF Signed, Byte
<1>4. d % 256 = IF d < 0 THEN d + 256 ELSE d
  OBVIOUS
<1>5. SbcOverflow(a, b, U16(d)) <=> ~(a > 127 <=> b > 127) /\ ~(a > 127 <=> d % 256 > 127)
  BY <1>2, ByteSign DEF SbcOverflow
<1> QED
  BY <1>1, <1>3, <1>4, <1>5 DEF OutOfRange, Byte

LEMMA AdditionOfBytes == IInv => BinaryAddition
<1> SUFFICES ASSUME IInv, op = "ADC", ~Decimal
             PROVE  /\ after.A = (A + M + C) % 256
                    /\ Has(CF) = (A + M + C > 255)
                    /\ Has(VF) = OutOfRange(Signed(A) + Signed(M) + C)
                    /\ SignAndZero(after.A)
  BY DEF BinaryAddition
<1>1. A \in Byte /\ M \in Byte /\ before.status \in SUBSET Bit /\ C \in 0..1
  BY CarryInType DEF IInv, Register, A, M, C
<1>2. PICK n : n = A + M + C
  OBVIOUS
<1>3. n \in 0..511
  BY <1>1, <1>2 DEF Byte
<1>4. PICK o \in BOOLEAN : o <=> AdcOverflow(A, M, n)
  OBVIOUS
<1>5. PICK c \in BOOLEAN : c <=> n > 255
  OBVIOUS
<1>6. PICK v \in Byte : v = U8(n) /\ v = n % 256
  BY <1>3 DEF U8, Byte
<1>7. PICK s : s = update_flags_register(Flag(Flag(before.status, CF, c), VF, o), v)
  OBVIOUS
<1>8. after.A = v /\ after.status = s
  <2>1. after = do_ADC(before)
    BY DEF IInv, Result
  <2>2. do_ADC(before) = [before EXCEPT !.A = v, !.status = s]
    <3>1. /\ Flag(before.status, CF, n > 255) = Flag(before.status, CF, c)
          /\ \A t : Flag(t, VF, AdcOverflow(A, M, n)) = Flag(t, VF, o)
      BY <1>4, <1>5 DEF Flag
    <3>2. do_ADC(before) = Load(before, Flag(Flag(before.status, CF, n > 255), VF, AdcOverflow(A, M, n)), v)
      BY <1>2, <1>6 DEF do_ADC, Decimal, A, M, C
    <3> QED
      BY <1>7, <3>1, <3>2 DEF Load
  <2> QED
    BY <2>1, <2>2 DEF IInv, Register
<1>9. /\ CF \in s <=> c
      /\ VF \in s <=> o
      /\ NF \in s <=> v > 127
      /\ ZF \in s <=> v = 0
  BY <1>1, <1>7, LoadedFlags
<1>10. o <=> OutOfRange(Signed(A) + Signed(M) + C)
  BY <1>1, <1>2, <1>4, SumOverflow
<1>11. Has(CF) = (A + M + C > 255)
  BY <1>2, <1>5, <1>6, <1>8, <1>9 DEF Has
<1>12. OutOfRange(Signed(A) + Signed(M) + C) \in BOOLEAN
  BY DEF OutOfRange
<1>13. Has(VF) = OutOfRange(Signed(A) + Signed(M) + C)
  BY <1>8, <1>9, <1>10, <1>12 DEF Has
<1>14. SignAndZero(after.A)
  BY <1>8, <1>9 DEF Has, SignAndZero
<1> QED
  BY <1>2, <1>6, <1>8, <1>11, <1>13, <1>14

LEMMA SubtractionOfBytes == IInv => BinarySubtraction
<1> SUFFICES ASSUME IInv, op = "SBC", ~Decimal
             PROVE  /\ after.A = (A - M - (1 - C)) % 256
                    /\ Has(CF) = (A - M - (1 - C) >= 0)
                    /\ Has(VF) = OutOfRange(Signed(A) - Signed(M) - (1 - C))
                    /\ SignAndZero(after.A)
  BY DEF BinarySubtraction
<1>1. A \in Byte /\ M \in Byte /\ before.status \in SUBSET Bit /\ C \in 0..1 /\ 1 - C \in 0..1
  BY CarryInType DEF IInv, Register, A, M, C
<1>2. PICK d : d = A - M - (1 - C)
  OBVIOUS
<1>3. d \in -256..255
  BY <1>1, <1>2 DEF Byte
<1>4. PICK o \in BOOLEAN : o <=> SbcOverflow(A, M, U16(d))
  OBVIOUS
<1>5. PICK c \in BOOLEAN : c <=> U16(d) < 256
  OBVIOUS
<1>6. PICK v \in Byte : v = U8(U16(d)) /\ v = d % 256 /\ (U16(d) < 256 <=> d >= 0)
  <2>1. U8(U16(d)) \in Byte /\ U8(U16(d)) = d % 256 /\ (U16(d) < 256 <=> d >= 0)
    BY <1>3 DEF U8, U16, Byte
  <2> QED
    BY <2>1
<1>7. PICK s : s = update_flags_register(Flag(Flag(before.status, CF, c), VF, o), v)
  OBVIOUS
<1>8. after.A = v /\ after.status = s
  <2>1. after = do_SBC(before)
    BY DEF IInv, Result
  <2>2. do_SBC(before) = [before EXCEPT !.A = v, !.status = s]
    <3>1. /\ Flag(before.status, CF, U16(d) < 256) = Flag(before.status, CF, c)
          /\ \A t : Flag(t, VF, \/ DF \in before.status /\ VF \in before.status
                               \/ SbcOverflow(A, M, U16(d))) = Flag(t, VF, o)
      BY <1>4, <1>5 DEF Flag, Decimal
    <3>2. do_SBC(before) =
            Load(before, Flag(Flag(before.status, CF, U16(d) < 256),
                              VF, \/ DF \in before.status /\ VF \in before.status
                                  \/ SbcOverflow(A, M, U16(d))), v)
      BY <1>2, <1>6 DEF do_SBC, Decimal, A, M, C
    <3> QED
      BY <1>7, <3>1, <3>2 DEF Load
  <2> QED
    BY <2>1, <2>2 DEF IInv, Register
<1>9. /\ CF \in s <=> c
      /\ VF \in s <=> o
      /\ NF \in s <=> v > 127
      /\ ZF \in s <=> v = 0
  BY <1>1, <1>7, LoadedFlags
<1>10. o <=> OutOfRange(Signed(A) - Signed(M) - (1 - C))
  BY <1>1, <1>2, <1>4, DifferenceOverflow
<1>11. Has(CF) = (A - M - (1 - C) >= 0)
  BY <1>2, <1>5, <1>6, <1>8, <1>9 DEF Has
<1>12. OutOfRange(Signed(A) - Signed(M) - (1 - C)) \in BOOLEAN
  BY DEF OutOfRange
<1>13. Has(VF) = OutOfRange(Signed(A) - Signed(M) - (1 - C))
  BY <1>8, <1>9, <1>10, <1>12 DEF Has
<1>14. SignAndZero(after.A)
  BY <1>8, <1>9 DEF Has, SignAndZero
<1> QED
  BY <1>2, <1>6, <1>8, <1>11, <1>13, <1>14

----------------------------------------------------------------------------
(* Two decimal digits are added with a carry from one to the other. *)
LEMMA DigitsOf ==
  ASSUME NEW h \in 0..9, NEW l \in 0..9, NEW n, n = 16 * h + l
  PROVE  n \in Byte /\ n \div 16 = h /\ n % 16 = l /\ Digits(n) /\ Value(n) = 10 * h + l
<1>1. n \in 0..255 /\ n \div 16 = h /\ n % 16 = l
  OBVIOUS
<1> QED
  BY <1>1 DEF Digits, Value, Byte

LEMMA DigitsBack ==
  ASSUME NEW n \in Byte, Digits(n)
  PROVE  \E h \in 0..9, l \in 0..9 :
           n = 16 * h + l /\ n \div 16 = h /\ n % 16 = l /\ Value(n) = 10 * h + l
<1>1. n \div 16 \in 0..9 /\ n % 16 \in 0..9 /\ n = 16 * (n \div 16) + (n % 16)
  BY DEF Digits, Byte
<1> QED
  BY <1>1 DEF Value

LEMMA DecimalAddition ==
  ASSUME NEW a \in Byte, NEW b \in Byte, NEW k \in 0..1, Digits(a), Digits(b)
  PROVE  LET r == DecimalSum(a, b, k)
         IN  /\ Digits(r.value) /\ Value(r.value) = (Value(a) + Value(b) + k) % 100
             /\ r.carry = (Value(a) + Value(b) + k > 99)
<1>1. PICK h \in 0..9, l \in 0..9 :
        a = 16 * h + l /\ a \div 16 = h /\ a % 16 = l /\ Value(a) = 10 * h + l
  BY DigitsBack
<1>2. PICK g \in 0..9, m \in 0..9 :
        b = 16 * g + m /\ b \div 16 = g /\ b % 16 = m /\ Value(b) = 10 * g + m
  BY DigitsBack
<1>3. PICK ad \in 0..1 : ad = IF l + m + k > 9 THEN 1 ELSE 0
  OBVIOUS
<1>4. PICK ca \in 0..1 : ca = IF h + g + ad > 9 THEN 1 ELSE 0
  OBVIOUS
<1>5. PICK hi \in 0..9, lo \in 0..9 : hi = h + g + ad - 10 * ca /\ lo = l + m + k - 10 * ad
  BY <1>3, <1>4
<1>6. DecimalSum(a, b, k) = [value |-> 16 * hi + lo, carry |-> h + g + ad > 9]
  <2>1. DecimalSum(a, b, k) = [value |-> lo + 16 * hi, carry |-> h + g + ad > 9]
    BY <1>1, <1>2, <1>3, <1>4, <1>5 DEF DecimalSum
  <2> QED
    BY <2>1
<1>7. Digits(16 * hi + lo) /\ Value(16 * hi + lo) = 10 * hi + lo
  BY DigitsOf
<1>8. PICK n \in 0..199 : n = Value(a) + Value(b) + k /\ n = 100 * ca + (10 * hi + lo)
  BY <1>1, <1>2, <1>5
<1>9. n % 100 = 10 * hi + lo /\ (n > 99 <=> h + g + ad > 9)
  BY <1>4, <1>8
<1> QED
  BY <1>6, <1>7, <1>8, <1>9

LEMMA DecimalSubtraction ==
  ASSUME NEW a \in Byte, NEW b \in Byte, NEW k \in 0..1, Digits(a), Digits(b)
  PROVE  LET r == DecimalDifference(a, b, k)
         IN  /\ Digits(r.value) /\ Value(r.value) = (Value(a) - Value(b) - k) % 100
             /\ r.carry = (Value(a) - Value(b) - k >= 0)
<1>1. PICK h \in 0..9, l \in 0..9 :
        a = 16 * h + l /\ a \div 16 = h /\ a % 16 = l /\ Value(a) = 10 * h + l
  BY DigitsBack
<1>2. PICK g \in 0..9, m \in 0..9 :
        b = 16 * g + m /\ b \div 16 = g /\ b % 16 = m /\ Value(b) = 10 * g + m
  BY DigitsBack
<1>3. PICK ad \in 0..1 : ad = IF l - m - k < 0 THEN 1 ELSE 0
  OBVIOUS
<1>4. PICK ca \in 0..1 : ca = IF h - g - ad < 0 THEN 1 ELSE 0
  OBVIOUS
<1>5. PICK hi \in 0..9, lo \in 0..9 : hi = h - g - ad + 10 * ca /\ lo = l - m - k + 10 * ad
  BY <1>3, <1>4
<1>6. DecimalDifference(a, b, k) = [value |-> 16 * hi + lo, carry |-> h - g - ad >= 0]
  <2>1. DecimalDifference(a, b, k) = [value |-> lo + 16 * hi, carry |-> h - g - ad >= 0]
    BY <1>1, <1>2, <1>3, <1>4, <1>5 DEF DecimalDifference
  <2> QED
    BY <2>1
<1>7. Digits(16 * hi + lo) /\ Value(16 * hi + lo) = 10 * hi + lo
  BY DigitsOf
<1>8. PICK n \in -100..99 : n = Value(a) - Value(b) - k /\ n = 10 * hi + lo - 100 * ca
  BY <1>1, <1>2, <1>5
<1>9. n % 100 = 10 * hi + lo /\ (n >= 0 <=> h - g - ad >= 0)
  BY <1>4, <1>8
<1> QED
  BY <1>6, <1>7, <1>8, <1>9

----------------------------------------------------------------------------
(* Or and and have as many bits, and exclusive or the difference. *)
LEMMA BitSums ==
  ASSUME NEW a \in Byte, NEW b \in Byte
  PROVE  BitOr(a, b) + BitAnd(a, b) = a + b /\ BitXor(a, b) = BitOr(a, b) - BitAnd(a, b)
<1>1. \A S, T : ByteOf(S \cup T) + ByteOf(S \cap T) = ByteOf(S) + ByteOf(T)
  BY DEF ByteOf
<1>2. \A S, T : ByteOf((S \cup T) \ (S \cap T)) = ByteOf(S \cup T) - ByteOf(S \cap T)
  BY DEF ByteOf
<1>3. ByteOf(Bits(a)) = a /\ ByteOf(Bits(b)) = b
  BY ByteOfBits
<1>4. BitOr(a, b) + BitAnd(a, b) = a + b
  BY <1>1, <1>3 DEF BitOr, BitAnd
<1>5. BitXor(a, b) = BitOr(a, b) - BitAnd(a, b)
  BY <1>2 DEF BitOr, BitAnd, BitXor
<1> QED
  BY <1>4, <1>5

----------------------------------------------------------------------------
LEMMA DecimalOfBytes == IInv => DecimalArithmetic
<1> SUFFICES ASSUME IInv, Decimal, Digits(A), Digits(M) PROVE DecimalArithmetic
  BY DEF DecimalArithmetic
<1>1. A \in Byte /\ M \in Byte /\ before.status \in SUBSET Bit /\ C \in 0..1 /\ 1 - C \in 0..1
  BY CarryInType DEF IInv, Register, A, M, C
<1>2. ASSUME op = "ADC"
      PROVE  /\ Digits(after.A) /\ Value(after.A) = (Value(A) + Value(M) + C) % 100
             /\ Has(CF) = (Value(A) + Value(M) + C > 99)
  <2>1. PICK r : r = DecimalSum(A, M, C)
    OBVIOUS
  <2>2. /\ Digits(r.value) /\ Value(r.value) = (Value(A) + Value(M) + C) % 100
        /\ r.carry = (Value(A) + Value(M) + C > 99)
    BY <1>1, <2>1, DecimalAddition
  <2>3. r.value \in Byte
    BY <1>1, <2>1, DecimalType
  <2>4. PICK o \in BOOLEAN : o <=> AdcOverflow(A, M, r.value)
    OBVIOUS
  <2>5. PICK c \in BOOLEAN : c <=> r.carry
    OBVIOUS
  <2>6. PICK s : s = update_flags_register(Flag(Flag(before.status, CF, c), VF, o), r.value)
    OBVIOUS
  <2>7. U8(r.value) = r.value
    BY <2>3, ByteSign
  <2>8. after = do_ADC(before)
    BY <1>2 DEF IInv, Result
  <2>9. do_ADC(before) = Load(before, Flag(Flag(before.status, CF, r.carry), VF, AdcOverflow(A, M, r.value)), r.value)
    BY <2>1, <2>7 DEF do_ADC, Decimal, A, M, C
  <2>10. /\ Flag(before.status, CF, r.carry) = Flag(before.status, CF, c)
         /\ \A t : Flag(t, VF, AdcOverflow(A, M, r.value)) = Flag(t, VF, o)
    BY <2>4, <2>5 DEF Flag
  <2>11. after.A = r.value /\ after.status = s
    <3>1. after = Load(before, Flag(Flag(before.status, CF, c), VF, o), r.value)
      BY <2>8, <2>9, <2>10
    <3>2. before \in Register
      BY DEF IInv
    <3> QED
      BY <2>6, <3>1, <3>2 DEF Load, Register
  <2>12. CF \in s <=> c
    BY <1>1, <2>3, <2>6, LoadedFlags
  <2>13. Digits(after.A) /\ Value(after.A) = (Value(A) + Value(M) + C) % 100
    BY <2>2, <2>11
  <2>14. c = (Value(A) + Value(M) + C > 99)
    BY <2>2, <2>5
  <2>15. Has(CF) = c
    BY <2>11, <2>12 DEF Has
  <2> QED
    BY <2>13, <2>14, <2>15
<1>3. ASSUME op = "SBC"
      PROVE  /\ Digits(after.A) /\ Value(after.A) = (Value(A) - Value(M) - (1 - C)) % 100
             /\ Has(CF) = (Value(A) - Value(M) - (1 - C) >= 0)
  <2>1. PICK r : r = DecimalDifference(A, M, 1 - C)
    OBVIOUS
  <2>2. /\ Digits(r.value) /\ Value(r.value) = (Value(A) - Value(M) - (1 - C)) % 100
        /\ r.carry = (Value(A) - Value(M) - (1 - C) >= 0)
    BY <1>1, <2>1, DecimalSubtraction
  <2>3. r.value \in Byte
    BY <1>1, <2>1, DecimalType
  <2>4. PICK o \in BOOLEAN : o <=> (VF \in before.status \/ SbcOverflow(A, M, r.value))
    OBVIOUS
  <2>5. PICK c \in BOOLEAN : c <=> r.carry
    OBVIOUS
  <2>6. PICK s : s = update_flags_register(Flag(Flag(before.status, CF, c), VF, o), r.value)
    OBVIOUS
  <2>7. U8(r.value) = r.value
    BY <2>3, ByteSign
  <2>8. after = do_SBC(before)
    BY <1>3 DEF IInv, Result
  <2>9. do_SBC(before) =
          Load(before, Flag(Flag(before.status, CF, r.carry),
                            VF, \/ DF \in before.status /\ VF \in before.status
                                \/ SbcOverflow(A, M, r.value)), r.value)
    BY <2>1, <2>7 DEF do_SBC, Decimal, A, M, C
  <2>10. /\ Flag(before.status, CF, r.carry) = Flag(before.status, CF, c)
         /\ \A t : Flag(t, VF, \/ DF \in before.status /\ VF \in before.status
                              \/ SbcOverflow(A, M, r.value)) = Flag(t, VF, o)
    BY <2>4, <2>5 DEF Flag, Decimal
  <2>11. after.A = r.value /\ after.status = s
    <3>1. after = Load(before, Flag(Flag(before.status, CF, c), VF, o), r.value)
      BY <2>8, <2>9, <2>10
    <3>2. before \in Register
      BY DEF IInv
    <3> QED
      BY <2>6, <3>1, <3>2 DEF Load, Register
  <2>12. CF \in s <=> c
    BY <1>1, <2>3, <2>6, LoadedFlags
  <2>13. Digits(after.A) /\ Value(after.A) = (Value(A) - Value(M) - (1 - C)) % 100
    BY <2>2, <2>11
  <2>14. c = (Value(A) - Value(M) - (1 - C) >= 0)
    BY <2>2, <2>5
  <2>15. Has(CF) = c
    BY <2>11, <2>12 DEF Has
  <2> QED
    BY <2>13, <2>14, <2>15
<1> QED
  BY <1>2, <1>3 DEF DecimalArithmetic

(* The flags after a shift. *)
LEMMA ShiftedFlags ==
  ASSUME NEW status \in SUBSET Bit, NEW carry \in BOOLEAN, NEW v \in Byte, NEW s,
         s = update_flags_register(Flag(status, CF, carry), v)
  PROVE  /\ CF \in s <=> carry
         /\ NF \in s <=> v > 127
         /\ ZF \in s <=> v = 0
         /\ \A f \in Bit \ {CF, ZF, NF} : f \in s <=> f \in status
<1>1. PICK u : u = Flag(status, CF, carry)
  OBVIOUS
<1>2. u \in SUBSET Bit /\ (CF \in u <=> carry) /\ \A f \in Bit \ {CF} : f \in u <=> f \in status
  BY <1>1 DEF Flag, CF, Bit
<1>3. /\ NF \in s <=> Negative(v)
      /\ ZF \in s <=> ~Negative(v) /\ U8(v) = 0
      /\ \A f \in Bit \ {NF, ZF} : f \in s <=> f \in u
  BY <1>1, <1>2, UpdatedFlags
<1>4. CF \in Bit \ {NF, ZF}
  BY DEF CF, NF, ZF, Bit
<1>5. (Negative(v) <=> v > 127) /\ U8(v) = v
  BY ByteSign
<1>6. v = 0 => ~(v > 127)
  BY DEF Byte
<1> QED
  BY <1>2, <1>3, <1>4, <1>5, <1>6

(* What a shift of x by its definition leaves in A and in the flags. *)
LEMMA ShiftLeaves ==
  ASSUME IInv, NEW v \in Byte, NEW carry \in BOOLEAN,
         after = Shift(before, Shifted(before.status, v, carry))
  PROVE  /\ after.A = v /\ Has(CF) = carry
         /\ SignAndZero(after.A) /\ Kept({IF_, DF, VF})
<1>1. PICK s : s = update_flags_register(Flag(before.status, CF, carry), v)
  OBVIOUS
<1>2. after = [before EXCEPT !.A = v, !.status = s]
  BY <1>1 DEF Shift, Shifted
<1>3. after.A = v /\ after.status = s
  BY <1>2 DEF IInv, Register
<1>4. before.status \in SUBSET Bit
  BY DEF IInv, Register
<1>5. /\ CF \in s <=> carry
      /\ NF \in s <=> v > 127
      /\ ZF \in s <=> v = 0
      /\ \A f \in Bit \ {CF, ZF, NF} : f \in s <=> f \in before.status
  BY <1>1, <1>4, ShiftedFlags
<1>6. \A f \in {IF_, DF, VF} : f \in s <=> f \in before.status
  BY <1>5 DEF CF, ZF, NF, IF_, DF, VF, Bit
<1> QED
  BY <1>3, <1>5, <1>6 DEF Has, SignAndZero, Kept

LEMMA ShiftsOfBytes == IInv => NineBits
<1> SUFFICES ASSUME IInv PROVE NineBits
  OBVIOUS
<1>1. A \in 0..255 /\ before.status \in SUBSET Bit /\ C \in 0..1 /\ A = before.A
      /\ C = CarryIn(before.status)
  BY CarryInType DEF IInv, Register, A, C, Byte
<1>2. PICK x \in 0..255, k \in 0..1 : x = A /\ k = C
  BY <1>1
<1>3. ASSUME op = "ASL"
      PROVE  /\ after.A + (IF Has(CF) THEN 256 ELSE 0) = 2 * A
             /\ SignAndZero(after.A) /\ Kept({IF_, DF, VF})
  <2>1. PICK v : v = U8(2 * x)
    OBVIOUS
  <2>2. PICK c \in BOOLEAN : c <=> (x >= 128)
    OBVIOUS
  <2>3. v \in Byte /\ v + (IF c THEN 256 ELSE 0) = 2 * x
    BY <2>1, <2>2 DEF U8, Byte
  <2>4. Shifted(before.status, v, (x >= 128)) = Shifted(before.status, v, c)
    BY <2>2 DEF Shifted, Flag
  <2>5. after = Shift(before, do_ASL(before.status, x))
    BY <1>1, <1>2, <1>3 DEF IInv, Result
  <2>6. do_ASL(before.status, x) = Shifted(before.status, v, c)
    BY <1>1, <1>2, <2>1, <2>4 DEF do_ASL
  <2>7. /\ after.A = v /\ Has(CF) = c
        /\ SignAndZero(after.A) /\ Kept({IF_, DF, VF})
    BY <2>3, <2>5, <2>6, ShiftLeaves
  <2> QED
    BY <1>2, <2>3, <2>7
<1>4. ASSUME op = "ROL"
      PROVE  /\ after.A + (IF Has(CF) THEN 256 ELSE 0) = 2 * A + C
             /\ SignAndZero(after.A) /\ Kept({IF_, DF, VF})
  <2>1. PICK v : v = U8(2 * x) + k
    OBVIOUS
  <2>2. PICK c \in BOOLEAN : c <=> (x >= 128)
    OBVIOUS
  <2>3. v \in Byte /\ v + (IF c THEN 256 ELSE 0) = 2 * x + k
    BY <2>1, <2>2 DEF U8, Byte
  <2>4. Shifted(before.status, v, (x >= 128)) = Shifted(before.status, v, c)
    BY <2>2 DEF Shifted, Flag
  <2>5. after = Shift(before, do_ROL(before.status, x))
    BY <1>1, <1>2, <1>4 DEF IInv, Result
  <2>6. do_ROL(before.status, x) = Shifted(before.status, v, c)
    BY <1>1, <1>2, <2>1, <2>4 DEF do_ROL
  <2>7. /\ after.A = v /\ Has(CF) = c
        /\ SignAndZero(after.A) /\ Kept({IF_, DF, VF})
    BY <2>3, <2>5, <2>6, ShiftLeaves
  <2> QED
    BY <1>2, <2>3, <2>7
<1>5. ASSUME op = "LSR"
      PROVE  /\ 2 * after.A + (IF Has(CF) THEN 1 ELSE 0) = A
             /\ SignAndZero(after.A) /\ Kept({IF_, DF, VF})
  <2>1. PICK v : v = x \div 2
    OBVIOUS
  <2>2. PICK c \in BOOLEAN : c <=> (x % 2 = 1)
    OBVIOUS
  <2>3. v \in Byte /\ 2 * v + (IF c THEN 1 ELSE 0) = x
    BY <2>1, <2>2 DEF U8, Byte
  <2>4. Shifted(before.status, v, (x % 2 = 1)) = Shifted(before.status, v, c)
    BY <2>2 DEF Shifted, Flag
  <2>5. after = Shift(before, do_LSR(before.status, x))
    BY <1>1, <1>2, <1>5 DEF IInv, Result
  <2>6. do_LSR(before.status, x) = Shifted(before.status, v, c)
    BY <1>1, <1>2, <2>1, <2>4 DEF do_LSR
  <2>7. /\ after.A = v /\ Has(CF) = c
        /\ SignAndZero(after.A) /\ Kept({IF_, DF, VF})
    BY <2>3, <2>5, <2>6, ShiftLeaves
  <2> QED
    BY <1>2, <2>3, <2>7
<1>6. ASSUME op = "ROR"
      PROVE  /\ 2 * after.A + (IF Has(CF) THEN 1 ELSE 0) = A + 256 * C
             /\ SignAndZero(after.A) /\ Kept({IF_, DF, VF})
  <2>1. PICK v : v = (x \div 2) + 128 * k
    OBVIOUS
  <2>2. PICK c \in BOOLEAN : c <=> (x % 2 = 1)
    OBVIOUS
  <2>3. v \in Byte /\ 2 * v + (IF c THEN 1 ELSE 0) = x + 256 * k
    BY <2>1, <2>2 DEF U8, Byte
  <2>4. Shifted(before.status, v, (x % 2 = 1)) = Shifted(before.status, v, c)
    BY <2>2 DEF Shifted, Flag
  <2>5. after = Shift(before, do_ROR(before.status, x))
    BY <1>1, <1>2, <1>6 DEF IInv, Result
  <2>6. do_ROR(before.status, x) = Shifted(before.status, v, c)
    BY <1>1, <1>2, <2>1, <2>4 DEF do_ROR
  <2>7. /\ after.A = v /\ Has(CF) = c
        /\ SignAndZero(after.A) /\ Kept({IF_, DF, VF})
    BY <2>3, <2>5, <2>6, ShiftLeaves
  <2> QED
    BY <1>2, <2>3, <2>7
<1> QED
  BY <1>3, <1>4, <1>5, <1>6 DEF NineBits

LEMMA BitwiseOfBytes == IInv => Sums
<1> SUFFICES ASSUME IInv, op \in {"ORA", "AND", "EOR"} PROVE Sums
  BY DEF Sums
<1>1. A \in Byte /\ M \in Byte /\ before.status \in SUBSET Bit
  BY DEF IInv, Register, A, M
<1>2. /\ do_ORA(before).A = BitOr(A, M)
      /\ do_AND(before).A = BitAnd(A, M)
      /\ do_EOR(before).A = BitXor(A, M)
  BY DEF do_ORA, do_AND, do_EOR, Load, IInv, Register, A, M
<1>3. PICK v \in {BitOr(A, M), BitAnd(A, M), BitXor(A, M)} : after = Load(before, before.status, v)
  BY DEF IInv, Result, do_ORA, do_AND, do_EOR, A, M
<1>4. v \in Byte
  BY DEF BitOr, BitAnd, BitXor, ByteOf, Byte
<1>5. PICK s : s = update_flags_register(before.status, v)
  OBVIOUS
<1>6. after.A = v /\ after.status = s
  BY <1>3, <1>5 DEF Load, IInv, Register
<1>7. /\ NF \in s <=> Negative(v)
      /\ ZF \in s <=> ~Negative(v) /\ U8(v) = 0
      /\ \A f \in Bit \ {NF, ZF} : f \in s <=> f \in before.status
  BY <1>1, <1>5, UpdatedFlags
<1>8. /\ (Negative(v) <=> v > 127) /\ U8(v) = v
      /\ v = 0 => ~(v > 127)
  <2>1. (Negative(v) <=> v > 127) /\ U8(v) = v
    BY <1>4, ByteSign
  <2>2. v = 0 => ~(v > 127)
    BY <1>4 DEF Byte
  <2> QED
    BY <2>1, <2>2
<1>9. Kept({CF, IF_, DF, VF})
  <2>1. \A f \in {CF, IF_, DF, VF} : f \in s <=> f \in before.status
    BY <1>7 DEF CF, ZF, NF, IF_, DF, VF, Bit
  <2> QED
    BY <1>6, <2>1 DEF Kept
<1>10. SignAndZero(after.A)
  BY <1>6, <1>7, <1>8 DEF SignAndZero, Has
<1>11. BitOr(A, M) + BitAnd(A, M) = A + M /\ BitXor(A, M) = BitOr(A, M) - BitAnd(A, M)
  BY <1>1, BitSums
<1> QED
  BY <1>2, <1>3, <1>6, <1>9, <1>10, <1>11 DEF Sums

(***************************************************************************)
(* Binary ADC for every pair of bytes and either carry: the sum, the carry *)
(* out of it and the overflow (do_ADC).                                    *)
(***************************************************************************)
THEOREM AdditionHolds == Spec => []BinaryAddition
BY AluInv, AdditionOfBytes, PTL

(***************************************************************************)
(* Binary SBC for every pair of bytes and either borrow (do_SBC).          *)
(***************************************************************************)
THEOREM SubtractionHolds == Spec => []BinarySubtraction
BY AluInv, SubtractionOfBytes, PTL

(***************************************************************************)
(* CMP and BIT for every byte (do_CMP, do_BIT).                            *)
(***************************************************************************)
THEOREM ComparisonsHold == Spec => []Comparisons
BY AluInv, ComparisonsOfBytes, PTL
(***************************************************************************)
(* Decimal ADC and SBC for every pair of two-digit numbers (do_ADC,        *)
(* do_SBC).                                                                *)
(***************************************************************************)
THEOREM DecimalHolds == Spec => []DecimalArithmetic
BY AluInv, DecimalOfBytes, PTL

(***************************************************************************)
(* The shifts and the bitwise operations for every byte (do_ORA ...        *)
(* do_ROR).                                                                *)
(***************************************************************************)
THEOREM BitOperationsHold == Spec => []BitOperations
<1>1. IInv => BitOperations
  BY ShiftsOfBytes, BitwiseOfBytes DEF BitOperations
<1> QED
  BY <1>1, AluInv, PTL
=============================================================================
