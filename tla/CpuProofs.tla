----------------------------- MODULE CpuProofs -----------------------------
(***************************************************************************)
(* For every memory image and every table of handlers, the processor keeps *)
(* its registers and buses within their widths, every handler calls fetch  *)
(* in time, and the byte it is fetching is the one at PC.                  *)
(*                                                                         *)
(* The first part is about the operations of Alu, the second about a       *)
(* handler alone: it keeps the widths, leaves the opcode in IR alone and   *)
(* adds at most one to the stage, and when it raises SYNC the bus reads    *)
(* the byte at PC.  The third part is about the cycle that runs it.        *)
(*                                                                         *)
(* TypeOK is not inductive alone: that IR fits needs StageBound, which     *)
(* says that the stage, its three low bits, never carries into the opcode. *)
(***************************************************************************)
EXTENDS Cpu, TLAPS

(* What the operations of Alu return is a byte and a set of flags. *)

LEMMA U8Type == ASSUME NEW x \in Int PROVE U8(x) \in Byte
BY DEF U8, Byte

LEMMA U16Type == ASSUME NEW x \in Int PROVE U16(x) \in Word
BY DEF U16, Word

LEMMA BitsType == ASSUME NEW b PROVE Bits(b) \subseteq Bit
BY DEF Bits

(* Eight weights make no more than 255. *)
LEMMA ByteOfType == ASSUME NEW S PROVE ByteOf(S) \in Byte
BY DEF ByteOf, Byte

LEMMA BitwiseType ==
  ASSUME NEW a, NEW b
  PROVE  BitOr(a, b) \in Byte /\ BitAnd(a, b) \in Byte /\ BitXor(a, b) \in Byte
BY ByteOfType DEF BitOr, BitAnd, BitXor

LEMMA FlagType ==
  ASSUME NEW status \in SUBSET Bit, NEW f \in Bit, NEW on
  PROVE  Flag(status, f, on) \in SUBSET Bit
BY DEF Flag

LEMMA UpdateType ==
  ASSUME NEW status \in SUBSET Bit, NEW reg
  PROVE  update_flags_register(status, reg) \in SUBSET Bit
BY DEF update_flags_register, NF, ZF, Bit

LEMMA CarryInType == ASSUME NEW status PROVE CarryIn(status) \in 0..1
BY DEF CarryIn

LEMMA ShiftedType ==
  ASSUME NEW status \in SUBSET Bit, NEW res \in Byte, NEW carry
  PROVE  /\ Shifted(status, res, carry).res \in Byte
         /\ Shifted(status, res, carry).status \in SUBSET Bit
<1>1. CF \in Bit
  BY DEF CF, Bit
<1>. QED  BY <1>1, FlagType, UpdateType DEF Shifted

(* A shift returns a byte: the bit that goes out is only in the carry. *)
LEMMA ShiftType ==
  ASSUME NEW status \in SUBSET Bit, NEW x \in Byte,
         NEW new \in {do_ASL(status, x), do_ROL(status, x), do_LSR(status, x),
                      do_ROR(status, x)}
  PROVE  new.res \in Byte /\ new.status \in SUBSET Bit
<1>1. /\ U8(2 * x) \in Byte
      /\ U8(2 * x) + CarryIn(status) \in Byte
      /\ x \div 2 \in Byte
      /\ (x \div 2) + 128 * CarryIn(status) \in Byte
  BY CarryInType DEF Byte, U8
<1>2. CASE new = do_ASL(status, x)
  BY <1>1, <1>2, ShiftedType DEF do_ASL
<1>3. CASE new = do_ROL(status, x)
  BY <1>1, <1>3, ShiftedType DEF do_ROL
<1>4. CASE new = do_LSR(status, x)
  BY <1>1, <1>4, ShiftedType DEF do_LSR
<1>5. CASE new = do_ROR(status, x)
  BY <1>1, <1>5, ShiftedType DEF do_ROR
<1>. QED  BY <1>2, <1>3, <1>4, <1>5

(* The decimal sum and difference of two bytes are bytes. *)
LEMMA DecimalType ==
  ASSUME NEW a \in Byte, NEW b \in Byte, NEW k \in 0..1
  PROVE  DecimalSum(a, b, k).value \in Byte /\ DecimalDifference(a, b, k).value \in Byte
BY DEF DecimalSum, DecimalDifference, Byte

(* A byte is the sum of its bits. *)
LEMMA Halves ==
  ASSUME NEW a \in 0..255
  PROVE  /\ a = 2 * (a \div 2) + (a % 2)
         /\ a \div 2 = 2 * (a \div 4) + ((a \div 2) % 2)
         /\ a \div 4 = 2 * (a \div 8) + ((a \div 4) % 2)
         /\ a \div 8 = 2 * (a \div 16) + ((a \div 8) % 2)
         /\ a \div 16 = 2 * (a \div 32) + ((a \div 16) % 2)
         /\ a \div 32 = 2 * (a \div 64) + ((a \div 32) % 2)
         /\ a \div 64 = 2 * (a \div 128) + ((a \div 64) % 2)
         /\ a \div 128 = (a \div 128) % 2
<1>1. a = 2 * (a \div 2) + (a % 2) /\ a \div 128 = (a \div 128) % 2
  OBVIOUS
<1>2. a \div 2 = 2 * (a \div 4) + ((a \div 2) % 2)
  OBVIOUS
<1>3. a \div 4 = 2 * (a \div 8) + ((a \div 4) % 2)
  OBVIOUS
<1>4. a \div 8 = 2 * (a \div 16) + ((a \div 8) % 2)
  OBVIOUS
<1>5. a \div 16 = 2 * (a \div 32) + ((a \div 16) % 2)
  OBVIOUS
<1>6. a \div 32 = 2 * (a \div 64) + ((a \div 32) % 2)
  OBVIOUS
<1>7. a \div 64 = 2 * (a \div 128) + ((a \div 64) % 2)
  OBVIOUS
<1> QED
  BY <1>1, <1>2, <1>3, <1>4, <1>5, <1>6, <1>7

LEMMA ByteOfBits == ASSUME NEW a \in Byte PROVE ByteOf(Bits(a)) = a
<1>1. a \in 0..255
  BY DEF Byte
<1>3. /\ 0 \in Bits(a) <=> a % 2 = 1
      /\ 1 \in Bits(a) <=> (a \div 2) % 2 = 1
      /\ 2 \in Bits(a) <=> (a \div 4) % 2 = 1
      /\ 3 \in Bits(a) <=> (a \div 8) % 2 = 1
      /\ 4 \in Bits(a) <=> (a \div 16) % 2 = 1
      /\ 5 \in Bits(a) <=> (a \div 32) % 2 = 1
      /\ 6 \in Bits(a) <=> (a \div 64) % 2 = 1
      /\ 7 \in Bits(a) <=> (a \div 128) % 2 = 1
  BY <1>1 DEF Bits, Bit, Weight
<1>4. /\ a % 2 \in 0..1 /\ (a \div 2) % 2 \in 0..1 /\ (a \div 4) % 2 \in 0..1
      /\ (a \div 8) % 2 \in 0..1 /\ (a \div 16) % 2 \in 0..1 /\ (a \div 32) % 2 \in 0..1
      /\ (a \div 64) % 2 \in 0..1 /\ (a \div 128) % 2 \in 0..1
  BY <1>1
<1>5. PICK b0 \in 0..1, b1 \in 0..1, b2 \in 0..1, b3 \in 0..1,
           b4 \in 0..1, b5 \in 0..1, b6 \in 0..1, b7 \in 0..1 :
        /\ b0 = a % 2 /\ b1 = (a \div 2) % 2 /\ b2 = (a \div 4) % 2 /\ b3 = (a \div 8) % 2
        /\ b4 = (a \div 16) % 2 /\ b5 = (a \div 32) % 2 /\ b6 = (a \div 64) % 2
        /\ b7 = (a \div 128) % 2
  BY <1>4
<1>6. a = b0 + 2 * b1 + 4 * b2 + 8 * b3 + 16 * b4 + 32 * b5 + 64 * b6 + 128 * b7
  BY <1>1, <1>5, Halves
<1>7. /\ 0 \in Bits(a) <=> b0 = 1
      /\ 1 \in Bits(a) <=> b1 = 1
      /\ 2 \in Bits(a) <=> b2 = 1
      /\ 3 \in Bits(a) <=> b3 = 1
      /\ 4 \in Bits(a) <=> b4 = 1
      /\ 5 \in Bits(a) <=> b5 = 1
      /\ 6 \in Bits(a) <=> b6 = 1
      /\ 7 \in Bits(a) <=> b7 = 1
  BY <1>3, <1>5
<1> QED
  BY <1>6, <1>7 DEF ByteOf


----------------------------------------------------------------------------

(* The processor, its instruction register not yet known to be narrow. *)
Machine ==
  [A : Byte, X : Byte, Y : Byte, S : Byte, PC : Word, status : SUBSET Bit,
   IR : Nat, AD : Word, break_status : SUBSET {"RST"},
   addr_bus : Word, data_bus : Byte,
   RW : BOOLEAN, SYNC : BOOLEAN, RES : BOOLEAN]

(* The handler runs: cpu_cycle has lowered SYNC and set RW. *)
Running(c) == c \in Machine /\ ~c.SYNC /\ c.RW

(* A cycle that goes on with its instruction, from c to d. *)
Continues(c, d) ==
  /\ d \in Machine
  /\ d.IR = c.IR
  /\ ~d.SYNC

(* What an instruction does to the registers before it ends. *)
Computes(c, d) == Continues(c, d) /\ d.RW

(* A cycle that ends it. *)
Fetches(c, d) ==
  /\ d \in Machine
  /\ d.IR = c.IR
  /\ d.SYNC /\ d.RW /\ d.addr_bus = d.PC

(* A cycle that goes on, and leaves the next stage out. *)
Skips(c, d) ==
  /\ d \in Machine
  /\ d.IR = c.IR + 1
  /\ ~d.SYNC

(***************************************************************************)
(* One cycle of an instruction whose last stage is last.                   *)
(***************************************************************************)
Advances(c, d, last) ==
  \/ Fetches(c, d)
  \/ Continues(c, d) /\ Stage(c) < last
  \/ Skips(c, d) /\ Stage(c) + 1 < last

(* Two bytes make a word, and so does an address on the stack. *)
LEMMA WordOfBytes ==
  ASSUME NEW h \in Byte, NEW l \in Byte
  PROVE  256 * h + l \in Word
BY DEF Byte, Word

LEMMA StackAddress ==
  ASSUME NEW l \in Byte
  PROVE  STACK_TOP_ADDR + l \in Word /\ l \in Word
BY DEF Byte, Word, STACK_TOP_ADDR

(* A word has two bytes, and OrHigh puts a word together again. *)
LEMMA BytesOfWord ==
  ASSUME NEW w \in Word
  PROVE  Low(w) \in Byte /\ High(w) \in Byte
<1>1. w \in Int /\ w >= 0 /\ w < 65536
  BY DEF Word
<1>2. Low(w) \in Byte
  BY <1>1 DEF Low, Byte
<1>3. w \div 256 \in Int /\ w \div 256 >= 0 /\ w \div 256 < 256
  BY <1>1
<1>4. High(w) \in Byte
  BY <1>3 DEF High, Byte
<1>. QED  BY <1>2, <1>4

LEMMA OrHighType ==
  ASSUME NEW w \in Word, NEW b
  PROVE  OrHigh(w, b) \in Word
<1>1. Low(w) \in Byte /\ BitOr(High(w), b) \in Byte
  BY BytesOfWord, BitwiseType
<1>. QED  BY <1>1, WordOfBytes DEF OrHigh

(* The fields of the processor and what counting does to them. *)
LEMMA FieldTypes ==
  ASSUME NEW c \in Machine
  PROVE  /\ c.A \in Byte /\ c.X \in Byte /\ c.Y \in Byte /\ c.S \in Byte
         /\ c.data_bus \in Byte /\ c.PC \in Word /\ c.AD \in Word /\ c.IR \in Nat
         /\ c.status \in SUBSET Bit
<1>1. /\ c.A \in Byte /\ c.X \in Byte /\ c.Y \in Byte /\ c.S \in Byte
      /\ c.data_bus \in Byte /\ c.PC \in Word /\ c.AD \in Word /\ c.IR \in Nat
  BY DEF Machine
<1>2. c.status \in SUBSET Bit
  BY DEF Machine
<1>. QED  BY <1>1, <1>2

LEMMA CountWord ==
  ASSUME NEW w \in Word
  PROVE  U16(w + 1) \in Word /\ U16(w - 1) \in Word /\ Low(w + 1) \in Byte
<1>1. w + 1 \in Int /\ w - 1 \in Int
  BY DEF Word
<1>2. U16(w + 1) \in Word /\ U16(w - 1) \in Word
  BY <1>1, U16Type
<1>3. Low(w + 1) \in Byte
  BY <1>1 DEF Low, Byte
<1>. QED  BY <1>2, <1>3

LEMMA CountByte ==
  ASSUME NEW b \in Byte
  PROVE  U8(b + 1) \in Byte /\ U8(b - 1) \in Byte
BY DEF U8, Byte

LEMMA IndexType ==
  ASSUME NEW w \in Word, NEW b \in Byte
  PROVE  U16(w + b) \in Word /\ Low(w + b) \in Byte
BY DEF U16, Word, Low, Byte

LEMMA FetchEnds ==
  ASSUME NEW c \in Machine, c.RW
  PROVE  Fetches(c, fetch(c))
BY DEF Machine, Fetches, fetch

LEMMA FetchAfter ==
  ASSUME NEW c, NEW d, Computes(c, d)
  PROVE  Fetches(c, fetch(d))
BY FetchEnds DEF Computes, Continues, Fetches, fetch

LEMMA SimpleSteps ==
  ASSUME NEW c, Running(c)
  PROVE  /\ Continues(c, c)
         /\ Continues(c, NextByte(c))
         /\ Continues(c, IdleRead(c))
         /\ Continues(c, PopNext(c))
<1>. c \in Machine
  BY DEF Running
<1>1. c.PC \in Word /\ U16(c.PC + 1) \in Word /\ U8(c.S + 1) \in Byte
      /\ STACK_TOP_ADDR + c.S \in Word
  BY FieldTypes, CountWord, CountByte, StackAddress
<1>2. Continues(c, c)
  BY DEF Running, Continues
<1>3. Continues(c, NextByte(c))
  BY <1>1 DEF Running, Machine, Continues, NextByte
<1>4. Continues(c, IdleRead(c))
  BY <1>1 DEF Running, Machine, Continues, IdleRead
<1>5. Continues(c, PopNext(c))
  BY <1>1 DEF Running, Machine, Continues, PopNext
<1>. QED  BY <1>2, <1>3, <1>4, <1>5
LEMMA PushContinues ==
  ASSUME NEW c, Running(c), NEW b \in Byte
  PROVE  Continues(c, push_stack(c, b))
<1>1. c \in Machine /\ STACK_TOP_ADDR + c.S \in Word /\ U8(c.S - 1) \in Byte
  BY FieldTypes, CountByte, StackAddress DEF Running
<1>. QED  BY <1>1 DEF Running, Machine, Continues, push_stack

LEMMA AddressLowContinues ==
  ASSUME NEW c, Running(c)
  PROVE  Continues(c, AddressLow(c))
<1>1. c \in Machine /\ c.data_bus \in Word
  BY FieldTypes, StackAddress DEF Running
<1>2. Continues(c, NextByte(c))
  BY SimpleSteps
<1>. QED  BY <1>1, <1>2 DEF Machine, Continues, AddressLow

LEMMA ZeroPageContinues ==
  ASSUME NEW c, Running(c)
  PROVE  Continues(c, get_arg_zero_page(c))
<1>1. c \in Machine /\ c.data_bus \in Word
  BY FieldTypes, StackAddress DEF Running
<1>2. Continues(c, NextByte(c)) /\ Continues(c, c)
  BY SimpleSteps
<1>3. Continues(c, [c EXCEPT !.AD = c.data_bus, !.addr_bus = c.data_bus])
  BY <1>1 DEF Running, Machine, Continues
<1>. QED  BY <1>2, <1>3 DEF get_arg_zero_page

LEMMA ZeroPageIndexContinues ==
  ASSUME NEW c, Running(c), NEW index \in Byte
  PROVE  Continues(c, get_arg_zero_page_index(c, index))
<1>1. c \in Machine /\ Low(c.AD + index) \in Word
  BY FieldTypes, IndexType, StackAddress DEF Running
<1>2. Continues(c, [c EXCEPT !.addr_bus = Low(c.AD + index)])
  BY <1>1 DEF Running, Machine, Continues
<1>. QED  BY <1>2, ZeroPageContinues DEF get_arg_zero_page_index

LEMMA AbsoluteContinues ==
  ASSUME NEW c, Running(c)
  PROVE  Continues(c, get_arg_absolute(c))
<1>1. c \in Machine /\ OrHigh(c.AD, c.data_bus) \in Word
  BY FieldTypes, OrHighType DEF Running
<1>2. Continues(c, [c EXCEPT !.addr_bus = OrHigh(c.AD, c.data_bus)])
  BY <1>1 DEF Running, Machine, Continues
<1>. QED  BY <1>2, SimpleSteps, AddressLowContinues DEF get_arg_absolute
LEMMA SkipIR ==
  ASSUME NEW c \in Machine, NEW shortcut
  PROVE  Skip(c, shortcut) \in {c.IR, c.IR + 1} /\ Skip(c, shortcut) \in Nat
<1>1. c.IR \in Nat
  BY FieldTypes
<1>. QED  BY <1>1 DEF Skip

LEMMA AbsoluteIndexContinues ==
  ASSUME NEW c, Running(c), NEW index \in Byte
  PROVE  LET d == get_arg_absolute_index(c, index)
         IN  Continues(c, d) \/ (Stage(c) = 2 /\ Skips(c, d))
<1>. DEFINE ad == OrHigh(c.AD, c.data_bus)
            jump == Skip(c, Low(ad) + index < 256)
<1>1. c \in Machine /\ c.AD \in Word
  BY FieldTypes DEF Running
<1>2. ad \in Word /\ U16(ad + index) \in Word /\ U16(c.AD + index) \in Word
  BY <1>1, OrHighType, IndexType
<1>3. jump \in {c.IR, c.IR + 1} /\ jump \in Nat
  BY <1>1, SkipIR
<1>4. Continues(c, [c EXCEPT !.addr_bus = U16(c.AD + index)])
  BY <1>1, <1>2 DEF Running, Machine, Continues
<1>. HIDE DEF ad, jump
<1>5. LET d == [c EXCEPT !.AD = ad, !.addr_bus = U16(ad + index), !.IR = jump]
      IN  Continues(c, d) \/ Skips(c, d)
  BY <1>1, <1>2, <1>3 DEF Running, Machine, Continues, Skips
<1>. QED  BY <1>4, <1>5, SimpleSteps, AddressLowContinues
             DEF get_arg_absolute_index, ad, jump

LEMMA IndirectIndexContinues ==
  ASSUME NEW c, Running(c)
  PROVE  LET d == get_arg_indirect_index(c)
         IN  Continues(c, d) \/ (Stage(c) = 3 /\ Skips(c, d))
<1>. DEFINE ad == OrHigh(c.AD, c.data_bus)
            jump == Skip(c, ad + c.Y <= 255)
            guess == OrHigh(U16(ad + c.Y), High(ad))
<1>1. c \in Machine /\ c.AD \in Word /\ c.Y \in Byte /\ c.data_bus \in Word
  BY FieldTypes, StackAddress DEF Running
<1>2. ad \in Word /\ U16(ad + c.Y) \in Word /\ U16(c.AD + c.Y) \in Word
  BY <1>1, OrHighType, IndexType
<1>3. guess \in Word /\ Low(c.AD + 1) \in Word
  BY <1>1, <1>2, OrHighType, CountWord, StackAddress
<1>4. jump \in {c.IR, c.IR + 1} /\ jump \in Nat
  BY <1>1, SkipIR
<1>5. Continues(c, [c EXCEPT !.addr_bus = U16(c.AD + c.Y)])
  BY <1>1, <1>2 DEF Running, Machine, Continues
<1>6. Continues(c, [c EXCEPT !.addr_bus = Low(c.AD + 1), !.AD = c.data_bus])
  BY <1>1, <1>3 DEF Running, Machine, Continues
<1>. HIDE DEF ad, jump, guess
<1>7. LET d == [c EXCEPT !.AD = ad, !.addr_bus = guess, !.IR = jump]
      IN  Continues(c, d) \/ Skips(c, d)
  BY <1>1, <1>2, <1>3, <1>4 DEF Running, Machine, Continues, Skips
<1>. QED  BY <1>5, <1>6, <1>7, SimpleSteps, ZeroPageContinues
             DEF get_arg_indirect_index, ad, jump, guess

LEMMA IndexIndirectContinues ==
  ASSUME NEW c, Running(c)
  PROVE  Continues(c, get_arg_index_indirect(c))
<1>. DEFINE pointer == Low(c.AD + c.X)
<1>1. c \in Machine /\ c.AD \in Word /\ c.X \in Byte /\ c.data_bus \in Word
  BY FieldTypes, StackAddress DEF Running
<1>2. pointer \in Word /\ Low(c.AD + 1) \in Word /\ OrHigh(c.AD, c.data_bus) \in Word
  BY <1>1, IndexType, CountWord, StackAddress, OrHighType
<1>3. Continues(c, [c EXCEPT !.addr_bus = OrHigh(c.AD, c.data_bus)])
  BY <1>1, <1>2 DEF Running, Machine, Continues
<1>4. Continues(c, [c EXCEPT !.addr_bus = Low(c.AD + 1), !.AD = c.data_bus])
  BY <1>1, <1>2 DEF Running, Machine, Continues
<1>. HIDE DEF pointer
<1>5. Continues(c, [c EXCEPT !.AD = pointer, !.addr_bus = pointer])
  BY <1>1, <1>2 DEF Running, Machine, Continues
<1>. QED  BY <1>3, <1>4, <1>5, SimpleSteps, ZeroPageContinues
             DEF get_arg_index_indirect, pointer

(***************************************************************************)
(* Every addressing mode: only the stage before the last may be followed   *)
(* by a jump over a stage.                                                 *)
(***************************************************************************)
LEMMA GetArgContinues ==
  ASSUME NEW c, Running(c), NEW mode \in MemModes \cup {"imm"}
  PROVE  LET d == GetArg(c, mode)
         IN  Continues(c, d) \/ (Stage(c) = ArgStages(mode) - 2 /\ Skips(c, d))
<1>1. c.X \in Byte /\ c.Y \in Byte
  BY FieldTypes DEF Running
<1>2. CASE mode \in {"imm", "zpg", "zpg_x", "zpg_y", "abs", "x_ind"}
  BY <1>1, <1>2, SimpleSteps, ZeroPageContinues, ZeroPageIndexContinues,
     AbsoluteContinues, IndexIndirectContinues DEF GetArg
<1>3. CASE mode \in {"abs_x", "abs_y"}
  BY <1>1, <1>3, AbsoluteIndexContinues DEF GetArg, ArgStages
<1>4. CASE mode = "ind_y"
  BY <1>4, IndirectIndexContinues DEF GetArg, ArgStages
<1>. QED  BY <1>2, <1>3, <1>4 DEF MemModes
----------------------------------------------------------------------------
(* The registers keep their width. *)

LEMMA SetRegComputes ==
  ASSUME NEW c, Running(c), NEW reg, NEW value \in Byte
  PROVE  Computes(c, SetReg(c, reg, value))
<1>. DEFINE status == update_flags_register(c.status, value)
<1>1. c \in Machine /\ status \in SUBSET Bit
  BY FieldTypes, UpdateType DEF Running
<1>. HIDE DEF status
<1>2. /\ Computes(c, [c EXCEPT !.status = status, !.A = value])
      /\ Computes(c, [c EXCEPT !.status = status, !.X = value])
      /\ Computes(c, [c EXCEPT !.status = status, !.Y = value])
  BY <1>1 DEF Running, Machine, Continues, Computes
<1>. QED  BY <1>1, <1>2 DEF SetReg, Machine, status

LEMMA LoadComputes ==
  ASSUME NEW c, Running(c), NEW status \in SUBSET Bit, NEW value \in Byte
  PROVE  Computes(c, Load(c, status, value))
<1>. DEFINE new == update_flags_register(status, value)
<1>1. new \in SUBSET Bit
  BY UpdateType
<1>. HIDE DEF new
<1>2. Computes(c, [c EXCEPT !.A = value, !.status = new])
  BY <1>1 DEF Running, Machine, Continues, Computes
<1>. QED  BY <1>2 DEF Load, new

LEMMA StatusComputes ==
  ASSUME NEW c, Running(c), NEW status \in SUBSET Bit
  PROVE  Computes(c, [c EXCEPT !.status = status])
BY DEF Running, Machine, Continues, Computes

LEMMA FlagBits == {CF, ZF, IF_, DF, BF, XF, VF, NF} \subseteq Bit
BY DEF CF, ZF, IF_, DF, BF, XF, VF, NF, Bit

LEMMA SumType ==
  ASSUME NEW a \in Byte, NEW b \in Byte, NEW k \in 0..1
  PROVE  a + b + k \in Int /\ a - b - k \in Int
BY DEF Byte

(* ADC and SBC: whatever the sum, A gets a byte. *)
LEMMA ArithmeticComputes ==
  ASSUME NEW c, Running(c)
  PROVE  Computes(c, do_ADC(c)) /\ Computes(c, do_SBC(c))
<1>1. c.A \in Byte /\ c.data_bus \in Byte /\ c.status \in SUBSET Bit
  BY FieldTypes DEF Running
<1>2. CarryIn(c.status) \in 0..1 /\ 1 - CarryIn(c.status) \in 0..1
  BY CarryInType
<1>3. \A f \in {CF, VF} : f \in Bit
  BY FlagBits
<1>4. Computes(c, do_ADC(c))
  <2>. DEFINE decimal == DecimalSum(c.A, c.data_bus, CarryIn(c.status))
              sum     == c.A + c.data_bus + CarryIn(c.status)
              new     == IF DF \in c.status THEN decimal.value ELSE sum
              carry   == IF DF \in c.status THEN decimal.carry ELSE sum > 255
              status  == Flag(Flag(c.status, CF, carry), VF,
                              AdcOverflow(c.A, c.data_bus, new))
  <2>1. decimal.value \in Byte
    BY <1>1, <1>2, DecimalType
  <2>2. sum \in Int
    BY <1>1, <1>2, SumType
  <2>. HIDE DEF decimal, sum
  <2>. decimal.value \in Int
    BY <2>1 DEF Byte
  <2>3. U8(new) \in Byte
    BY <2>2, U8Type
  <2>4. status \in SUBSET Bit
    BY <1>1, <1>3, FlagType
  <2>. QED  BY <2>3, <2>4, LoadComputes DEF do_ADC, decimal, sum
<1>5. Computes(c, do_SBC(c))
  <2>. DEFINE borrow  == 1 - CarryIn(c.status)
              decimal == DecimalDifference(c.A, c.data_bus, borrow)
              minus   == U16(c.A - c.data_bus - borrow)
              new     == IF DF \in c.status THEN decimal.value ELSE minus
              carry   == IF DF \in c.status THEN decimal.carry ELSE new < 256
              stale   == DF \in c.status /\ VF \in c.status
              over    == stale \/ SbcOverflow(c.A, c.data_bus, new)
              status  == Flag(Flag(c.status, CF, carry), VF, over)
  <2>1. decimal.value \in Byte
    BY <1>1, <1>2, DecimalType
  <2>2. c.A - c.data_bus - borrow \in Int
    BY <1>1, <1>2, SumType
  <2>3. minus \in Word
    BY <2>2, U16Type
  <2>. HIDE DEF decimal, minus
  <2>. decimal.value \in Int
    BY <2>1 DEF Byte
  <2>. minus \in Int
    BY <2>3 DEF Word
  <2>4. U8(new) \in Byte
    BY <2>3, U8Type
  <2>5. status \in SUBSET Bit
    BY <1>1, <1>3, FlagType
  <2>. QED  BY <2>4, <2>5, LoadComputes DEF do_SBC, decimal, minus
<1>. QED  BY <1>4, <1>5

LEMMA CompareComputes ==
  ASSUME NEW c, Running(c), NEW reg
  PROVE  Computes(c, do_CMP(c, reg)) /\ Computes(c, do_BIT(c))
<1>. DEFINE cmp == Flag(update_flags_register(c.status, U16(reg - c.data_bus)), CF,
                        reg >= c.data_bus)
            bit == ((c.status \ {ZF, NF, VF})
                      \cup (IF BitAnd(c.A, c.data_bus) = 0 THEN {ZF} ELSE {}))
                     \cup (Bits(c.data_bus) \cap {VF, NF})
<1>1. c.status \in SUBSET Bit /\ CF \in Bit /\ ZF \in Bit
  BY FieldTypes, FlagBits DEF Running
<1>2. cmp \in SUBSET Bit
  BY <1>1, UpdateType, FlagType
<1>3. bit \in SUBSET Bit
  BY <1>1, BitsType
<1>. HIDE DEF cmp, bit
<1>4. Computes(c, [c EXCEPT !.status = cmp]) /\ Computes(c, [c EXCEPT !.status = bit])
  BY <1>2, <1>3, StatusComputes
<1>. QED  BY <1>4 DEF do_CMP, do_BIT, cmp, bit

LEMMA ReadOperandComputes ==
  ASSUME NEW c, Running(c), NEW op
  PROVE  Computes(c, ReadOperand(c, op))
<1>1. c.A \in Byte /\ c.data_bus \in Byte /\ c.status \in SUBSET Bit
  BY FieldTypes DEF Running
<1>2. Computes(c, do_ORA(c)) /\ Computes(c, do_AND(c)) /\ Computes(c, do_EOR(c))
  BY <1>1, BitwiseType, LoadComputes DEF do_ORA, do_AND, do_EOR
<1>3. \A reg : Computes(c, do_LD_(c, reg))
  BY <1>1, SetRegComputes DEF do_LD_
<1>. QED  BY <1>2, <1>3, ArithmeticComputes, CompareComputes DEF ReadOperand

LEMMA ImpliedComputes ==
  ASSUME NEW c, Running(c), NEW op
  PROVE  Computes(c, Implied(c, op))
<1>1. c.A \in Byte /\ c.X \in Byte /\ c.Y \in Byte /\ c.S \in Byte
      /\ c.status \in SUBSET Bit
  BY FieldTypes DEF Running
<1>2. \A f \in {CF, IF_, DF, VF} :
        /\ Computes(c, [c EXCEPT !.status = @ \ {f}])
        /\ Computes(c, [c EXCEPT !.status = @ \cup {f}])
  <2>. TAKE f \in {CF, IF_, DF, VF}
  <2>1. c.status \ {f} \in SUBSET Bit /\ c.status \cup {f} \in SUBSET Bit
    BY <1>1, FlagBits
  <2>. QED  BY <2>1, StatusComputes
<1>3. /\ U8(c.X - 1) \in Byte /\ U8(c.X + 1) \in Byte
      /\ U8(c.Y - 1) \in Byte /\ U8(c.Y + 1) \in Byte
  BY <1>1, CountByte
<1>4. Computes(c, c) /\ Computes(c, [c EXCEPT !.S = c.X])
  BY <1>1 DEF Running, Machine, Continues, Computes
<1>. QED  BY <1>1, <1>2, <1>3, <1>4, SetRegComputes DEF Implied

----------------------------------------------------------------------------
(* The handlers: they end their instruction at their last stage. *)

LEMMA StageType == ASSUME NEW c \in Machine PROVE Stage(c) \in 0..7
<1>1. c.IR \in Nat
  BY FieldTypes
<1>. QED  BY <1>1 DEF Stage

LEMMA ArgStagesType == ASSUME NEW mode PROVE ArgStages(mode) \in 1..5
BY DEF ArgStages

LEMMA ReadAdvances ==
  ASSUME NEW c, Running(c), NEW op, NEW mode \in MemModes \cup {"imm"}
  PROVE  Advances(c, do_read(c, op, mode), ArgStages(mode))
<1>1. Stage(c) \in 0..7 /\ ArgStages(mode) \in 1..5
  BY StageType, ArgStagesType DEF Running
<1>2. CASE Stage(c) < ArgStages(mode)
  BY <1>1, <1>2, GetArgContinues DEF do_read, Advances
<1>3. CASE ~(Stage(c) < ArgStages(mode))
  BY <1>3, ReadOperandComputes, FetchAfter DEF do_read, Advances
<1>. QED  BY <1>2, <1>3

LEMMA ModifiedType ==
  ASSUME NEW status \in SUBSET Bit, NEW x \in Byte, NEW op
  PROVE  /\ Modified(op, status, x).res \in Byte
         /\ Modified(op, status, x).status \in SUBSET Bit
<1>1. U8(x + 1) \in Byte /\ U8(x - 1) \in Byte /\ U8(x + -1) \in Byte
  BY DEF U8, Byte
<1>2. /\ Stepped(status, x, 1).res \in Byte
      /\ Stepped(status, x, 1).status \in SUBSET Bit
      /\ Stepped(status, x, -1).res \in Byte
      /\ Stepped(status, x, -1).status \in SUBSET Bit
  BY <1>1, UpdateType DEF Stepped
<1>. QED  BY <1>2, ShiftType DEF Modified

LEMMA ModifyAdvances ==
  ASSUME NEW c, Running(c), NEW op, NEW mode \in MemModes,
         Stage(c) <= ArgStages(mode) + 2
  PROVE  Advances(c, do_modify(c, op, mode), ArgStages(mode) + 2)
<1>. DEFINE n   == ArgStages(mode)
            new == Modified(op, c.status, Low(c.AD))
            ad  == Counted(op, c.AD)
<1>1. c \in Machine /\ Stage(c) \in 0..7 /\ n \in 1..5
  BY StageType, ArgStagesType DEF Running
<1>2. c.AD \in Word /\ c.status \in SUBSET Bit /\ c.data_bus \in Word
  BY <1>1, FieldTypes, StackAddress
<1>3. Low(c.AD) \in Byte /\ ad \in Word
  BY <1>2, BytesOfWord, CountWord DEF Counted
<1>4. new.res \in Byte /\ new.status \in SUBSET Bit
  BY <1>2, <1>3, ModifiedType
<1>. HIDE DEF n, new, ad
<1>5. CASE Stage(c) < n
  BY <1>1, <1>5, GetArgContinues DEF do_modify, Advances, n
<1>6. CASE Stage(c) = n
  <2>1. Continues(c, [c EXCEPT !.AD = c.data_bus, !.RW = FALSE])
    BY <1>2 DEF Running, Machine, Continues
  <2>. QED  BY <1>1, <1>6, <2>1 DEF do_modify, Advances, n
<1>7. CASE Stage(c) = n + 1
  <2>1. Continues(c, [c EXCEPT !.AD = ad, !.status = new.status,
                               !.data_bus = new.res, !.RW = FALSE])
    BY <1>3, <1>4 DEF Running, Machine, Continues
  <2>. QED  BY <1>1, <1>7, <2>1 DEF do_modify, Advances, n, new, ad
<1>8. CASE Stage(c) = n + 2
  BY <1>1, <1>8, FetchEnds DEF Running, do_modify, Advances, n
<1>. QED  BY <1>1, <1>5, <1>6, <1>7, <1>8 DEF n

LEMMA AccumulatorAdvances ==
  ASSUME NEW c, Running(c), NEW op, Stage(c) <= 1
  PROVE  Advances(c, do_accumulator(c, op), 1)
<1>. DEFINE new == Modified(op, c.status, c.A)
<1>1. Stage(c) \in 0..7 /\ c.A \in Byte /\ c.status \in SUBSET Bit
  BY StageType, FieldTypes DEF Running
<1>2. new.res \in Byte /\ new.status \in SUBSET Bit
  BY <1>1, ModifiedType
<1>. HIDE DEF new
<1>3. Computes(c, [c EXCEPT !.A = new.res, !.status = new.status])
  BY <1>2 DEF Running, Machine, Continues, Computes
<1>. QED  BY <1>1, <1>3, SimpleSteps, FetchAfter DEF do_accumulator, Advances, new

LEMMA StoreAdvances ==
  ASSUME NEW c, Running(c), NEW op, NEW mode \in MemModes, Stage(c) <= ArgStages(mode)
  PROVE  Advances(c, do_store(c, op, mode), ArgStages(mode))
<1>. DEFINE n == ArgStages(mode)
            d == GetArg(c, mode)
<1>1. c \in Machine /\ Stage(c) \in 0..7 /\ n \in 1..5
  BY StageType, ArgStagesType DEF Running
<1>2. Stored(c, op) \in Byte
  BY <1>1, FieldTypes DEF Stored
<1>3. Continues(c, d) \/ (Stage(c) = n - 2 /\ Skips(c, d))
  BY GetArgContinues
<1>. HIDE DEF n, d
<1>4. CASE Stage(c) < n - 1
  BY <1>1, <1>3, <1>4 DEF do_store, Advances, n, d
<1>5. CASE Stage(c) = n - 1
  <2>1. Continues(c, d)
    BY <1>1, <1>3, <1>5
  <2>2. Continues(c, [d EXCEPT !.data_bus = Stored(c, op), !.RW = FALSE])
    BY <1>2, <2>1 DEF Machine, Continues
  <2>. QED  BY <1>1, <1>5, <2>2 DEF do_store, Advances, n, d
<1>6. CASE Stage(c) = n
  BY <1>1, <1>6, FetchEnds DEF Running, do_store, Advances, n
<1>. QED  BY <1>1, <1>4, <1>5, <1>6 DEF n

LEMMA ImpliedAdvances ==
  ASSUME NEW c, Running(c), NEW op, Stage(c) <= 1
  PROVE  Advances(c, do_implied(c, op), 1)
<1>1. Stage(c) \in 0..7
  BY StageType DEF Running
<1>. QED  BY <1>1, SimpleSteps, ImpliedComputes, FetchAfter DEF do_implied, Advances

LEMMA AimType ==
  ASSUME NEW w \in Word, NEW b \in Byte
  PROVE  U16(w + Signed(b)) \in Word
<1>1. Signed(b) \in Int
  BY DEF Signed, Byte
<1>2. w \in Int
  BY DEF Word
<1>. QED  BY <1>1, <1>2, U16Type

LEMMA BranchAdvances ==
  ASSUME NEW c, Running(c), NEW condition, Stage(c) <= 3
  PROVE  Advances(c, branch(c, condition), 3)
<1>. DEFINE aimed == [c EXCEPT !.addr_bus = c.PC, !.AD = U16(c.PC + Signed(c.data_bus))]
            target == [c EXCEPT !.PC = c.AD]
            wrong == 256 * High(c.PC) + Low(c.AD)
<1>1. c \in Machine /\ Stage(c) \in 0..7 /\ c.PC \in Word /\ c.AD \in Word
      /\ c.data_bus \in Byte
  BY StageType, FieldTypes DEF Running
<1>2. U16(c.PC + Signed(c.data_bus)) \in Word
  BY <1>1, AimType
<1>3. wrong \in Word
  BY <1>1, BytesOfWord, WordOfBytes
<1>4. Computes(c, aimed) /\ Computes(c, target)
  BY <1>1, <1>2 DEF Running, Machine, Continues, Computes
<1>. HIDE DEF wrong
<1>5. Continues(c, [c EXCEPT !.addr_bus = wrong])
  BY <1>3 DEF Running, Machine, Continues
<1>. HIDE DEF aimed, target
<1>6. Fetches(c, fetch(aimed)) /\ Fetches(c, fetch(target)) /\ Continues(c, aimed)
  BY <1>4, FetchAfter DEF Computes
<1>. QED  BY <1>1, <1>5, <1>6, SimpleSteps DEF branch, Advances, aimed, target, wrong

LEMMA PushAdvances ==
  ASSUME NEW c, Running(c), NEW b \in Byte, Stage(c) <= 2
  PROVE  Advances(c, do_push(c, b), 2)
<1>1. Stage(c) \in 0..7
  BY StageType DEF Running
<1>. QED  BY <1>1, SimpleSteps, PushContinues, FetchEnds DEF Running, do_push, Advances

LEMMA PullAdvances ==
  ASSUME NEW c, Running(c), NEW pulled, Computes(c, pulled), Stage(c) <= 3
  PROVE  Advances(c, do_pull(c, pulled), 3)
<1>1. c \in Machine /\ Stage(c) \in 0..7 /\ STACK_TOP_ADDR + c.S \in Word
  BY StageType, FieldTypes, StackAddress DEF Running
<1>2. Continues(c, [c EXCEPT !.addr_bus = STACK_TOP_ADDR + c.S])
  BY <1>1 DEF Running, Machine, Continues
<1>. QED  BY <1>1, <1>2, SimpleSteps, FetchAfter DEF do_pull, Advances

LEMMA BreakAdvances ==
  ASSUME NEW c, Running(c), Stage(c) <= 6
  PROVE  Advances(c, do_00(c), 6)
<1>. DEFINE skipped == IF c.break_status = {} THEN [c EXCEPT !.PC = U16(@ + 1)] ELSE c
            vector  == CASE "RST" \in c.break_status -> RESET_VECTOR_ADDR
                         [] "NMI" \in c.break_status -> NMI_VECTOR_ADDR
                         [] OTHER                    -> IRQ_VECTOR_ADDR
<1>1. c \in Machine /\ Stage(c) \in 0..7 /\ c.AD \in Word /\ c.PC \in Word
      /\ c.data_bus \in Word /\ c.status \in SUBSET Bit
  BY StageType, FieldTypes, StackAddress DEF Running
<1>2. U16(c.PC + 1) \in Word /\ U16(c.AD + 1) \in Word /\ OrHigh(c.AD, c.data_bus) \in Word
  BY <1>1, CountWord, OrHighType
<1>3. vector \in Word
  BY DEF Word, RESET_VECTOR_ADDR, NMI_VECTOR_ADDR, IRQ_VECTOR_ADDR
<1>. HIDE DEF vector
<1>4. \A d, b : Running(d) /\ d.IR = c.IR /\ b \in Byte => Continues(c, PushUnlessReset(d, b))
  <2>. SUFFICES ASSUME NEW d, NEW b \in Byte, Running(d), d.IR = c.IR
                PROVE  Continues(c, PushUnlessReset(d, b))
    OBVIOUS
  <2>. DEFINE reset == "RST" \in d.break_status
  <2>1. Continues(d, push_stack(d, b))
    BY PushContinues
  <2>2. reset \in BOOLEAN
    OBVIOUS
  <2>3. PushUnlessReset(d, b) = [push_stack(d, b) EXCEPT !.RW = reset]
    BY DEF PushUnlessReset
  <2>. HIDE DEF reset
  <2>. QED  BY <2>1, <2>2, <2>3 DEF Machine, Continues
<1>5. Running(skipped) /\ skipped.IR = c.IR /\ skipped.PC \in Word
  BY <1>1, <1>2 DEF Running, Machine
<1>. HIDE DEF skipped
<1>6. Continues(c, PushUnlessReset(skipped, High(skipped.PC)))
  BY <1>4, <1>5, BytesOfWord
<1>7. Continues(c, PushUnlessReset(c, Low(c.PC)))
  BY <1>1, <1>4, BytesOfWord
<1>8. Continues(c, PushUnlessReset(c, StatusByte(c)))
  BY <1>4, ByteOfType DEF StatusByte
<1>9. Continues(c, [PushUnlessReset(c, StatusByte(c)) EXCEPT !.AD = vector, !.RES = TRUE,
                                                           !.break_status = {}])
  BY <1>3, <1>8 DEF Machine, Continues
<1>10. Continues(c, [c EXCEPT !.addr_bus = c.AD, !.AD = U16(@ + 1),
                              !.status = @ \cup {IF_}])
  <2>1. c.status \cup {IF_} \in SUBSET Bit
    BY <1>1, FlagBits
  <2>. QED  BY <1>1, <1>2, <2>1 DEF Running, Machine, Continues
<1>11. Continues(c, [c EXCEPT !.addr_bus = c.AD, !.AD = c.data_bus])
  BY <1>1 DEF Running, Machine, Continues
<1>12. Computes(c, [c EXCEPT !.PC = OrHigh(c.AD, c.data_bus)])
  BY <1>1, <1>2 DEF Running, Machine, Continues, Computes
<1>13. Continues(c, IdleRead(c)) /\ Fetches(c, fetch([c EXCEPT !.PC = OrHigh(c.AD, c.data_bus)]))
  BY <1>12, SimpleSteps, FetchAfter
<1>14. \/ Stage(c) = 0 \/ Stage(c) = 1 \/ Stage(c) = 2 \/ Stage(c) = 3
       \/ Stage(c) = 4 \/ Stage(c) = 5 \/ Stage(c) = 6
  BY <1>1
<1>. QED  BY <1>6, <1>7, <1>9, <1>10, <1>11, <1>13, <1>14
          DEF do_00, Advances, skipped, vector

LEMMA CallAdvances ==
  ASSUME NEW c, Running(c), Stage(c) <= 5
  PROVE  Advances(c, do_20(c), 5)
<1>1. c \in Machine /\ Stage(c) \in 0..7 /\ c.PC \in Word /\ c.AD \in Word
      /\ c.data_bus \in Word
  BY StageType, FieldTypes, StackAddress DEF Running
<1>2. OrHigh(c.AD, c.data_bus) \in Word
  BY <1>1, OrHighType
<1>. STACK_BASE_ADDR \in Word
  BY DEF STACK_BASE_ADDR, Word
<1>3. Continues(c, push_stack(c, High(c.PC))) /\ Continues(c, push_stack(c, Low(c.PC)))
  BY <1>1, PushContinues, BytesOfWord
<1>4. Continues(c, [c EXCEPT !.AD = c.data_bus, !.addr_bus = STACK_BASE_ADDR])
  BY <1>1, <1>2 DEF Running, Machine, Continues
<1>5. Computes(c, [c EXCEPT !.PC = OrHigh(c.AD, c.data_bus)])
  BY <1>1, <1>2 DEF Running, Machine, Continues, Computes
<1>6. Fetches(c, fetch([c EXCEPT !.PC = OrHigh(c.AD, c.data_bus)]))
  BY <1>5, FetchAfter
<1>. QED  BY <1>1, <1>3, <1>4, <1>6, SimpleSteps DEF do_20, Advances

LEMMA InterruptReturnAdvances ==
  ASSUME NEW c, Running(c), Stage(c) <= 5
  PROVE  Advances(c, do_40(c), 5)
<1>. DEFINE status == (Bits(c.data_bus) \cup {BF}) \ {XF}
            low    == 256 * High(c.PC) + c.data_bus
            high   == 256 * c.data_bus + Low(c.PC)
<1>1. c \in Machine /\ Stage(c) \in 0..7 /\ c.PC \in Word /\ c.data_bus \in Byte
      /\ STACK_TOP_ADDR + c.S \in Word
  BY StageType, FieldTypes, StackAddress DEF Running
<1>2. low \in Word /\ high \in Word
  BY <1>1, BytesOfWord, WordOfBytes
<1>3. status \in SUBSET Bit
  BY BitsType, FlagBits
<1>. HIDE DEF low, high, status
<1>4. Continues(c, [PopNext(c) EXCEPT !.status = status])
  BY <1>3, SimpleSteps DEF Machine, Continues
<1>5. Continues(c, [c EXCEPT !.addr_bus = STACK_TOP_ADDR + c.S, !.PC = low])
  BY <1>1, <1>2 DEF Running, Machine, Continues
<1>6. Computes(c, [c EXCEPT !.PC = high])
  BY <1>2 DEF Running, Machine, Continues, Computes
<1>7. Fetches(c, fetch([c EXCEPT !.PC = high]))
  BY <1>6, FetchAfter
<1>. QED  BY <1>1, <1>4, <1>5, <1>7, SimpleSteps DEF do_40, Advances, low, high, status

LEMMA JumpAdvances ==
  ASSUME NEW c, Running(c), Stage(c) <= 2
  PROVE  Advances(c, do_4C(c), 2)
<1>1. c \in Machine /\ Stage(c) \in 0..7 /\ OrHigh(c.AD, c.data_bus) \in Word
  BY StageType, FieldTypes, OrHighType DEF Running
<1>2. Computes(c, [c EXCEPT !.PC = OrHigh(c.AD, c.data_bus)])
  BY <1>1 DEF Running, Machine, Continues, Computes
<1>. QED  BY <1>1, <1>2, AddressLowContinues, FetchAfter DEF do_4C, Advances

LEMMA ReturnAdvances ==
  ASSUME NEW c, Running(c), Stage(c) <= 5
  PROVE  Advances(c, do_60(c), 5)
<1>. DEFINE d == [c EXCEPT !.PC = OrHigh(c.AD, c.data_bus)]
<1>1. c \in Machine /\ Stage(c) \in 0..7 /\ c.data_bus \in Word
      /\ OrHigh(c.AD, c.data_bus) \in Word /\ STACK_TOP_ADDR + c.S \in Word
  BY StageType, FieldTypes, StackAddress, OrHighType DEF Running
<1>2. Continues(c, [c EXCEPT !.AD = c.data_bus, !.addr_bus = STACK_TOP_ADDR + c.S])
  BY <1>1 DEF Running, Machine, Continues
<1>3. Running(d) /\ d.IR = c.IR
  BY <1>1 DEF Running, Machine
<1>. HIDE DEF d
<1>4. Continues(d, NextByte(d))
  BY <1>3, SimpleSteps
<1>5. Continues(c, NextByte(d))
  BY <1>3, <1>4 DEF Continues
<1>6. Fetches(c, fetch(c))
  BY <1>1, FetchEnds DEF Running
<1>. QED  BY <1>1, <1>2, <1>5, <1>6, SimpleSteps DEF do_60, Advances, d

LEMMA IndirectJumpAdvances ==
  ASSUME NEW c, Running(c), Stage(c) <= 4
  PROVE  Advances(c, do_6C(c), 4)
<1>. DEFINE ad     == OrHigh(c.AD, c.data_bus)
            second == 256 * High(c.AD) + Low(c.AD + 1)
<1>1. c \in Machine /\ Stage(c) \in 0..7 /\ c.data_bus \in Word /\ c.AD \in Word
  BY StageType, FieldTypes, StackAddress DEF Running
<1>2. ad \in Word /\ second \in Word
  BY <1>1, OrHighType, BytesOfWord, CountWord, WordOfBytes
<1>. HIDE DEF ad, second
<1>3. Continues(c, [c EXCEPT !.AD = ad, !.addr_bus = ad])
  BY <1>2 DEF Running, Machine, Continues
<1>4. Continues(c, [c EXCEPT !.addr_bus = second, !.AD = c.data_bus])
  BY <1>1, <1>2 DEF Running, Machine, Continues
<1>5. Computes(c, [c EXCEPT !.PC = ad])
  BY <1>2 DEF Running, Machine, Continues, Computes
<1>6. Fetches(c, fetch([c EXCEPT !.PC = ad]))
  BY <1>5, FetchAfter
<1>. QED  BY <1>1, <1>3, <1>4, <1>6, AddressLowContinues DEF do_6C, Advances, ad, second

----------------------------------------------------------------------------
(* LastStage of the opcode that c runs. *)
Last(c) == LastStage(Handler[Opcode(c)][1], Handler[Opcode(c)][2])

LEMMA OpcodeType == ASSUME NEW c \in CpuState PROVE Opcode(c) \in Byte
<1>1. c.IR \in Int /\ c.IR >= 0 /\ c.IR < 2048
  BY DEF CpuState, IRs
<1>2. c.IR \div 8 \in Int /\ c.IR \div 8 >= 0 /\ c.IR \div 8 < 256
  BY <1>1
<1>. QED  BY <1>2 DEF Opcode, Byte

(* The addressing modes that go with an operation. *)
LEMMA HandlerShape ==
  ASSUME NEW h \in Handlers
  PROVE  /\ h[1] \in ReadOps => h[2] \in MemModes \cup {"imm"}
         /\ h[1] \in StoreOps => h[2] \in MemModes
         /\ h[1] \in ModifyOps => h[2] \in MemModes \cup {"acc"}
         /\ h[1] = "JMP" => h[2] \in {"abs", "ind"}
         /\ h[1] \in ReadOps \cup StoreOps \cup ModifyOps \cup BranchOps \cup ImpliedOps
                     \cup {"PHA", "PHP", "PLA", "PLP", "JSR", "RTS", "RTI", "JMP",
                           "BRK", "XX"}
BY DEF Handlers, ReadOps, StoreOps, ModifyOps, BranchOps, ImpliedOps, FlagOps, RegOps,
       MemModes

(* No handler has more than seven stages. *)
LEMMA LastStageType ==
  ASSUME NEW h \in Handlers
  PROVE  LastStage(h[1], h[2]) \in 0..6
<1>1. h[1] \in ModifyOps => h[2] \in {"acc", "zpg", "zpg_x", "abs", "abs_x"}
  BY DEF Handlers, ReadOps, StoreOps, ModifyOps, BranchOps, ImpliedOps, FlagOps, RegOps
<1>2. ArgStages(h[2]) \in 1..5
  BY ArgStagesType
<1>3. h[2] \in {"zpg", "zpg_x", "abs", "abs_x"} => ArgStages(h[2]) \in 1..4
  BY DEF ArgStages
<1>. QED  BY <1>1, <1>2, <1>3 DEF LastStage

(***************************************************************************)
(* A cycle of any handler, run in a stage that it has: it ends its         *)
(* instruction or goes on to a stage that it has.                          *)
(***************************************************************************)
LEMMA RunAdvances ==
  ASSUME NEW c, Running(c), c \in CpuState, Stage(c) <= Last(c),
         Handler[Opcode(c)][1] # "XX"
  PROVE  Advances(c, run_opcode(c), Last(c))
<1>. DEFINE op   == Handler[Opcode(c)][1]
            mode == Handler[Opcode(c)][2]
<1>1. Handler[Opcode(c)] \in Handlers
  BY OpcodeType, HandlerAssumption
<1>2. /\ op \in ReadOps => mode \in MemModes \cup {"imm"}
      /\ op \in StoreOps => mode \in MemModes
      /\ op \in ModifyOps => mode \in MemModes \cup {"acc"}
      /\ op = "JMP" => mode \in {"abs", "ind"}
      /\ op \in ReadOps \cup StoreOps \cup ModifyOps \cup BranchOps \cup ImpliedOps
                \cup {"PHA", "PHP", "PLA", "PLP", "JSR", "RTS", "RTI", "JMP", "BRK"}
  BY <1>1, HandlerShape
<1>3. c.A \in Byte /\ c.data_bus \in Byte
  BY FieldTypes DEF Running
<1>. HIDE DEF op, mode
<1>4. CASE op \in ReadOps
  <2>1. run_opcode(c) = do_read(c, op, mode) /\ Last(c) = ArgStages(mode)
    BY <1>4 DEF run_opcode, Last, LastStage, op, mode, ReadOps, StoreOps,
                ModifyOps, ImpliedOps, FlagOps, RegOps, BranchOps
  <2>. QED  BY <1>2, <1>4, <2>1, ReadAdvances
<1>5. CASE op \in StoreOps
  <2>1. run_opcode(c) = do_store(c, op, mode) /\ Last(c) = ArgStages(mode)
    BY <1>5 DEF run_opcode, Last, LastStage, op, mode, ReadOps, StoreOps,
                ModifyOps, ImpliedOps, FlagOps, RegOps, BranchOps
  <2>. QED  BY <1>2, <1>5, <2>1, StoreAdvances
<1>6. CASE op \in ModifyOps /\ mode = "acc"
  <2>1. run_opcode(c) = do_accumulator(c, op) /\ Last(c) = 1
    BY <1>6 DEF run_opcode, Last, LastStage, op, mode, ReadOps, StoreOps,
                ModifyOps, ImpliedOps, FlagOps, RegOps, BranchOps
  <2>. QED  BY <2>1, AccumulatorAdvances
<1>7. CASE op \in ModifyOps /\ mode # "acc"
  <2>1. run_opcode(c) = do_modify(c, op, mode) /\ Last(c) = ArgStages(mode) + 2
    BY <1>7 DEF run_opcode, Last, LastStage, op, mode, ReadOps, StoreOps,
                ModifyOps, ImpliedOps, FlagOps, RegOps, BranchOps
  <2>. QED  BY <1>2, <1>7, <2>1, ModifyAdvances
<1>8. CASE op \in ImpliedOps
  <2>1. run_opcode(c) = do_implied(c, op) /\ Last(c) = 1
    BY <1>8 DEF run_opcode, Last, LastStage, op, mode, ReadOps, StoreOps,
                ModifyOps, ImpliedOps, FlagOps, RegOps, BranchOps
  <2>. QED  BY <2>1, ImpliedAdvances
<1>9. CASE op \in BranchOps
  <2>1. run_opcode(c) = branch(c, Taken(op, c.status)) /\ Last(c) = 3
    BY <1>9 DEF run_opcode, Last, LastStage, op, mode, ReadOps, StoreOps,
                ModifyOps, ImpliedOps, FlagOps, RegOps, BranchOps
  <2>. QED  BY <2>1, BranchAdvances
<1>10. CASE op \in {"PHP", "PHA"}
  <2>1. /\ op = "PHP" => run_opcode(c) = do_push(c, StatusByte(c))
        /\ op = "PHA" => run_opcode(c) = do_push(c, c.A)
        /\ Last(c) = 2
    BY <1>10 DEF run_opcode, Last, LastStage, op, mode, ReadOps, StoreOps,
                ModifyOps, ImpliedOps, FlagOps, RegOps, BranchOps
  <2>2. StatusByte(c) \in Byte
    BY ByteOfType DEF StatusByte
  <2>. QED  BY <1>3, <1>10, <2>1, <2>2, PushAdvances
<1>11. CASE op \in {"PLP", "PLA"}
  <2>. DEFINE status == Bits(c.data_bus) \ {BF}
  <2>1. /\ op = "PLP" => run_opcode(c) = do_pull(c, [c EXCEPT !.status = status])
        /\ op = "PLA" => run_opcode(c) = do_pull(c, SetReg(c, "A", c.data_bus))
        /\ Last(c) = 3
    BY <1>11 DEF run_opcode, Last, LastStage, op, mode, ReadOps, StoreOps,
                ModifyOps, ImpliedOps, FlagOps, RegOps, BranchOps
  <2>2. Computes(c, [c EXCEPT !.status = status])
    BY BitsType, StatusComputes
  <2>3. Computes(c, SetReg(c, "A", c.data_bus))
    BY <1>3, SetRegComputes
  <2>. QED  BY <1>11, <2>1, <2>2, <2>3, PullAdvances
<1>12. CASE op \in {"JSR", "RTS", "RTI"}
  <2>1. /\ op = "JSR" => run_opcode(c) = do_20(c)
        /\ op = "RTS" => run_opcode(c) = do_60(c)
        /\ op = "RTI" => run_opcode(c) = do_40(c)
        /\ Last(c) = 5
    BY <1>12 DEF run_opcode, Last, LastStage, op, mode, ReadOps, StoreOps,
                ModifyOps, ImpliedOps, FlagOps, RegOps, BranchOps
  <2>. QED  BY <1>12, <2>1, CallAdvances, ReturnAdvances, InterruptReturnAdvances
<1>13. CASE op = "JMP"
  <2>1. /\ mode = "abs" => run_opcode(c) = do_4C(c) /\ Last(c) = 2
        /\ mode = "ind" => run_opcode(c) = do_6C(c) /\ Last(c) = 4
    BY <1>13 DEF run_opcode, Last, LastStage, op, mode, ReadOps, StoreOps,
                ModifyOps, ImpliedOps, FlagOps, RegOps, BranchOps
  <2>. QED  BY <1>2, <1>13, <2>1, JumpAdvances, IndirectJumpAdvances
<1>14. CASE op = "BRK"
  <2>1. run_opcode(c) = do_00(c) /\ Last(c) = 6
    BY <1>14 DEF run_opcode, Last, LastStage, op, mode, ReadOps, StoreOps,
                ModifyOps, ImpliedOps, FlagOps, RegOps, BranchOps
  <2>. QED  BY <2>1, BreakAdvances
<1>. QED  BY <1>2, <1>4, <1>5, <1>6, <1>7, <1>8, <1>9, <1>10, <1>11, <1>12, <1>13, <1>14

----------------------------------------------------------------------------
(* One cycle of the processor. *)

LEMMA NarrowIR ==
  /\ CpuState \subseteq Machine
  /\ \A c \in Machine : c.IR \in IRs => c \in CpuState
<1>1. IRs \subseteq Nat
  BY DEF IRs
<1>. QED  BY <1>1 DEF CpuState, Machine

LEMMA LastType == ASSUME NEW c \in CpuState PROVE Last(c) \in 0..6
BY OpcodeType, HandlerAssumption, LastStageType DEF Last

(* A new opcode begins at stage 0. *)
LEMMA FetchedStage ==
  ASSUME NEW b \in Byte
  PROVE  0 \in IRs /\ 8 * b \in IRs /\ (8 * b) % 8 = 0
BY DEF Byte, IRs

LEMMA BegunRuns ==
  ASSUME NEW c \in CpuState, c.SYNC \/ Stage(c) <= Last(c)
  PROVE  /\ Begun(c) \in CpuState
         /\ Running(Begun(c))
         /\ Stage(Begun(c)) <= Last(Begun(c))
<1>1. c.data_bus \in Byte /\ c.PC \in Word
  BY NarrowIR, FieldTypes
<1>2. U16(c.PC + 1) \in Word /\ 0 \in IRs /\ 8 * c.data_bus \in IRs
  BY <1>1, CountWord, FetchedStage
<1>. DEFINE loaded == IF c.SYNC THEN Fetched(c) ELSE c
<1>3. Begun(c) \in CpuState /\ ~Begun(c).SYNC /\ Begun(c).RW
  <2>1. [c EXCEPT !.IR = 0] \in CpuState
    BY <1>2 DEF CpuState
  <2>2. [c EXCEPT !.IR = 8 * c.data_bus, !.PC = U16(@ + 1)] \in CpuState
    BY <1>2 DEF CpuState
  <2>3. loaded \in CpuState
    BY <2>1, <2>2 DEF Fetched
  <2>. HIDE DEF loaded
  <2>4. [loaded EXCEPT !.SYNC = FALSE, !.RW = TRUE] \in CpuState
    BY <2>3 DEF CpuState
  <2>5. /\ [loaded EXCEPT !.SYNC = FALSE, !.RW = TRUE].SYNC = FALSE
        /\ [loaded EXCEPT !.SYNC = FALSE, !.RW = TRUE].RW = TRUE
    BY <2>3 DEF CpuState
  <2>. QED  BY <2>4, <2>5 DEF Begun, loaded
<1>4. Last(Begun(c)) \in 0..6
  BY <1>3, LastType
<1>5. CASE c.SYNC
  <2>1. Begun(c).IR \in {0, 8 * c.data_bus}
    BY <1>5 DEF CpuState, Begun, Fetched
  <2>2. Stage(Begun(c)) = 0
    BY <1>1, <2>1, FetchedStage DEF Stage
  <2>. QED  BY <1>3, <1>4, <2>2, NarrowIR DEF Running
<1>6. CASE ~c.SYNC
  <2>1. Begun(c).IR = c.IR
    BY <1>6 DEF CpuState, Begun
  <2>2. Stage(Begun(c)) = Stage(c) /\ Last(Begun(c)) = Last(c)
    BY <2>1 DEF Stage, Last, Opcode
  <2>. QED  BY <1>3, <1>6, <2>2, NarrowIR DEF Running
<1>. QED  BY <1>5, <1>6

(* IR++ and the jump over a stage leave the opcode alone. *)
Counts(c, k) ==
  /\ c.IR + k \in IRs /\ U16(c.IR + k) = c.IR + k
  /\ (c.IR + k) % 8 = Stage(c) + k
  /\ (c.IR + k) \div 8 = Opcode(c)

LEMMA NextStage ==
  ASSUME NEW c \in CpuState
  PROVE  /\ Stage(c) + 1 <= 7 => Counts(c, 1)
         /\ Stage(c) + 2 <= 7 => Counts(c, 2)
<1>. DEFINE ir == c.IR
<1>1. ir \in Int /\ ir >= 0 /\ ir < 2048
  BY DEF CpuState, IRs
<1>. HIDE DEF ir
<1>2. ASSUME NEW k \in 1..2, (ir % 8) + k <= 7
      PROVE  /\ ir + k \in IRs /\ (ir + k) % 65536 = ir + k
             /\ (ir + k) % 8 = (ir % 8) + k
             /\ (ir + k) \div 8 = ir \div 8
  <2>1. (ir + k) % 8 = (ir % 8) + k /\ (ir + k) \div 8 = ir \div 8
    BY <1>1, <1>2
  <2>2. ir + k < 2048 /\ ir + k >= 0
    BY <1>1, <1>2
  <2>. QED  BY <1>1, <2>1, <2>2 DEF IRs
<1>. QED  BY <1>2 DEF ir, Counts, U16, Stage, Opcode

(* What a cycle leaves, and IR++ after it, when k is added to IR in all. *)
Kept(c, d) ==
  /\ d \in CpuState
  /\ d.SYNC \/ Stage(d) <= Last(d)
  /\ d.SYNC => d.RW /\ d.addr_bus = d.PC

LEMMA CountedKeeps ==
  ASSUME NEW c \in CpuState, NEW ran \in Machine, NEW k \in Int, Counts(c, k),
         ran.SYNC \/ Stage(c) + k <= Last(c),
         ran.SYNC => ran.RW /\ ran.addr_bus = ran.PC
  PROVE  Kept(c, [ran EXCEPT !.IR = c.IR + k])
<1>. DEFINE d == [ran EXCEPT !.IR = c.IR + k]
<1>1. c.IR + k \in IRs /\ (c.IR + k) % 8 = Stage(c) + k /\ (c.IR + k) \div 8 = Opcode(c)
  BY DEF Counts
<1>2. /\ d.SYNC = ran.SYNC /\ d.RW = ran.RW
      /\ d.addr_bus = ran.addr_bus /\ d.PC = ran.PC /\ d.IR = c.IR + k
  BY DEF Machine
<1>3. d \in CpuState
  BY <1>1 DEF Machine, CpuState
<1>. HIDE DEF d
<1>4. Stage(d) = Stage(c) + k /\ Last(d) = Last(c)
  BY <1>1, <1>2 DEF Stage, Last, Opcode
<1>. QED  BY <1>2, <1>3, <1>4 DEF Kept, d

(* A cycle keeps the types, the bound on the stages and, at its end, the fetch. *)
LEMMA CycledKeeps ==
  ASSUME NEW c \in CpuState, Running(c), Stage(c) <= Last(c),
         Handler[Opcode(c)][1] # "XX"
  PROVE  Kept(c, Cycled(c))
<1>. DEFINE ran == run_opcode(c)
<1>1. Advances(c, ran, Last(c))
  BY RunAdvances
<1>2. Last(c) \in 0..6 /\ Stage(c) \in 0..7
  BY LastType, StageType, NarrowIR
<1>3. Cycled(c) = [ran EXCEPT !.IR = U16(ran.IR + 1)]
  BY DEF Cycled
<1>. HIDE DEF ran
<1>4. CASE Fetches(c, ran) \/ (Continues(c, ran) /\ Stage(c) < Last(c))
  <2>1. /\ ran \in Machine /\ ran.IR = c.IR /\ (ran.SYNC \/ Stage(c) + 1 <= Last(c))
        /\ ran.SYNC => ran.RW /\ ran.addr_bus = ran.PC
    BY <1>2, <1>4 DEF Fetches, Continues
  <2>2. Counts(c, 1)
    BY <1>2, <1>4, NextStage
  <2>3. U16(ran.IR + 1) = c.IR + 1
    BY <2>1, <2>2 DEF Counts
  <2>. QED  BY <1>3, <2>1, <2>2, <2>3, CountedKeeps
<1>5. CASE Skips(c, ran) /\ Stage(c) + 1 < Last(c)
  <2>1. /\ ran \in Machine /\ ran.IR = c.IR + 1 /\ Stage(c) + 2 <= Last(c)
        /\ ~ran.SYNC
    BY <1>2, <1>5 DEF Skips
  <2>2. Counts(c, 2)
    BY <1>2, <2>1, NextStage
  <2>3. ran.IR + 1 = c.IR + 2
    BY <2>1 DEF CpuState, IRs
  <2>4. U16(ran.IR + 1) = c.IR + 2
    BY <2>2, <2>3 DEF Counts
  <2>5. /\ ran.SYNC \/ Stage(c) + 2 <= Last(c)
        /\ ran.SYNC => ran.RW /\ ran.addr_bus = ran.PC
    BY <2>1
  <2>6. Kept(c, [ran EXCEPT !.IR = c.IR + 2])
    <3>. DEFINE k == 2
    <3>1. k \in Int /\ Counts(c, k) /\ (ran.SYNC \/ Stage(c) + k <= Last(c))
      BY <2>2, <2>5
    <3>. HIDE DEF k
    <3>2. Kept(c, [ran EXCEPT !.IR = c.IR + k])
      BY <2>1, <2>5, <3>1, CountedKeeps
    <3>. QED  BY <3>2 DEF k
  <2>. QED  BY <1>3, <2>4, <2>6
<1>. QED  BY <1>1, <1>4, <1>5 DEF Advances
----------------------------------------------------------------------------
(* The invariant. *)

IInv == TypeOK /\ StageBound /\ FetchCoherent

(* What memory holds is a byte, before and after the rising phi2. *)
MemoryType(m) == DOMAIN m \subseteq Word /\ \A a \in DOMAIN m : m[a] \in Byte

LEMMA ReadType ==
  ASSUME NEW m, MemoryType(m), NEW a \in Word
  PROVE  Read(m, a) \in Byte
BY ImageAssumption DEF MemoryType, Read

LEMMA StoreType ==
  ASSUME NEW m, MemoryType(m), NEW a \in Word, NEW b \in Byte
  PROVE  MemoryType(Store(m, a, b))
BY DEF MemoryType, Store

(* The memory access keeps what the cycle of the processor left. *)
LEMMA AccessKeeps ==
  ASSUME NEW m, MemoryType(m), NEW b, NEW c, Kept(b, c)
  PROVE  /\ MemoryType(Written(m, c))
         /\ Answered(m, c) \in CpuState
         /\ Answered(m, c).SYNC \/ Stage(Answered(m, c)) <= Last(Answered(m, c))
         /\ Answered(m, c).SYNC =>
              /\ Answered(m, c).RW
              /\ Answered(m, c).addr_bus = Answered(m, c).PC
              /\ Answered(m, c).data_bus = Read(Written(m, c), Answered(m, c).PC)
<1>. DEFINE d == Answered(m, c)
<1>1. /\ c \in CpuState
      /\ c.SYNC \/ Stage(c) <= Last(c)
      /\ c.SYNC => c.RW /\ c.addr_bus = c.PC
  BY DEF Kept
<1>2. c.addr_bus \in Word /\ c.data_bus \in Byte /\ c.RW \in BOOLEAN
  BY <1>1 DEF CpuState
<1>3. Read(m, c.addr_bus) \in Byte
  BY <1>2, ReadType
<1>4. MemoryType(Written(m, c))
  BY <1>2, StoreType DEF Written
<1>5. d \in CpuState
  BY <1>1, <1>3 DEF CpuState, Answered
<1>6. /\ d.IR = c.IR /\ d.SYNC = c.SYNC /\ d.RW = c.RW
      /\ d.addr_bus = c.addr_bus /\ d.PC = c.PC
      /\ c.RW => d.data_bus = Read(m, c.addr_bus)
  BY <1>1 DEF CpuState, Answered
<1>. HIDE DEF d
<1>7. Stage(d) = Stage(c) /\ Last(d) = Last(c)
  BY <1>6 DEF Stage, Last, Opcode
<1>8. c.RW => Written(m, c) = m
  BY DEF Written
<1>. QED  BY <1>1, <1>4, <1>5, <1>6, <1>7, <1>8 DEF d

LEMMA InitInv == Init => IInv
<1>1. 0 \in Byte /\ 255 \in Byte /\ 0 \in Word /\ 0 \in IRs
  BY DEF Byte, Word, IRs
<1>2. init_cpu \in CpuState /\ init_cpu.SYNC /\ ~init_cpu.RES
  BY <1>1 DEF init_cpu, CpuState
<1>. QED  BY <1>2 DEF Init, IInv, TypeOK, StageBound, FetchCoherent

LEMMA SampleKeeps == IInv /\ Sample => IInv'
<1>. SUFFICES ASSUME IInv, Sample PROVE IInv'
  OBVIOUS
<1>1. cpu \in CpuState
  BY DEF IInv, TypeOK
<1>2. /\ cpu' \in CpuState
      /\ cpu'.SYNC = cpu.SYNC /\ cpu'.IR = cpu.IR /\ cpu'.RES = cpu.RES
  BY <1>1 DEF Sample, CpuState
<1>3. TypeOK'
  BY <1>2 DEF IInv, TypeOK, Sample
<1>4. StageBound'
  BY <1>2 DEF IInv, StageBound, Stage, Opcode
<1>5. CASE cpu.RES
  BY <1>3, <1>4, <1>5 DEF IInv, FetchCoherent, Sample, Read
<1>6. CASE ~cpu.RES
  BY <1>2, <1>3, <1>4, <1>6 DEF IInv, FetchCoherent
<1>. QED  BY <1>5, <1>6

(* What the cycle begins with. *)
LEMMA BegunFits ==
  IInv => /\ Begun(cpu) \in CpuState
          /\ Running(Begun(cpu))
          /\ Stage(Begun(cpu)) <= Last(Begun(cpu))
BY BegunRuns DEF IInv, TypeOK, StageBound, Last

LEMMA ExecuteKeeps == IInv /\ Execute => IInv'
<1>. SUFFICES ASSUME IInv, Execute PROVE IInv'
  OBVIOUS
<1>. DEFINE b == Begun(cpu)
            c == Cycled(b)
<1>1. Handler[Opcode(b)][1] # "XX"
  BY DEF Execute, Unknown
<1>2. Kept(b, c)
  BY <1>1, BegunFits, CycledKeeps
<1>3. cpu' = Answered(mem, c) /\ mem' = Written(mem, c) /\ phase' = "sample"
  BY DEF Execute
<1>4. MemoryType(mem)
  BY DEF IInv, TypeOK, MemoryType
<1>. HIDE DEF c
<1>5. /\ MemoryType(mem')
      /\ cpu' \in CpuState
      /\ cpu'.SYNC \/ Stage(cpu') <= Last(cpu')
      /\ cpu'.SYNC => cpu'.RW /\ cpu'.addr_bus = cpu'.PC
                        /\ cpu'.data_bus = Read(mem', cpu'.PC)
  BY <1>2, <1>3, <1>4, AccessKeeps
<1>. QED  BY <1>3, <1>5 DEF IInv, TypeOK, StageBound, FetchCoherent, MemoryType, Last

LEMMA CrashKeeps == IInv /\ Crash => IInv'
<1>. SUFFICES ASSUME IInv, Crash PROVE IInv'
  OBVIOUS
<1>1. /\ cpu' \in CpuState /\ ~cpu'.SYNC
      /\ Stage(cpu') <= Last(cpu')
  BY BegunFits DEF Crash, Running
<1>. QED  BY <1>1 DEF Crash, IInv, TypeOK, StageBound, FetchCoherent, Last

LEMMA PressKeeps == IInv /\ PressReset => IInv'
<1>. SUFFICES ASSUME IInv, PressReset PROVE IInv'
  OBVIOUS
<1>1. cpu \in CpuState
  BY DEF IInv, TypeOK
<1>2. /\ cpu' \in CpuState /\ ~cpu'.RES
      /\ cpu'.SYNC = cpu.SYNC /\ cpu'.IR = cpu.IR
  BY <1>1 DEF PressReset, CpuState
<1>. QED  BY <1>2 DEF PressReset, IInv, TypeOK, StageBound, FetchCoherent, Stage, Opcode

LEMMA StepInv == IInv /\ [Next]_vars => IInv'
<1>. SUFFICES ASSUME IInv, [Next]_vars PROVE IInv'
  OBVIOUS
<1>1. CASE Sample
  BY <1>1, SampleKeeps
<1>2. CASE Execute
  BY <1>2, ExecuteKeeps
<1>3. CASE Crash
  BY <1>3, CrashKeeps
<1>4. CASE PressReset
  BY <1>4, PressKeeps
<1>5. CASE UNCHANGED vars
  BY <1>5 DEF vars, IInv, TypeOK, StageBound, FetchCoherent, Read
<1>. QED  BY <1>1, <1>2, <1>3, <1>4, <1>5 DEF Next, Cycle

LEMMA Invariant == Spec => []IInv
BY InitInv, StepInv, PTL DEF Spec

(***************************************************************************)
(* Registers and buses keep their widths, for every program: the masks of  *)
(* m6502.c suffice, and IR never grows beyond its eleven bits.             *)
(***************************************************************************)
THEOREM CpuTypeOK == Spec => []TypeOK
<1>1. IInv => TypeOK
  BY DEF IInv
<1>. QED  BY <1>1, Invariant, PTL

(***************************************************************************)
(* For every program, and whenever the reset key is pressed: IR++ of       *)
(* cpu_cycle never runs past the cases of a handler, nor into the opcode.  *)
(***************************************************************************)
THEOREM StagesBounded == Spec => []StageBound
<1>1. IInv => StageBound
  BY DEF IInv
<1>. QED  BY <1>1, Invariant, PTL

(***************************************************************************)
(* For every program, the byte taken for an opcode is the one at PC, as    *)
(* memory is after the instruction before: self-modifying code included.   *)
(***************************************************************************)
THEOREM FetchesCoherent == Spec => []FetchCoherent
<1>1. IInv => FetchCoherent
  BY DEF IInv
<1>. QED  BY <1>1, Invariant, PTL

(* The sequence of BRK reads while a reset is pending. *)
LEMMA ResetReads ==
  ASSUME NEW c \in CpuState, c.RW, "RST" \in c.break_status, Opcode(c) = 0
  PROVE  Cycled(c).RW
<1>1. run_opcode(c) = do_00(c)
  BY HandlerAssumption
     DEF run_opcode, ReadOps, StoreOps, ModifyOps, ImpliedOps, FlagOps, RegOps, BranchOps
<1>2. do_00(c).RW
  BY DEF do_00, CpuState, PushUnlessReset, push_stack, IdleRead, fetch
<1>3. Cycled(c).RW = do_00(c).RW
  BY <1>1 DEF Cycled
<1>. QED  BY <1>2, <1>3

(***************************************************************************)
(* A reset that is being served never writes to memory, for every program  *)
(* and every moment of the key press (do_00, m6502_opcodes.c:48).          *)
(***************************************************************************)
THEOREM ResetWritesNothing == Spec => ResetSequenceNeverWrites
<1>. DEFINE A == ~cpu.SYNC /\ Opcode(cpu) = 0 /\ "RST" \in cpu.break_status => mem' = mem
<1>1. IInv /\ [Next]_vars => [A]_vars
  <2>. SUFFICES ASSUME IInv, Next,
                       ~cpu.SYNC, Opcode(cpu) = 0, "RST" \in cpu.break_status
                PROVE  mem' = mem
    OBVIOUS
  <2>1. CASE Execute
    <3>. DEFINE b == Begun(cpu)
    <3>1. b = [cpu EXCEPT !.SYNC = FALSE, !.RW = TRUE]
      BY DEF Begun
    <3>2. cpu \in CpuState /\ b \in CpuState
      BY BegunFits DEF IInv, TypeOK
    <3>3. b.RW /\ "RST" \in b.break_status /\ b.IR = cpu.IR
      BY <3>1, <3>2 DEF CpuState
    <3>. HIDE DEF b
    <3>4. Cycled(b).RW
      BY <3>2, <3>3, ResetReads DEF Opcode
    <3>. QED  BY <2>1, <3>4 DEF Execute, Written, b
  <2>. QED  BY <2>1 DEF Next, Cycle, Sample, Crash, PressReset
<1>. QED  BY <1>1, Invariant, PTL DEF Spec, ResetSequenceNeverWrites
=============================================================================
