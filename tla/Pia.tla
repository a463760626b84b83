-------------------------------- MODULE Pia --------------------------------
(***************************************************************************)
(* The keyboard and display interface (pia6821.c) between two threads: the *)
(* input thread reads a key into pressed_key and raises data_ready; the    *)
(* clock thread, in the tick of the PIA that ends each cycle of the        *)
(* processor, moves it into the keyboard register PA and lowers data_ready *)
(* again, without any lock.  The program on the other side may do any bus  *)
(* access in any cycle.                                                    *)
(*                                                                         *)
(* Bytes are integers, with the masks of the code written as arithmetic.   *)
(***************************************************************************)
EXTENDS Integers, Sequences

CONSTANTS
  Keys,         \* the bytes that the terminal may deliver
  Accesses,     \* the bus cycles that the program may do
  MAX_COLUMNS   \* characters in a row of the display

Byte == 0..255
Address == {"KBD", "KBDCR", "DSP", "DSPCR", "elsewhere"}
Access == [RW : BOOLEAN, addr : Address, data : Byte]

ASSUME PiaAssumption ==
  /\ Keys \subseteq Byte
  /\ Accesses \subseteq Access
  /\ MAX_COLUMNS \in Nat \ {0}

VARIABLES
  input, clock,               \* program counters of the two threads
  pressed_key, data_ready,    \* what they share
  PA, DDRA, CRA,              \* side A, the keyboard
  PB, DDRB, CRB,              \* side B, the display
  bus,                        \* RW, address bus and data bus
  current_col,
  cursor,                     \* characters since the last newline
  received                    \* the last ready key that the program read

sideA   == <<PA, DDRA, CRA>>
sideB   == <<PB, DDRB, CRB>>
display == <<current_col, cursor>>
vars == <<input, clock, pressed_key, data_ready, PA, DDRA, CRA, PB, DDRB, CRB, bus,
          current_col, cursor, received>>

ESC_KEY   == 27
TILDE_KEY == 96
TAB_KEY   == 9

InputPc == {"loop", "read", "switch"}
ClockPc == {"cpu", "test", "latch", "clear", "display", "bus"}

Raise7(b) == IF b < 128 THEN b + 128 ELSE b      \* b | 0x80
Lower7(b) == b % 128                             \* b & 0x7F
Selected(CR) == (CR \div 4) % 2 = 1              \* CR & DDR_FLAG

(* The two tables; 0 stands for a character that the other side lacks. *)
ascii_to_apple(k) ==
  CASE k = 10 -> 13
    [] k \in 97..122 -> k - 32
    [] k = 127 -> 95
    [] k \in {9, 96} \cup 123..126 \cup 128..255 -> 0
    [] OTHER -> k

apple_to_ascii(c) ==
  CASE c = 13 -> 10
    [] c \in 32..95 -> c
    [] c \in 96..127 -> c - 32
    [] OTHER -> 0

----------------------------------------------------------------------------
Init ==
  /\ input = "loop" /\ clock = "cpu"
  /\ pressed_key = 0 /\ data_ready = FALSE
  /\ PA = 0 /\ DDRA = 0 /\ CRA = 0
  /\ PB = 0 /\ DDRB = 0 /\ CRB = 0
  /\ bus = [RW |-> TRUE, addr |-> "elsewhere", data |-> 0]
  /\ current_col = 0 /\ cursor = 0
  /\ received = 0

----------------------------------------------------------------------------
(* The input thread: input_run.                                            *)

(* A defect: a key is read on top of one that waits. *)
InputReadyAlways ==
  /\ input = "loop"
  /\ input' = "read"
  /\ UNCHANGED <<clock, pressed_key, data_ready, sideA, sideB, bus, display, received>>

(* "Don't read until the CPU has consumed the previous one" *)
InputReady ==
  /\ input = "loop" /\ ~data_ready
  /\ input' = "read"
  /\ UNCHANGED <<clock, pressed_key, data_ready, sideA, sideB, bus, display, received>>

(* A signal, an error or the end of the input: back to the loop. *)
InputNothing ==
  /\ input = "read"
  /\ input' = "loop"
  /\ UNCHANGED <<clock, pressed_key, data_ready, sideA, sideB, bus, display, received>>

InputRead ==
  /\ input = "read"
  /\ pressed_key' \in Keys
  /\ input' = "switch"
  /\ UNCHANGED <<clock, data_ready, sideA, sideB, bus, display, received>>

(* clear_screen moves the cursor and leaves current_col alone. *)
InputClears ==
  /\ input = "switch" /\ pressed_key = TILDE_KEY
  /\ input' = "loop"
  /\ cursor' = 0
  /\ UNCHANGED <<clock, pressed_key, data_ready, sideA, sideB, bus, current_col, received>>

(* Turbo, or an escape sequence: the emulator's own keys. *)
InputCommands ==
  /\ input = "switch" /\ pressed_key \in {TAB_KEY, ESC_KEY}
  /\ input' = "loop"
  /\ UNCHANGED <<clock, pressed_key, data_ready, sideA, sideB, bus, display, received>>

(* Any other key, and an escape with nothing after it. *)
InputTypes ==
  /\ input = "switch" /\ pressed_key \notin {TILDE_KEY, TAB_KEY}
  /\ input' = "loop"
  /\ data_ready' = TRUE
  /\ UNCHANGED <<clock, pressed_key, sideA, sideB, bus, display, received>>

InputStep == InputReady \/ InputClears \/ InputCommands \/ InputTypes
User == InputRead \/ InputNothing

----------------------------------------------------------------------------
(* The clock thread: the processor's half cycle, then clock_pia.           *)

(* On a read every chip's answer replaces what is on the data bus.         *)
CpuCycle(a) ==
  /\ clock = "cpu"
  /\ bus' = a
  /\ clock' = "test"
  /\ UNCHANGED <<input, pressed_key, data_ready, sideA, sideB, display, received>>

(* A defect: a key that the program has not read is overwritten. *)
TestReadyOnly ==
  /\ clock = "test"
  /\ clock' = IF data_ready THEN "latch" ELSE "display"
  /\ UNCHANGED <<input, pressed_key, data_ready, sideA, sideB, bus, display, received>>

(* process_peripheral_A, in three steps: the test, *)
TestReady ==
  /\ clock = "test"
  /\ clock' = IF data_ready /\ CRA < 128 THEN "latch" ELSE "display"
  /\ UNCHANGED <<input, pressed_key, data_ready, sideA, sideB, bus, display, received>>

(* A defect: the key is put into PA and the program is not told. *)
LatchSilently ==
  /\ clock = "latch"
  /\ LET translated_char == ascii_to_apple(pressed_key) IN
       /\ PA' = IF translated_char # 0 THEN Raise7(translated_char) ELSE PA
       /\ clock' = IF translated_char # 0 THEN "clear" ELSE "display"
  /\ UNCHANGED <<input, pressed_key, data_ready, DDRA, CRA, sideB, bus, display, received>>

(* the translation, *)
Latch ==
  /\ clock = "latch"
  /\ LET translated_char == ascii_to_apple(pressed_key) IN
       \/ /\ translated_char # 0
          /\ PA' = Raise7(translated_char)
          /\ CRA' = Raise7(CRA)
          /\ clock' = "clear"
       \/ /\ translated_char = 0
          /\ clock' = "display"
          /\ UNCHANGED <<PA, CRA>>
  /\ UNCHANGED <<input, pressed_key, data_ready, DDRA, sideB, bus, display, received>>

(* and data_ready = false. *)
ClearReady ==
  /\ clock = "clear"
  /\ data_ready' = FALSE
  /\ clock' = "display"
  /\ UNCHANGED <<input, pressed_key, sideA, sideB, bus, display, received>>

(* What the display register holds for the screen: 0 if there is nothing. *)
Printed == IF PB >= 128 THEN apple_to_ascii(Lower7(PB)) ELSE 0

(* A defect: the column is compared after it has been counted. *)
ColumnsLate(t) ==
  /\ current_col' = IF t = 10 THEN 0 ELSE IF current_col > MAX_COLUMNS THEN 1 ELSE current_col + 1
  /\ cursor' = IF t = 10 THEN 0 ELSE IF current_col > MAX_COLUMNS THEN 1 ELSE cursor + 1

(* A newline, from the program or after a full row, begins a new row. *)
Columns(t) ==
  \/ t = 10 /\ current_col' = 0 /\ cursor' = 0
  \/ t # 10 /\ current_col = MAX_COLUMNS /\ current_col' = 1 /\ cursor' = 1
  \/ t # 10 /\ current_col # MAX_COLUMNS /\ current_col' = current_col + 1 /\ cursor' = cursor + 1

(* process_peripheral_B *)
Display ==
  /\ clock = "display"
  /\ clock' = "bus"
  /\ PB' = Lower7(PB)
  /\ IF Printed = 0 THEN UNCHANGED display ELSE Columns(Printed)
  /\ UNCHANGED <<input, pressed_key, data_ready, sideA, DDRB, CRB, bus, received>>

Answer(addr) ==
  CASE addr = "KBDCR" -> CRA
    [] addr = "DSPCR" -> CRB
    [] addr = "KBD" -> IF Selected(CRA) THEN PA ELSE DDRA
    [] addr = "DSP" -> IF Selected(CRB) THEN PB ELSE DDRB
    [] OTHER -> bus.data

(* A defect: reading the keyboard does not lower the ready bit. *)
BusReadKeeps ==
  /\ clock = "bus" /\ bus.RW
  /\ clock' = "cpu"
  /\ bus' = [bus EXCEPT !.data = Answer(bus.addr)]
  /\ received' = IF bus.addr = "KBD" /\ Selected(CRA) /\ CRA >= 128 THEN PA ELSE received
  /\ UNCHANGED <<input, pressed_key, data_ready, sideA, sideB, display>>

(* Reading the data register of side A lowers the ready bit, also when it  *)
(* is the data direction register that is read.                            *)
BusRead ==
  /\ clock = "bus" /\ bus.RW
  /\ clock' = "cpu"
  /\ bus' = [bus EXCEPT !.data = Answer(bus.addr)]
  /\ IF bus.addr = "KBD"
     THEN /\ CRA' = Lower7(CRA)
          /\ received' = IF Selected(CRA) /\ CRA >= 128 THEN PA ELSE received
     ELSE UNCHANGED <<CRA, received>>
  /\ UNCHANGED <<input, pressed_key, data_ready, PA, DDRA, sideB, display>>

(* CRA loses its ready bit; CRB keeps every bit, "Bits 6 and 7 are RO"     *)
(* notwithstanding.                                                        *)
BusWrite ==
  /\ clock = "bus" /\ ~bus.RW
  /\ clock' = "cpu"
  /\ CRA' = IF bus.addr = "KBDCR" THEN bus.data % 64 ELSE CRA
  /\ CRB' = IF bus.addr = "DSPCR" THEN bus.data ELSE CRB
  /\ PA' = IF bus.addr = "KBD" /\ Selected(CRA) THEN bus.data ELSE PA
  /\ DDRA' = IF bus.addr = "KBD" /\ ~Selected(CRA) THEN bus.data ELSE DDRA
  /\ PB' = IF bus.addr = "DSP" /\ Selected(CRB) THEN Raise7(bus.data) ELSE PB
  /\ DDRB' = IF bus.addr = "DSP" /\ ~Selected(CRB) THEN Raise7(bus.data) ELSE DDRB
  /\ UNCHANGED <<input, pressed_key, data_ready, bus, display, received>>

PiaStep == TestReady \/ Latch \/ ClearReady \/ Display \/ BusRead \/ BusWrite

----------------------------------------------------------------------------
Next == InputStep \/ User \/ PiaStep \/ \E a \in Accesses : CpuCycle(a)

Spec == Init /\ [][Next]_vars

----------------------------------------------------------------------------
TypeOK ==
  /\ input \in InputPc /\ clock \in ClockPc
  /\ pressed_key \in Byte /\ data_ready \in BOOLEAN
  /\ PA \in Byte /\ DDRA \in Byte /\ CRA \in Byte
  /\ PB \in Byte /\ DDRB \in Byte /\ CRB \in Byte
  /\ bus \in Access
  /\ current_col \in 0..MAX_COLUMNS /\ cursor \in Nat
  /\ received \in Byte

(* Who owns pressed_key: the input thread while data_ready is down, the    *)
(* clock thread between its test of data_ready and the moment it lowers it. *)
Handshake ==
  /\ input \in {"read", "switch"} => ~data_ready
  /\ clock \in {"latch", "clear"} => data_ready
  /\ clock = "latch" => CRA < 128
  /\ clock = "clear" => /\ CRA >= 128
                        /\ ascii_to_apple(pressed_key) # 0
                        /\ PA = Raise7(ascii_to_apple(pressed_key))

(***************************************************************************)
(* No row of the display gets more than MAX_COLUMNS characters, although   *)
(* current_col is only what process_peripheral_B believes the cursor's     *)
(* column to be and the input thread moves the cursor under it             *)
(* (pia6821.c:101, clear_screen).                                          *)
(***************************************************************************)
ColumnBound == cursor <= MAX_COLUMNS

(***************************************************************************)
(* What ColumnBound and the refinement rest on: the types, the handshake   *)
(* over pressed_key and a cursor that is never beyond current_col          *)
(* (process_peripheral_A, process_peripheral_B, input_run).                *)
(***************************************************************************)
IInv == TypeOK /\ Handshake /\ cursor <= current_col

----------------------------------------------------------------------------
(* A key is in PA while the ready bit is up, and in pressed_key while      *)
(* data_ready is, but for the moment in which it is in both.               *)
Ready   == CRA >= 128
Waiting == data_ready /\ clock # "clear" /\ ascii_to_apple(pressed_key) # 0
Key     == Raise7(ascii_to_apple(pressed_key))

Queue ==
  CASE Ready /\ Waiting   -> <<PA, Key>>
    [] Ready /\ ~Waiting  -> <<PA>>
    [] ~Ready /\ Waiting  -> <<Key>>
    [] ~Ready /\ ~Waiting -> <<>>

Request ==
  IF clock = "cpu" THEN "none"
  ELSE CASE bus.addr = "KBD" /\ Selected(CRA) -> IF bus.RW THEN "take" ELSE "replace"
         [] bus.addr = "KBD" /\ ~Selected(CRA) /\ bus.RW -> "drop"
         [] bus.addr = "KBDCR" /\ ~bus.RW -> "drop"
         [] OTHER -> "none"

Channel == INSTANCE KeyChannel WITH
  Char <- Byte, Capacity <- 2,
  queue <- Queue,
  jammed <- data_ready /\ ascii_to_apple(pressed_key) = 0,
  request <- Request, received <- received

(***************************************************************************)
(* Whatever the program does, the two threads and their unlocked handshake *)
(* are a channel of two places (input_run, process_peripheral_A,           *)
(* clock_pia): keys reach the program in the order they were typed, none   *)
(* twice, and none is lost but by the program's own access.                *)
(***************************************************************************)
ImplementsChannel == Channel!Spec
=============================================================================
