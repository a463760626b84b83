----------------------------- MODULE PiaProofs -----------------------------
(***************************************************************************)
(* For every set of keys, every program and every width of the display:    *)
(* the keyboard side of the PIA implements the two-place channel of        *)
(* KeyChannel, no row gets more than MAX_COLUMNS characters, and what a    *)
(* monitor echoes is what was typed.                                       *)
(*                                                                         *)
(* The invariant of the first two is the ownership of pressed_key, which   *)
(* data_ready and the clock thread's place hand over (Handshake), and the  *)
(* cursor that stays at or before the column that process_peripheral_B     *)
(* counts.  The echo needs to know in addition where the monitor is        *)
(* (Place) and that what was typed is what is shown and the keys on their  *)
(* way, each in its place.                                                 *)
(***************************************************************************)
EXTENDS PiaMC, SequenceTheorems, TLAPS

USE PiaAssumption

(* The masks of the code on bytes. *)
LEMMA Masks ==
  ASSUME NEW b \in Byte
  PROVE  /\ Raise7(b) \in Byte /\ Raise7(b) >= 128
         /\ Lower7(b) \in Byte /\ Lower7(b) < 128
         /\ b % 64 \in Byte /\ b % 64 < 128
BY DEF Byte, Raise7, Lower7

(* Raising the ready bit leaves the choice of the data register alone. *)
LEMMA RaiseKeepsSelection ==
  ASSUME NEW b \in Byte
  PROVE  Selected(Raise7(b)) = Selected(b)
BY DEF Byte, Raise7, Selected

(* A translated key fits in seven bits. *)
LEMMA AsciiToApple ==
  ASSUME NEW k \in Byte
  PROVE  ascii_to_apple(k) \in Byte
BY DEF Byte, ascii_to_apple

(* The initial state: no key, an empty row. *)
LEMMA InitInv == Init => IInv
<1> SUFFICES ASSUME Init PROVE IInv
  OBVIOUS
<1>1. bus \in Access
  BY DEF Init, Access, Address, Byte
<1>2. TypeOK
  <2>1. input \in InputPc /\ clock \in ClockPc /\ data_ready \in BOOLEAN
    BY Zenon DEF Init, InputPc, ClockPc
  <2>2. current_col \in 0..MAX_COLUMNS /\ cursor \in Nat
    BY DEF Init
  <2>3. /\ pressed_key \in Byte /\ received \in Byte
        /\ PA \in Byte /\ DDRA \in Byte /\ CRA \in Byte
        /\ PB \in Byte /\ DDRB \in Byte /\ CRB \in Byte
    BY DEF Init, Byte
  <2> QED
    BY <1>1, <2>1, <2>2, <2>3 DEF TypeOK
<1>3. Handshake /\ cursor <= current_col
  BY DEF Init, Handshake
<1> QED
  BY <1>2, <1>3 DEF IInv

(* One row at most, whatever the input thread does to the cursor. *)
LEMMA ColumnsInv ==
  ASSUME IInv, Columns(Printed)
  PROVE  current_col' \in 0..MAX_COLUMNS /\ cursor' \in Nat /\ cursor' <= current_col'
BY DEF IInv, TypeOK, Columns

(* Every step keeps the invariant. *)
LEMMA NextInv == IInv /\ [Next]_vars => IInv'
<1> SUFFICES ASSUME IInv, [Next]_vars PROVE IInv'
  OBVIOUS
<1> USE DEF IInv
<1>1. CASE InputReady
  BY <1>1 DEF InputReady, TypeOK, Handshake, InputPc, sideA, sideB, display
<1>2. CASE InputNothing
  BY <1>2 DEF InputNothing, TypeOK, Handshake, InputPc, sideA, sideB, display
<1>3. CASE InputRead
  BY <1>3 DEF InputRead, TypeOK, Handshake, InputPc, sideA, sideB, display
<1>4. CASE InputClears
  BY <1>4 DEF InputClears, TypeOK, Handshake, InputPc, sideA, sideB
<1>5. CASE InputCommands
  BY <1>5 DEF InputCommands, TypeOK, Handshake, InputPc, sideA, sideB, display
<1>6. CASE InputTypes
  BY <1>6 DEF InputTypes, TypeOK, Handshake, InputPc, sideA, sideB, display
<1>7. CASE \E a \in Accesses : CpuCycle(a)
  BY <1>7 DEF CpuCycle, TypeOK, Handshake, ClockPc, sideA, sideB, display
<1>8. CASE TestReady
  BY <1>8 DEF TestReady, TypeOK, Handshake, ClockPc, sideA, sideB, display
<1>9. CASE Latch
  <2> DEFINE t == ascii_to_apple(pressed_key)
  <2>1. t \in Byte /\ Raise7(t) \in Byte /\ Raise7(CRA) \in Byte /\ Raise7(CRA) >= 128
    BY AsciiToApple, Masks DEF TypeOK
  <2>2. CASE t # 0 /\ PA' = Raise7(t) /\ CRA' = Raise7(CRA) /\ clock' = "clear"
    BY <1>9, <2>1, <2>2 DEF Latch, TypeOK, Handshake, ClockPc, sideB, display
  <2>3. CASE t = 0 /\ clock' = "display" /\ UNCHANGED <<PA, CRA>>
    BY <1>9, <2>3 DEF Latch, TypeOK, Handshake, ClockPc, sideB, display
  <2> QED
    BY <1>9, <2>2, <2>3 DEF Latch
<1>10. CASE ClearReady
  BY <1>10 DEF ClearReady, TypeOK, Handshake, ClockPc, sideA, sideB, display
<1>11. CASE Display
  <2>1. current_col' \in 0..MAX_COLUMNS /\ cursor' \in Nat /\ cursor' <= current_col'
    BY <1>11, ColumnsInv DEF Display, TypeOK, display
  <2>2. PB' \in Byte
    BY <1>11, Masks DEF Display, TypeOK
  <2> QED
    BY <1>11, <2>1, <2>2 DEF Display, TypeOK, Handshake, ClockPc, sideA
<1>12. CASE BusRead
  <2>1. Answer(bus.addr) \in Byte /\ bus' \in Access
    BY <1>12 DEF BusRead, Answer, TypeOK, Access
  <2>2. CRA' \in Byte /\ received' \in Byte
    BY <1>12, Masks DEF BusRead, TypeOK
  <2> QED
    BY <1>12, <2>1, <2>2 DEF BusRead, TypeOK, Handshake, ClockPc, sideB, display
<1>13. CASE BusWrite
  <2>1. bus.data \in Byte /\ bus.data % 64 \in Byte /\ Raise7(bus.data) \in Byte
    BY Masks DEF TypeOK, Access
  <2> QED
    BY <1>13, <2>1 DEF BusWrite, TypeOK, Handshake, ClockPc, display
<1>14. CASE UNCHANGED vars
  BY <1>14 DEF vars, TypeOK, Handshake
<1> QED
  BY <1>1, <1>2, <1>3, <1>4, <1>5, <1>6, <1>7, <1>8, <1>9, <1>10, <1>11, <1>12, <1>13,
     <1>14 DEF Next, InputStep, User, PiaStep

(***************************************************************************)
(* The handshake over pressed_key holds for every program and every way    *)
(* the two threads interleave (input_run, process_peripheral_A).           *)
(***************************************************************************)
THEOREM PiaInvariant == Spec => []IInv
BY InitInv, NextInv, PTL DEF Spec

(***************************************************************************)
(* No row of the display is longer than MAX_COLUMNS, for every width and   *)
(* however often the user clears the screen (process_peripheral_B).        *)
(***************************************************************************)
THEOREM RowsFit == Spec => []ColumnBound
<1>1. IInv => ColumnBound
  BY DEF IInv, TypeOK, ColumnBound
<1> QED
  BY <1>1, PiaInvariant, PTL

----------------------------------------------------------------------------
(* The refinement.                                                         *)

(* What the channel's operations do to a queue of one or two keys. *)
LEMMA ShortQueues ==
  ASSUME NEW a, NEW b, NEW c
  PROVE  /\ Append(<<>>, a) = <<a>> /\ Append(<<a>>, b) = <<a, b>>
         /\ Head(<<a>>) = a /\ Head(<<a, b>>) = a
         /\ Tail(<<a>>) = <<>> /\ Tail(<<a, b>>) = <<b>>
         /\ Len(<<>>) = 0 /\ Len(<<a>>) = 1 /\ Len(<<a, b>>) = 2
         /\ [<<a>> EXCEPT ![1] = c] = <<c>>
         /\ [<<a, b>> EXCEPT ![1] = c] = <<c, b>>
         /\ <<a>> # <<>> /\ <<a, b>> # <<>>
<1>1. Append(<<a>>, b) = <<a, b>>
  <2>1. <<a>> \in Seq({a, b}) /\ <<a, b>> \in Seq({a, b})
    OBVIOUS
  <2>2. Append(<<a>>, b) \in Seq({a, b})
    BY <2>1, AppendProperties
  <2>3. Len(Append(<<a>>, b)) = 2 /\ Append(<<a>>, b)[1] = a /\ Append(<<a>>, b)[2] = b
    BY <2>1, AppendProperties
  <2>4. Len(<<a, b>>) = 2 /\ \A i \in 1..2 : Append(<<a>>, b)[i] = <<a, b>>[i]
    BY <2>3
  <2> QED
    BY <2>1, <2>2, <2>3, <2>4, SeqEqual
<1>2. Append(<<>>, a) = <<a>>
  OBVIOUS
<1>3. Head(<<a>>) = a /\ Head(<<a, b>>) = a
  OBVIOUS
<1>4. Tail(<<a>>) = <<>> /\ Tail(<<a, b>>) = <<b>>
  OBVIOUS
<1>5. Len(<<>>) = 0 /\ Len(<<a>>) = 1 /\ Len(<<a, b>>) = 2
  OBVIOUS
<1>6. [<<a>> EXCEPT ![1] = c] = <<c>>
  OBVIOUS
<1>7. [<<a, b>> EXCEPT ![1] = c] = <<c, b>>
  OBVIOUS
<1> QED
  BY <1>1, <1>2, <1>3, <1>4, <1>5, <1>6, <1>7

Jammed == data_ready /\ ascii_to_apple(pressed_key) = 0

(* There is nothing in the channel at first. *)
LEMMA ChannelInit == Init => Channel!Init
<1> SUFFICES ASSUME Init PROVE Channel!Init
  OBVIOUS
<1>1. Queue = <<>>
  BY DEF Init, Queue, Ready, Waiting
<1>2. Request = "none"
  BY DEF Init, Request
<1>3. Jammed = FALSE
  BY DEF Init, Jammed
<1> QED
  BY <1>1, <1>2, <1>3 DEF Init, Channel!Init, Jammed

(* A step that leaves the channel alone. *)
LEMMA Stutters ==
  ASSUME UNCHANGED <<Queue, Jammed, Request, received>>
  PROVE  [Channel!Next]_(Channel!vars)
BY DEF Channel!vars, Jammed

(* Before the switch there is room: pressed_key is the input thread's. *)
LEMMA RoomInSwitch ==
  ASSUME IInv, input = "switch"
  PROVE  /\ Queue = IF Ready THEN <<PA>> ELSE <<>>
         /\ Len(Queue) < 2 /\ Jammed = FALSE /\ Waiting = FALSE
<1>1. data_ready = FALSE
  BY DEF IInv, TypeOK, Handshake
<1>2. Jammed = FALSE /\ Waiting = FALSE
  BY <1>1 DEF Jammed, Waiting
<1>3. Queue = IF Ready THEN <<PA>> ELSE <<>>
  BY <1>2 DEF Queue
<1> QED
  BY <1>2, <1>3

(* data_ready = true puts a key into the channel, or jams it. *)
LEMMA TypesMaps ==
  ASSUME IInv, InputTypes
  PROVE  [Channel!Next]_(Channel!vars)
<1>1. /\ UNCHANGED <<PA, CRA, clock, pressed_key, bus, received>> /\ data_ready' = TRUE
      /\ input = "switch"
  BY DEF InputTypes, sideA
<1>2. Request' = Request /\ Ready' = Ready
  BY <1>1 DEF Request, Ready
<1>3. clock # "clear"
  BY <1>1 DEF IInv, Handshake
<1>4. CASE ascii_to_apple(pressed_key) # 0
  <2>1. Queue' = Append(Queue, Key)
    <3>1. Waiting' = TRUE /\ Key' = Key /\ PA' = PA
      BY <1>1, <1>3, <1>4 DEF Waiting, Key
    <3>2. Queue' = IF Ready THEN <<PA, Key>> ELSE <<Key>>
      BY <1>2, <3>1 DEF Queue
    <3> QED
      BY <3>2, <1>1, RoomInSwitch, ShortQueues
  <2>2. Key \in Byte
    BY AsciiToApple, Masks DEF IInv, TypeOK, Key
  <2>3. Jammed' = FALSE
    BY <1>1, <1>4 DEF Jammed
  <2>4. Channel!Send
    BY <2>1, <2>2, <2>3, <1>1, <1>2, RoomInSwitch DEF Channel!Send, Channel!HasRoom, Jammed
  <2> QED
    BY <2>4 DEF Channel!Next
<1>5. CASE ascii_to_apple(pressed_key) = 0
  <2>1. Queue' = Queue
    <3>1. Waiting' = FALSE /\ PA' = PA
      BY <1>1, <1>5 DEF Waiting
    <3>2. Queue' = IF Ready THEN <<PA>> ELSE <<>>
      BY <1>2, <3>1 DEF Queue
    <3> QED
      BY <3>2, <1>1, RoomInSwitch
  <2>2. Jammed' = TRUE
    BY <1>1, <1>5 DEF Jammed
  <2>3. Channel!Jam
    BY <2>1, <2>2, <1>1, <1>2, RoomInSwitch DEF Channel!Jam, Channel!HasRoom, Jammed
  <2> QED
    BY <2>3 DEF Channel!Next
<1> QED
  BY <1>4, <1>5

(* The processor's half cycle is the program's request. *)
LEMMA CycleMaps ==
  ASSUME IInv, NEW a \in Accesses, CpuCycle(a)
  PROVE  [Channel!Next]_(Channel!vars)
<1>1. /\ UNCHANGED <<PA, CRA, pressed_key, data_ready, received>>
      /\ clock = "cpu" /\ clock' = "test"
  BY DEF CpuCycle, sideA
<1>2. Queue' = Queue /\ Jammed' = Jammed
  BY <1>1 DEF Queue, Ready, Waiting, Key, Jammed
<1>3. Request = "none" /\ Request' \in Channel!Requests
  BY <1>1 DEF Request, Channel!Requests
<1>4. CASE Request' = "none"
  BY <1>1, <1>2, <1>3, <1>4, Stutters
<1>5. CASE Request' # "none"
  <2>1. Channel!Ask
    BY <1>1, <1>2, <1>3, <1>5 DEF Channel!Ask, Jammed
  <2> QED
    BY <2>1 DEF Channel!Next
<1> QED
  BY <1>4, <1>5

(* Moving a key from pressed_key to PA changes nothing in the channel. *)
LEMMA LatchMaps ==
  ASSUME IInv, Latch
  PROVE  [Channel!Next]_(Channel!vars)
<1>1. /\ UNCHANGED <<pressed_key, data_ready, bus, received>> /\ clock = "latch"
      /\ data_ready = TRUE /\ Ready = FALSE
  <2>1. UNCHANGED <<pressed_key, data_ready, bus, received>> /\ clock = "latch"
    BY DEF Latch
  <2>2. data_ready /\ ~Ready
    BY <2>1 DEF IInv, TypeOK, Handshake, Ready, Byte
  <2> QED
    BY <2>1, <2>2 DEF IInv, TypeOK, Ready
<1>2. Jammed' = Jammed
  BY <1>1 DEF Jammed
<1>3. CASE ascii_to_apple(pressed_key) # 0
  <2>1. PA' = Key /\ CRA' = Raise7(CRA) /\ clock' = "clear"
    BY <1>3 DEF Latch, Key
  <2>2. Queue = <<Key>>
    BY <1>1, <1>3 DEF Queue, Waiting
  <2>3. Queue' = <<Key>>
    <3>1. Ready' = TRUE /\ Waiting' = FALSE
      BY <2>1, Masks DEF Ready, Waiting, IInv, TypeOK
    <3> QED
      BY <3>1, <2>1 DEF Queue
  <2>4. Request' = Request
    <3>1. Selected(CRA') = Selected(CRA)
      BY <2>1, RaiseKeepsSelection DEF IInv, TypeOK
    <3> QED
      BY <3>1, <1>1, <2>1 DEF Request
  <2> QED
    BY <1>1, <1>2, <2>2, <2>3, <2>4, Stutters
<1>4. CASE ascii_to_apple(pressed_key) = 0
  <2>1. UNCHANGED <<PA, CRA>> /\ clock' = "display"
    BY <1>4 DEF Latch
  <2>2. Queue' = Queue /\ Request' = Request
    BY <1>1, <1>4, <2>1 DEF Queue, Ready, Waiting, Key, Request
  <2> QED
    BY <1>1, <1>2, <2>2, Stutters
<1> QED
  BY <1>3, <1>4

(* Nor does data_ready = false after it. *)
LEMMA ClearMaps ==
  ASSUME IInv, ClearReady
  PROVE  [Channel!Next]_(Channel!vars)
<1>1. /\ UNCHANGED <<PA, CRA, pressed_key, bus, received>>
      /\ clock = "clear" /\ clock' = "display" /\ data_ready' = FALSE
  BY DEF ClearReady, sideA
<1>2. Ready = TRUE /\ Ready' = TRUE /\ ascii_to_apple(pressed_key) # 0
  BY <1>1 DEF IInv, Handshake, Ready
<1>3. Waiting = FALSE /\ Waiting' = FALSE
  BY <1>1 DEF Waiting
<1>4. Queue' = Queue
  BY <1>1, <1>2, <1>3 DEF Queue
<1>5. Jammed' = Jammed /\ Request' = Request
  BY <1>1, <1>2 DEF Jammed, Request
<1> QED
  BY <1>1, <1>4, <1>5, Stutters

(* The queue as the bus finds it and leaves it: only its head can change.  *)
LEMMA QueueOnBus ==
  ASSUME IInv, clock = "bus", clock' = "cpu", UNCHANGED <<pressed_key, data_ready>>
  PROVE  /\ Waiting' = Waiting /\ Key' = Key /\ Jammed' = Jammed
         /\ ~Ready => Len(Queue) < 2
         /\ Ready => Queue # <<>> /\ Head(Queue) = PA
         /\ Ready /\ ~Ready' => Queue' = Tail(Queue)
         /\ Ready /\ Ready' => Queue' = [Queue EXCEPT ![1] = PA']
         /\ ~Ready /\ ~Ready' => Queue' = Queue
         /\ PA' = PA /\ Ready' = Ready => Queue' = Queue
         /\ Request' = "none"
<1>1. Waiting' = Waiting /\ Key' = Key /\ Jammed' = Jammed
  BY DEF Waiting, Key, Jammed
<1>2. Request' = "none"
  BY DEF Request
<1>3. CASE Waiting
  <2>1. Queue = IF Ready THEN <<PA, Key>> ELSE <<Key>>
    BY <1>3 DEF Queue
  <2>2. Queue' = IF Ready' THEN <<PA', Key>> ELSE <<Key>>
    BY <1>1, <1>3 DEF Queue
  <2> QED
    BY <1>1, <1>2, <2>1, <2>2, ShortQueues
<1>4. CASE ~Waiting
  <2>1. Queue = IF Ready THEN <<PA>> ELSE <<>>
    BY <1>4 DEF Queue
  <2>2. Queue' = IF Ready' THEN <<PA'>> ELSE <<>>
    BY <1>1, <1>4 DEF Queue
  <2> QED
    BY <1>1, <1>2, <2>1, <2>2, ShortQueues
<1> QED
  BY <1>3, <1>4

(* A read of the keyboard takes the key in PA, or lowers the ready bit     *)
(* without showing it; any other read leaves the channel alone.            *)
LEMMA ReadMaps ==
  ASSUME IInv, BusRead
  PROVE  [Channel!Next]_(Channel!vars)
<1>1. /\ clock = "bus" /\ clock' = "cpu" /\ bus.RW
      /\ UNCHANGED <<pressed_key, data_ready, PA>>
  BY DEF BusRead
<1> HIDE DEF Channel!Next, Channel!vars
<1>2. CASE bus.addr # "KBD"
  <2>1. UNCHANGED <<CRA, received>> /\ Ready' = Ready
    BY <1>2 DEF BusRead, Ready
  <2>2. Request = "none"
    BY <1>1, <1>2 DEF Request
  <2> QED
    BY <1>1, <2>1, <2>2, QueueOnBus, Stutters
<1>3. CASE bus.addr = "KBD"
  <2>1. ~Ready'
    <3>1. CRA' = Lower7(CRA) /\ CRA \in Byte
      BY <1>3 DEF BusRead, IInv, TypeOK
    <3>2. CRA' \in Byte /\ CRA' < 128
      BY <3>1, Masks
    <3> QED
      BY <3>2 DEF Ready, Byte
  <2>2. received' = IF Selected(CRA) /\ Ready THEN PA ELSE received
    BY <1>3 DEF BusRead, Ready
  <2>3. Request = IF Selected(CRA) THEN "take" ELSE "drop"
    BY <1>1, <1>3 DEF Request
  <2>4. CASE ~Ready
    <3>1. Channel!Miss
      BY <1>1, <2>1, <2>2, <2>3, <2>4, QueueOnBus DEF Channel!Miss, Channel!Served, Jammed
    <3> QED
      BY <3>1 DEF Channel!Next
  <2>5. CASE Ready /\ Selected(CRA)
    <3>1. Channel!Take
      BY <1>1, <2>1, <2>2, <2>3, <2>5, QueueOnBus DEF Channel!Take, Channel!Served, Jammed
    <3> QED
      BY <3>1 DEF Channel!Next
  <2>6. CASE Ready /\ ~Selected(CRA)
    <3>1. Channel!Drop
      BY <1>1, <2>1, <2>2, <2>3, <2>6, QueueOnBus DEF Channel!Drop, Channel!Served, Jammed
    <3> QED
      BY <3>1 DEF Channel!Next
  <2> QED
    BY <2>4, <2>5, <2>6
<1> QED
  BY <1>2, <1>3

(* A write to the control register drops the key in PA, one to the         *)
(* keyboard's data register replaces it.                                   *)
LEMMA WriteMaps ==
  ASSUME IInv, BusWrite
  PROVE  [Channel!Next]_(Channel!vars)
<1>1. /\ clock = "bus" /\ clock' = "cpu" /\ ~bus.RW /\ bus.data \in Byte
      /\ UNCHANGED <<pressed_key, data_ready, received>>
  BY DEF BusWrite, IInv, TypeOK, Access
<1>2. CASE bus.addr = "KBDCR"
  <2>1. ~Ready' /\ PA' = PA
    BY <1>1, <1>2, Masks DEF BusWrite, Ready
  <2>2. Request = "drop"
    BY <1>1, <1>2 DEF Request
  <2>3. CASE Ready
    <3>1. Channel!Drop
      BY <1>1, <2>1, <2>2, <2>3, QueueOnBus DEF Channel!Drop, Channel!Served, Jammed
    <3> QED
      BY <3>1 DEF Channel!Next
  <2>4. CASE ~Ready
    <3>1. Channel!Miss
      BY <1>1, <2>1, <2>2, <2>4, QueueOnBus DEF Channel!Miss, Channel!Served, Jammed
    <3> QED
      BY <3>1 DEF Channel!Next
  <2> QED
    BY <2>3, <2>4
<1>3. CASE bus.addr = "KBD" /\ Selected(CRA)
  <2>1. Ready' = Ready /\ PA' = bus.data
    BY <1>3 DEF BusWrite, Ready
  <2>2. Request = "replace"
    BY <1>1, <1>3 DEF Request
  <2>3. CASE Ready
    <3>1. Channel!Replace
      BY <1>1, <2>1, <2>2, <2>3, QueueOnBus DEF Channel!Replace, Channel!Served, Jammed
    <3> QED
      BY <3>1 DEF Channel!Next
  <2>4. CASE ~Ready
    <3>1. Channel!Miss
      BY <1>1, <2>1, <2>2, <2>4, QueueOnBus DEF Channel!Miss, Channel!Served, Jammed
    <3> QED
      BY <3>1 DEF Channel!Next
  <2> QED
    BY <2>3, <2>4
<1>4. CASE bus.addr # "KBDCR" /\ ~(bus.addr = "KBD" /\ Selected(CRA))
  <2>1. Ready' = Ready /\ PA' = PA
    BY <1>4 DEF BusWrite, Ready
  <2>2. Request = "none"
    BY <1>1, <1>4 DEF Request
  <2> QED
    BY <1>1, <2>1, <2>2, QueueOnBus, Stutters
<1> QED
  BY <1>2, <1>3, <1>4

(* Every step is a step of the channel or leaves it alone. *)
LEMMA ChannelNext == IInv /\ [Next]_vars => [Channel!Next]_(Channel!vars)
<1> SUFFICES ASSUME IInv, [Next]_vars PROVE [Channel!Next]_(Channel!vars)
  OBVIOUS
<1> HIDE DEF Channel!Next, Channel!vars
<1>1. CASE InputReady \/ InputNothing \/ InputClears \/ InputCommands
  <2>1. UNCHANGED <<clock, pressed_key, data_ready, PA, CRA, bus, received>>
    BY <1>1 DEF InputReady, InputNothing, InputClears, InputCommands, sideA
  <2>2. UNCHANGED <<Queue, Jammed, Request, received>>
    BY <2>1 DEF Queue, Ready, Waiting, Key, Jammed, Request
  <2> QED
    BY <2>2, Stutters
<1>2. CASE InputRead
  <2>1. /\ UNCHANGED <<clock, data_ready, PA, CRA, bus, received>> /\ data_ready = FALSE
    BY <1>2 DEF InputRead, sideA, IInv, TypeOK, Handshake
  <2>2. Waiting = FALSE /\ Waiting' = FALSE /\ Jammed = FALSE /\ Jammed' = FALSE
    BY <2>1 DEF Waiting, Jammed
  <2>3. UNCHANGED <<Queue, Request>>
    BY <2>1, <2>2 DEF Queue, Ready, Request
  <2> QED
    BY <2>1, <2>2, <2>3, Stutters
<1>3. CASE InputTypes
  BY <1>3, TypesMaps
<1>4. CASE \E a \in Accesses : CpuCycle(a)
  BY <1>4, CycleMaps
<1>5. CASE TestReady \/ Display
  <2>1. /\ UNCHANGED <<pressed_key, data_ready, PA, CRA, bus, received>>
        /\ clock \notin {"cpu", "clear"} /\ clock' \notin {"cpu", "clear"}
    BY <1>5 DEF TestReady, Display, sideA
  <2>2. UNCHANGED <<Queue, Jammed, Request>>
    BY <2>1 DEF Queue, Ready, Waiting, Key, Jammed, Request
  <2> QED
    BY <2>1, <2>2, Stutters
<1>6. CASE Latch
  BY <1>6, LatchMaps
<1>7. CASE ClearReady
  BY <1>7, ClearMaps
<1>8. CASE BusRead
  BY <1>8, ReadMaps
<1>9. CASE BusWrite
  BY <1>9, WriteMaps
<1>10. CASE UNCHANGED vars
  <2>1. UNCHANGED <<Queue, Jammed, Request, received>>
    BY <1>10 DEF vars, Queue, Ready, Waiting, Key, Jammed, Request
  <2> QED
    BY <2>1, Stutters
<1> QED
  BY <1>1, <1>2, <1>3, <1>4, <1>5, <1>6, <1>7, <1>8, <1>9, <1>10
  DEF Next, InputStep, User, PiaStep

(***************************************************************************)
(* For every keyboard and every program: the unlocked handshake of the two *)
(* threads is a channel of two places that loses, changes or doubles no    *)
(* key on its own (input_run, process_peripheral_A, clock_pia).            *)
(***************************************************************************)
THEOREM ChannelImplemented == Spec => ImplementsChannel
BY ChannelInit, ChannelNext, PiaInvariant, PTL DEF Spec, ImplementsChannel, Channel!Spec

----------------------------------------------------------------------------
(* The monitor and its user.                                               *)

(* What the byte b looks like on the screen when its high bit is set. *)
Seen(b) ==
  IF b >= 128 /\ apple_to_ascii(Lower7(b)) # 0 THEN <<apple_to_ascii(Lower7(b))>> ELSE <<>>

(* The monitor has read the key and not written it yet. *)
Carried ==
  \/ program = "echo" /\ clock = "cpu"
  \/ program = "wait" /\ clock # "cpu"

(* It has written it, and the display has not looked at PB since. *)
Undisplayed ==
  \/ program = "wait" /\ clock = "cpu"
  \/ program = "drain" /\ clock \in {"test", "latch", "clear", "display"}

(* The keys on their way to the screen: the one that the monitor carries   *)
(* or that is in PB, the one in PA and the one in pressed_key; 0 for none. *)
Echoing == IF PB >= 128 THEN PB ELSE IF Carried THEN bus.data ELSE 0
Latched == IF Ready THEN PA ELSE 0
Pressed == IF Waiting THEN Key ELSE 0

(* The text, and what three keys add to it. *)
Text(text, a, b, c) == text \o Seen(a) \o Seen(b) \o Seen(c)

(***************************************************************************)
(* Where the monitor is: it is set up when it polls, it reads the keyboard *)
(* only when a key is ready, and it writes to a display that is drained.   *)
(***************************************************************************)
Place ==
  /\ program \in {"kbdcr", "dspcr", "ask", "poll", "echo", "wait", "drain"}
  /\ CRA >= 128 => PA >= 128
  /\ PB >= 128 <=> Undisplayed
  /\ program = "kbdcr" => clock = "cpu" /\ CRA = 0 /\ ~data_ready
  /\ program = "dspcr" =>
       /\ ~data_ready
       /\ IF clock = "cpu" THEN CRA = 39 ELSE CRA = 0 /\ bus = Write("KBDCR", 167)
  /\ program \notin {"kbdcr", "dspcr"} => CRA \in {39, 167}
  /\ program = "ask" => IF clock = "cpu" THEN CRB = 167 ELSE bus = Write("DSPCR", 167)
  /\ program \in {"poll", "echo", "wait", "drain"} => CRB = 167
  /\ program = "poll" => bus.RW /\ bus.addr = "KBDCR" /\ (clock = "cpu" => bus.data = CRA)
  /\ program = "echo" =>
       /\ bus.RW /\ bus.addr = "KBD"
       /\ IF clock = "cpu" THEN CRA = 39 /\ bus.data >= 128 ELSE CRA = 167
  /\ program = "wait" => ~bus.RW /\ bus.addr = "DSP" /\ bus.data >= 128
  /\ program = "drain" => bus.RW /\ bus.addr = "DSP" /\ (clock = "cpu" => bus.data = PB)

MonitorInv ==
  /\ typed \in Seq(Byte) /\ shown \in Seq(Byte)
  /\ program \in Free => typed = <<>> /\ shown = <<>>
  /\ program \notin Free => Place /\ typed = Text(shown, Echoing, Latched, Pressed)

(* What is seen of a byte, of no byte, and of a key. *)
LEMMA SeenFacts ==
  /\ \A b \in Byte : Seen(b) \in Seq(Byte) /\ (b < 128 => Seen(b) = <<>>)
  /\ \A b \in Byte : Seen(b) = IF b >= 128 /\ apple_to_ascii(Lower7(b)) # 0
                               THEN <<apple_to_ascii(Lower7(b))>> ELSE <<>>
  /\ \A k \in Byte : ascii_to_apple(k) # 0 =>
       Seen(Raise7(ascii_to_apple(k))) = IF Echo(k) = 0 THEN <<>> ELSE <<Echo(k)>>
  /\ \A k \in Byte : ascii_to_apple(k) = 0 => Echo(k) = 0
<1>1. ASSUME NEW b \in Byte PROVE Seen(b) \in Seq(Byte) /\ (b < 128 => Seen(b) = <<>>)
  <2>1. \A c \in 0..127 : apple_to_ascii(c) \in Byte
    BY DEF apple_to_ascii, Byte
  <2>2. Lower7(b) \in 0..127
    BY DEF Lower7, Byte
  <2>3. <<apple_to_ascii(Lower7(b))>> \in Seq(Byte) /\ <<>> \in Seq(Byte)
    <3>1. \A x \in Byte : <<x>> \in Seq(Byte)
      OBVIOUS
    <3>2. <<>> \in Seq(Byte)
      OBVIOUS
    <3>3. PICK x \in Byte : x = apple_to_ascii(Lower7(b))
      BY <2>1, <2>2
    <3>. QED  BY <3>1, <3>2, <3>3
  <2>4. b < 128 => ~(b >= 128)
    BY DEF Byte
  <2>. QED  BY <2>3, <2>4, Zenon DEF Seen
<1>2. ASSUME NEW k \in Byte, ascii_to_apple(k) # 0
      PROVE  Seen(Raise7(ascii_to_apple(k))) = IF Echo(k) = 0 THEN <<>> ELSE <<Echo(k)>>
  <2>1. ascii_to_apple(k) \in 0..127
    BY DEF ascii_to_apple, Byte
  <2>2. /\ Raise7(ascii_to_apple(k)) >= 128
        /\ Lower7(Raise7(ascii_to_apple(k))) = ascii_to_apple(k)
    BY <2>1 DEF Raise7, Lower7
  <2>. QED  BY <2>2 DEF Seen, Echo
<1>3. \A k \in Byte : ascii_to_apple(k) = 0 => Echo(k) = 0
  BY DEF Echo, apple_to_ascii
<1>. QED  BY <1>1, <1>2, <1>3 DEF Seen

(* Texts are joined in any order. *)
LEMMA KeysAssociate ==
  ASSUME NEW s \in Seq(Byte), NEW t \in Seq(Byte), NEW u \in Seq(Byte)
  PROVE  (s \o t) \o u = s \o (t \o u)
BY ConcatAssociative

(* A key may move on where the next place is empty. *)
LEMMA TextMoves ==
  ASSUME NEW s \in Seq(Byte), NEW a \in Byte, NEW b \in Byte, NEW c \in Byte
  PROVE  /\ Text(s, a, b, c) \in Seq(Byte)
         /\ Text(s, a, 0, c) = Text(s, a, c, 0)
         /\ Text(s, 0, b, c) = Text(s, b, 0, c)
         /\ Text(s, a, b, c) = Text(s \o Seen(a), 0, b, c)
         /\ IsPrefix(s, Text(s, a, b, c))
<1>1. /\ Seen(a) \in Seq(Byte) /\ Seen(b) \in Seq(Byte) /\ Seen(c) \in Seq(Byte)
      /\ Seen(0) = <<>>
  <2>1. 0 \in Byte /\ 0 < 128
    BY DEF Byte
  <2>. QED  BY <2>1, SeenFacts
<1>2. /\ s \o Seen(a) \in Seq(Byte) /\ s \o Seen(b) \in Seq(Byte)
      /\ s \o Seen(a) \o Seen(b) \in Seq(Byte) /\ s \o Seen(a) \o Seen(c) \in Seq(Byte)
      /\ Text(s, a, b, c) \in Seq(Byte)
  BY <1>1, ConcatProperties DEF Text
<1>3. \A t \in Seq(Byte) : t \o <<>> = t
  BY ConcatEmptySeq
<1>4. IsPrefix(s, Text(s, a, b, c))
  <2>. DEFINE rest == Seen(a) \o (Seen(b) \o Seen(c))
  <2>1. Seen(b) \o Seen(c) \in Seq(Byte) /\ rest \in Seq(Byte)
    BY <1>1, ConcatProperties
  <2>2. Text(s, a, b, c) = s \o rest
    <3>1. s \o (Seen(a) \o (Seen(b) \o Seen(c))) = (s \o Seen(a)) \o (Seen(b) \o Seen(c))
      BY <1>1, <2>1, KeysAssociate, Zenon
    <3>2. ((s \o Seen(a)) \o Seen(b)) \o Seen(c) = (s \o Seen(a)) \o (Seen(b) \o Seen(c))
      <4>1. \A t \in Seq(Byte) : (t \o Seen(b)) \o Seen(c) = t \o (Seen(b) \o Seen(c))
        BY <1>1, KeysAssociate, Zenon
      <4>2. s \o Seen(a) \in Seq(Byte)
        BY <1>2
      <4>. QED  BY <4>1, <4>2, Zenon
    <3>. QED  BY <3>1, <3>2 DEF Text
  <2>. HIDE DEF rest
  <2>3. Len(s \o rest) = Len(s) + Len(rest) /\ Len(rest) \in Nat /\ Len(s) \in Nat
    BY <2>1, ConcatProperties, LenProperties
  <2>4. SubSeq(s \o rest, 1, Len(s)) = SubSeq(s, 1, Len(s))
    BY <2>1, <2>3
  <2>. QED  BY <2>2, <2>3, <2>4 DEF IsPrefix
<1>. QED  BY <1>1, <1>2, <1>3, <1>4 DEF Text

(* A key that is pressed comes last. *)
LEMMA TextEnds ==
  ASSUME NEW s \in Seq(Byte), NEW a \in Byte, NEW b \in Byte, NEW c \in Byte
  PROVE  Text(s, a, b, c) = Text(s, a, b, 0) \o Seen(c)
<1>1. Seen(0) = <<>>
  <2>1. 0 \in Byte /\ 0 < 128
    BY DEF Byte
  <2>. QED  BY <2>1, SeenFacts
<1>2. s \o Seen(a) \o Seen(b) \in Seq(Byte)
  BY SeenFacts, ConcatProperties
<1>. QED  BY <1>1, <1>2, ConcatEmptySeq DEF Text

(* The programs that are free on one side are no places of the monitor. *)
LEMMA FreeOrMonitor ==
  /\ Free = {"keyboard", "screen"}
  /\ Place => program \notin Free
BY DEF Free, Bus, Place

(* The accesses of the programs are accesses. *)
LEMMA BusAccess ==
  ASSUME NEW p \in Free, NEW a \in Bus[p]
  PROVE  a \in Access
<1>1. /\ {"KBD", "KBDCR", "elsewhere"} \subseteq Address /\ {"KBD", "KBDCR"} \subseteq Address
      /\ {"DSP", "DSPCR", "elsewhere"} \subseteq Address /\ {"DSP", "DSPCR"} \subseteq Address
      /\ {0} \subseteq Byte /\ {0, 4} \subseteq Byte /\ {0, 4, 13, 193} \subseteq Byte
  BY DEF Address, Byte
<1>2. CASE p = "keyboard"
  <2>1. a \in [RW : {TRUE}, addr : {"KBD", "KBDCR", "elsewhere"}, data : {0}]
              \cup [RW : {FALSE}, addr : {"KBD", "KBDCR"}, data : {0, 4}]
    BY <1>2 DEF Bus
  <2>. QED  BY <1>1, <2>1 DEF Access
<1>3. CASE p = "screen"
  <2>1. CASE a \in [RW : {TRUE}, addr : {"DSP", "DSPCR", "elsewhere"}, data : {0}]
    BY <1>1, <2>1 DEF Access
  <2>2. CASE a \in [RW : {FALSE}, addr : {"DSP", "DSPCR"}, data : {0, 4, 13, 193}]
    <3>1. a.data \in Byte /\ a.addr \in Address /\ a.RW = FALSE
      BY <1>1, <2>2
    <3>2. a = [RW |-> a.RW, addr |-> a.addr, data |-> a.data]
      BY <2>2
    <3>. QED  BY <3>1, <3>2 DEF Access
  <2>. QED  BY <1>3, <2>1, <2>2 DEF Bus
<1>. QED  BY <1>2, <1>3, FreeOrMonitor

(* The keys on their way are bytes. *)
LEMMA KeysOnTheWay ==
  ASSUME IInv
  PROVE  Echoing \in Byte /\ Latched \in Byte /\ Pressed \in Byte
<1>1. 0 \in Byte /\ PA \in Byte /\ PB \in Byte /\ bus.data \in Byte
  BY DEF Byte, IInv, TypeOK, Access
<1>2. Key \in Byte
  BY AsciiToApple, Masks DEF IInv, TypeOK, Key
<1>. QED  BY <1>1, <1>2 DEF Echoing, Latched, Pressed

(* A step that keeps the keys where they are. *)
LEMMA TextStays ==
  ASSUME MonitorInv, UNCHANGED <<program, typed, shown>>,
         program \notin Free =>
           Place' /\ Echoing' = Echoing /\ Latched' = Latched /\ Pressed' = Pressed
  PROVE  MonitorInv'
BY DEF MonitorInv

(* The input thread, but for the key that it hands over. *)
LEMMA QuietInput ==
  ASSUME IInv, MonitorInv, UNCHANGED <<program, typed, shown>>,
         UNCHANGED <<clock, data_ready, CRA, CRB, PA, PB, bus>>,
         pressed_key' = pressed_key \/ ~data_ready
  PROVE  MonitorInv'
<1>1. Place' = Place
  BY DEF Place, Undisplayed
<1>2. Echoing' = Echoing /\ Latched' = Latched
  BY DEF Echoing, Carried, Latched, Ready
<1>3. Pressed' = Pressed
  BY DEF Pressed, Waiting, Key
<1>. QED  BY <1>1, <1>2, <1>3, TextStays DEF MonitorInv

(* The input thread hands over a key. *)
LEMMA TypesEchoes ==
  ASSUME IInv, MonitorInv, MCTypes
  PROVE  MonitorInv'
<1>1. /\ UNCHANGED <<clock, pressed_key, PA, CRA, PB, CRB, bus, program, shown>>
      /\ data_ready' = TRUE /\ input = "switch"
      /\ typed' = With(typed, Echo(pressed_key))
      /\ program \notin Free => program \notin {"kbdcr", "dspcr"}
  BY DEF MCTypes, InputTypes, sideA, sideB
<1>2. pressed_key \in Byte /\ clock # "clear" /\ ~data_ready
  BY <1>1 DEF IInv, TypeOK, Handshake
<1>3. CASE program \in Free
  BY <1>1, <1>3 DEF MonitorInv, With
<1>4. CASE program \notin Free
  <2>1. Place'
    BY <1>1, <1>4 DEF MonitorInv, Place, Undisplayed
  <2>2. Echoing' = Echoing /\ Latched' = Latched /\ Pressed = 0
    BY <1>1, <1>2 DEF Echoing, Carried, Latched, Ready, Pressed, Waiting
  <2>3. Pressed' = IF ascii_to_apple(pressed_key) = 0 THEN 0
                   ELSE Raise7(ascii_to_apple(pressed_key))
    BY <1>1, <1>2 DEF Pressed, Waiting, Key
  <2>4. Seen(Pressed') = IF Echo(pressed_key) = 0 THEN <<>> ELSE <<Echo(pressed_key)>>
    <3>1. 0 \in Byte /\ 0 < 128
      BY DEF Byte
    <3>. QED  BY <1>2, <2>3, <3>1, SeenFacts
  <2>5. typed' = typed \o Seen(Pressed') /\ typed' \in Seq(Byte)
    <3>1. typed \in Seq(Byte)
      BY DEF MonitorInv
    <3>2. CASE Echo(pressed_key) = 0
      BY <1>1, <2>4, <3>1, <3>2, ConcatEmptySeq DEF With
    <3>3. CASE Echo(pressed_key) # 0
      <4>1. Echo(pressed_key) \in Byte
        <5>1. \A k \in Byte : ascii_to_apple(k) \in 0..127
          BY DEF ascii_to_apple, Byte
        <5>2. \A c \in 0..127 : apple_to_ascii(c) \in Byte
          BY DEF apple_to_ascii, Byte
        <5>. QED  BY <1>2, <5>1, <5>2 DEF Echo
      <4>2. typed' = Append(typed, Echo(pressed_key))
        BY <1>1, <1>4, <3>3 DEF With
      <4>. QED  BY <2>4, <3>1, <3>3, <4>1, <4>2, AppendIsConcat, AppendProperties
    <3>. QED  BY <3>2, <3>3
  <2>6. Pressed' \in Byte /\ 0 \in Byte
    <3>1. 0 \in Byte
      BY DEF Byte
    <3>2. Raise7(ascii_to_apple(pressed_key)) \in Byte
      BY <1>2, AsciiToApple, Masks
    <3>. QED  BY <2>3, <3>1, <3>2
  <2>7. typed = Text(shown, Echoing, Latched, 0) /\ shown \in Seq(Byte)
    BY <1>4, <2>2 DEF MonitorInv
  <2>8. typed' = Text(shown, Echoing, Latched, Pressed')
    <3>1. Echoing \in Byte /\ Latched \in Byte
      BY KeysOnTheWay
    <3>2. PICK w \in Byte : w = Pressed'
      BY <2>6
    <3>3. Text(shown, Echoing, Latched, w) = Text(shown, Echoing, Latched, 0) \o Seen(w)
      BY <2>7, <3>1, TextEnds
    <3>. QED  BY <2>5, <2>7, <3>2, <3>3
  <2>. QED  BY <1>1, <1>4, <2>1, <2>2, <2>5, <2>7, <2>8 DEF MonitorInv
<1>. QED  BY <1>3, <1>4

(* process_peripheral_A looks for a key, *)
LEMMA TestEchoes ==
  ASSUME IInv, MonitorInv, TestReady, UNCHANGED <<program, typed, shown>>
  PROVE  MonitorInv'
<1>1. /\ UNCHANGED <<pressed_key, data_ready, PA, CRA, PB, CRB, bus>>
      /\ clock = "test" /\ clock' = IF data_ready /\ CRA < 128 THEN "latch" ELSE "display"
  BY DEF TestReady, sideA, sideB
<1>2. CASE program \notin Free
  <2>1. Place'
    BY <1>1, <1>2 DEF MonitorInv, Place, Undisplayed
  <2>2. Echoing' = Echoing /\ Latched' = Latched /\ Pressed' = Pressed
    BY <1>1 DEF Echoing, Carried, Latched, Ready, Pressed, Waiting, Key
  <2>. QED  BY <2>1, <2>2, TextStays
<1>. QED  BY <1>2, TextStays

(* moves it from pressed_key to PA, unless it has no translation, *)
LEMMA LatchEchoes ==
  ASSUME IInv, MonitorInv, Latch, UNCHANGED <<program, typed, shown>>
  PROVE  MonitorInv'
<1>1. UNCHANGED <<pressed_key, data_ready, PB, CRB, bus>> /\ clock = "latch"
  BY DEF Latch, sideB
<1>2. data_ready /\ CRA < 128 /\ pressed_key \in Byte /\ CRA \in Byte
  BY <1>1 DEF IInv, TypeOK, Handshake
<1>3. CASE program \notin Free
  <2>1. Place /\ typed = Text(shown, Echoing, Latched, Pressed)
        /\ program \notin {"kbdcr", "dspcr"} /\ CRA = 39
    BY <1>1, <1>2, <1>3 DEF MonitorInv, Place
  <2>2. CASE ascii_to_apple(pressed_key) = 0
    <3>1. UNCHANGED <<PA, CRA>> /\ clock' = "display"
      BY <2>2 DEF Latch
    <3>2. Place'
      BY <1>1, <2>1, <3>1 DEF Place, Undisplayed
    <3>3. Echoing' = Echoing /\ Latched' = Latched /\ Pressed' = Pressed
      BY <1>1, <2>2, <3>1 DEF Echoing, Carried, Latched, Ready, Pressed, Waiting
    <3>. QED  BY <3>2, <3>3, TextStays
  <2>3. CASE ascii_to_apple(pressed_key) # 0
    <3>1. PA' = Key /\ CRA' = 167 /\ clock' = "clear" /\ PA' >= 128
      <4>1. PA' = Key /\ CRA' = Raise7(CRA) /\ clock' = "clear"
        BY <2>3 DEF Latch, Key
      <4>2. Key >= 128
        BY <1>2, AsciiToApple, Masks DEF Key
      <4>3. Raise7(39) = 167
        BY DEF Raise7
      <4>. QED  BY <2>1, <4>1, <4>2, <4>3
    <3>2. Place'
      BY <1>1, <2>1, <3>1 DEF Place, Undisplayed
    <3>3. /\ Echoing' = Echoing /\ Latched = 0 /\ Latched' = Key
          /\ Pressed = Key /\ Pressed' = 0
      BY <1>1, <1>2, <2>1, <2>3, <3>1 DEF Echoing, Carried, Latched, Ready, Pressed, Waiting
    <3>4. Text(shown, Echoing, 0, Key) = Text(shown, Echoing, Key, 0)
      <4>1. Key \in Byte /\ shown \in Seq(Byte) /\ 0 \in Byte
        BY <3>3, KeysOnTheWay DEF MonitorInv, Byte
      <4>. QED  BY <4>1, KeysOnTheWay, TextMoves
    <3>. QED  BY <1>3, <2>1, <3>2, <3>3, <3>4 DEF MonitorInv
  <2>. QED  BY <2>2, <2>3
<1>. QED  BY <1>3, TextStays

(* and lowers data_ready. *)
LEMMA ClearEchoes ==
  ASSUME IInv, MonitorInv, ClearReady, UNCHANGED <<program, typed, shown>>
  PROVE  MonitorInv'
<1>1. /\ UNCHANGED <<pressed_key, PA, CRA, PB, CRB, bus>>
      /\ clock = "clear" /\ clock' = "display" /\ data_ready' = FALSE
  BY DEF ClearReady, sideA, sideB
<1>2. CASE program \notin Free
  <2>1. Place'
    BY <1>1, <1>2 DEF MonitorInv, Place, Undisplayed
  <2>2. Echoing' = Echoing /\ Latched' = Latched /\ Pressed' = Pressed
    BY <1>1 DEF Echoing, Carried, Latched, Ready, Pressed, Waiting
  <2>. QED  BY <2>1, <2>2, TextStays
<1>. QED  BY <1>2, TextStays

(* process_peripheral_B shows the character in PB. *)
LEMMA DisplayEchoes ==
  ASSUME IInv, MonitorInv, MCDisplay
  PROVE  MonitorInv'
<1>1. /\ UNCHANGED <<pressed_key, data_ready, PA, CRA, CRB, bus, program, typed>>
      /\ clock = "display" /\ clock' = "bus" /\ PB' = Lower7(PB)
      /\ shown' = With(shown, Printed) /\ PB \in Byte
  BY DEF MCDisplay, Display, sideA, IInv, TypeOK
<1>2. CASE program \in Free
  BY <1>1, <1>2 DEF MonitorInv, With
<1>3. CASE program \notin Free
  <2>1. Place /\ typed = Text(shown, Echoing, Latched, Pressed) /\ shown \in Seq(Byte)
    BY <1>3 DEF MonitorInv
  <2>2. PB' \in Byte /\ PB' < 128
    BY <1>1, Masks
  <2>3. Place'
    BY <1>1, <2>1, <2>2 DEF Place, Undisplayed, Byte
  <2>4. Latched' = Latched /\ Pressed' = Pressed
    BY <1>1 DEF Latched, Ready, Pressed, Waiting, Key
  <2>5. CASE program = "drain"
    <3>1. Echoing = PB /\ Echoing' = 0
      BY <1>1, <2>1, <2>2, <2>5 DEF Place, Undisplayed, Echoing, Carried, Byte
    <3>2. PB >= 128
      BY <1>1, <2>1, <2>5 DEF Place, Undisplayed
    <3>3. Seen(PB) = IF Printed = 0 THEN <<>> ELSE <<Printed>>
      BY <3>2 DEF Seen, Printed
    <3>4. Printed \in Byte
      <4>1. \A c \in 0..127 : apple_to_ascii(c) \in Byte
        BY DEF apple_to_ascii, Byte
      <4>2. Lower7(PB) \in 0..127
        BY <1>1 DEF Lower7, Byte
      <4>. QED  BY <3>2, <4>1, <4>2 DEF Printed
    <3>5. shown' = shown \o Seen(PB) /\ shown' \in Seq(Byte)
      <4>1. CASE Printed = 0
        BY <1>1, <1>3, <2>1, <3>3, <4>1, ConcatEmptySeq DEF With
      <4>2. CASE Printed # 0
        <5>1. shown' = Append(shown, Printed)
          BY <1>1, <1>3, <4>2 DEF With
        <5>. QED  BY <2>1, <3>3, <3>4, <4>2, <5>1, AppendIsConcat, AppendProperties
      <4>. QED  BY <4>1, <4>2
    <3>6. Text(shown, PB, Latched, Pressed) = Text(shown \o Seen(PB), 0, Latched, Pressed)
      BY <1>1, <2>1, KeysOnTheWay, TextMoves
    <3>7. typed' = Text(shown', Echoing', Latched', Pressed')
      BY <1>1, <2>1, <2>4, <3>1, <3>5, <3>6
    <3>. QED  BY <1>1, <1>3, <2>3, <3>5, <3>7 DEF MonitorInv
  <2>6. CASE program # "drain"
    <3>1. PB < 128
      BY <1>1, <2>1, <2>6 DEF Place, Undisplayed, Byte
    <3>2. shown' = shown
      <4>1. Printed = 0
        BY <1>1, <3>1 DEF Printed, Byte
      <4>. QED  BY <1>1, <4>1 DEF With
    <3>3. PB' = PB
      BY <1>1, <3>1 DEF Lower7, Byte
    <3>4. Echoing' = Echoing
      BY <1>1, <3>3 DEF Echoing, Carried
    <3>. QED  BY <1>1, <2>3, <2>4, <3>2, <3>4, TextStays
  <2>. QED  BY <2>5, <2>6
<1>. QED  BY <1>2, <1>3

(* A read on the bus: the monitor takes the key in PA, or sees a register. *)
LEMMA ReadEchoes ==
  ASSUME IInv, MonitorInv, BusRead, UNCHANGED <<program, typed, shown>>
  PROVE  MonitorInv'
<1>1. /\ UNCHANGED <<pressed_key, data_ready, PA, PB, CRB>>
      /\ clock = "bus" /\ clock' = "cpu" /\ bus.RW
      /\ bus' = [bus EXCEPT !.data = Answer(bus.addr)]
      /\ CRA' = IF bus.addr = "KBD" THEN Lower7(CRA) ELSE CRA
      /\ bus \in Access
  BY DEF BusRead, sideB, IInv, TypeOK
<1>2. /\ bus'.data = Answer(bus.addr) /\ bus'.RW = bus.RW /\ bus'.addr = bus.addr
  BY <1>1 DEF Access
<1>3. CASE program \notin Free
  <2>1. Place /\ typed = Text(shown, Echoing, Latched, Pressed) /\ shown \in Seq(Byte)
    BY <1>3 DEF MonitorInv
  <2>2. Pressed' = Pressed
    BY <1>1 DEF Pressed, Waiting, Key
  <2>3. program \in {"poll", "echo", "drain"}
    BY <1>1, <2>1 DEF Place, Write
  <2>4. Selected(167)
    BY DEF Selected
  <2>5. CASE program = "echo"
    <3>1. CRA = 167 /\ PA >= 128 /\ bus.addr = "KBD"
      BY <1>1, <2>1, <2>5 DEF Place
    <3>2. Lower7(167) = 39
      BY DEF Lower7
    <3>3. bus'.data = PA /\ CRA' = 39
      BY <1>1, <1>2, <2>4, <3>1, <3>2 DEF Answer
    <3>4. Place'
      BY <1>1, <1>2, <2>1, <2>5, <3>1, <3>3 DEF Place, Undisplayed
    <3>5. Echoing = 0 /\ Echoing' = PA
      BY <1>1, <2>1, <2>5, <3>3 DEF Place, Undisplayed, Echoing, Carried
    <3>6. Latched = PA /\ Latched' = 0
      BY <1>1, <3>1, <3>3 DEF Latched, Ready
    <3>7. Text(shown, 0, PA, Pressed) = Text(shown, PA, 0, Pressed)
      BY <2>1, <3>6, KeysOnTheWay, TextMoves
    <3>8. typed' = Text(shown', Echoing', Latched', Pressed')
      BY <2>1, <2>2, <3>5, <3>6, <3>7
    <3>. QED  BY <1>3, <3>4, <3>8 DEF MonitorInv
  <2>6. CASE program \in {"poll", "drain"}
    <3>1. CRA' = CRA /\ bus'.data = IF program = "poll" THEN CRA ELSE PB
      BY <1>1, <1>2, <2>1, <2>4, <2>6 DEF Place, Answer
    <3>2. Place'
      BY <1>1, <1>2, <2>1, <2>6, <3>1 DEF Place, Undisplayed
    <3>3. Echoing' = Echoing
      BY <1>1, <2>6 DEF Echoing, Carried
    <3>4. Latched' = Latched
      BY <1>1, <3>1 DEF Latched, Ready
    <3>. QED  BY <2>2, <3>2, <3>3, <3>4, TextStays
  <2>. QED  BY <2>3, <2>5, <2>6
<1>. QED  BY <1>3, TextStays

(* A write on the bus: the monitor sets up a side, or writes the key. *)
LEMMA WriteEchoes ==
  ASSUME IInv, MonitorInv, BusWrite, UNCHANGED <<program, typed, shown>>
  PROVE  MonitorInv'
<1>1. /\ UNCHANGED <<pressed_key, data_ready, bus>>
      /\ clock = "bus" /\ clock' = "cpu" /\ ~bus.RW
      /\ CRA' = IF bus.addr = "KBDCR" THEN bus.data % 64 ELSE CRA
      /\ CRB' = IF bus.addr = "DSPCR" THEN bus.data ELSE CRB
      /\ bus.addr # "KBD" => PA' = PA
      /\ PB' = IF bus.addr = "DSP" /\ Selected(CRB) THEN Raise7(bus.data) ELSE PB
  BY DEF BusWrite
<1>2. CASE program \notin Free
  <2>1. Place /\ typed = Text(shown, Echoing, Latched, Pressed)
    BY <1>2 DEF MonitorInv
  <2>2. Pressed' = Pressed
    BY <1>1 DEF Pressed, Waiting, Key
  <2>3. program \in {"dspcr", "ask", "wait"}
    BY <1>1, <2>1 DEF Place
  <2>4. CASE program = "dspcr"
    <3>1. bus.addr = "KBDCR" /\ bus.data = 167 /\ CRA = 0
      BY <1>1, <2>1, <2>4 DEF Place, Write
    <3>2. CRA' = 39 /\ PB' = PB
      BY <1>1, <3>1
    <3>3. Place'
      BY <1>1, <2>1, <2>4, <3>2 DEF Place, Undisplayed
    <3>4. Echoing' = Echoing /\ Latched' = Latched
      BY <1>1, <2>4, <3>1, <3>2 DEF Echoing, Carried, Latched, Ready
    <3>. QED  BY <2>2, <3>3, <3>4, TextStays
  <2>5. CASE program = "ask"
    <3>1. bus.addr = "DSPCR" /\ bus.data = 167
      BY <1>1, <2>1, <2>5 DEF Place, Write
    <3>2. CRA' = CRA /\ CRB' = 167 /\ PA' = PA /\ PB' = PB
      BY <1>1, <3>1
    <3>3. Place'
      BY <1>1, <2>1, <2>5, <3>2 DEF Place, Undisplayed
    <3>4. Echoing' = Echoing /\ Latched' = Latched
      BY <1>1, <2>5, <3>2 DEF Echoing, Carried, Latched, Ready
    <3>. QED  BY <2>2, <3>3, <3>4, TextStays
  <2>6. CASE program = "wait"
    <3>1. bus.addr = "DSP" /\ bus.data >= 128 /\ CRB = 167 /\ ~(PB >= 128)
      BY <1>1, <2>1, <2>6 DEF Place, Undisplayed
    <3>2. Selected(167) /\ Raise7(bus.data) = bus.data
      BY <3>1 DEF Selected, Raise7, IInv, TypeOK, Access, Byte
    <3>3. CRA' = CRA /\ CRB' = CRB /\ PA' = PA /\ PB' = bus.data
      BY <1>1, <3>1, <3>2
    <3>4. Place'
      BY <1>1, <2>1, <2>6, <3>1, <3>3 DEF Place, Undisplayed
    <3>5. Echoing' = Echoing /\ Latched' = Latched
      BY <1>1, <2>6, <3>1, <3>3 DEF Echoing, Carried, Latched, Ready
    <3>. QED  BY <2>2, <3>4, <3>5, TextStays
  <2>. QED  BY <2>3, <2>4, <2>5, <2>6
<1>. QED  BY <1>2, TextStays

(* The access that the monitor does next, and where it goes on. *)
Follows(a, to) ==
  \/ program = "kbdcr" /\ a = Write("KBDCR", 167) /\ to = "dspcr"
  \/ program = "dspcr" /\ a = Write("DSPCR", 167) /\ to = "ask"
  \/ program = "ask" /\ a = Read("KBDCR") /\ to = "poll"
  \/ program = "poll" /\ bus.data < 128 /\ a = Read("KBDCR") /\ to = "poll"
  \/ program = "poll" /\ bus.data >= 128 /\ a = Read("KBD") /\ to = "echo"
  \/ program = "echo" /\ a = Write("DSP", bus.data) /\ to = "wait"
  \/ program = "wait" /\ a = Read("DSP") /\ to = "drain"
  \/ program = "drain" /\ bus.data >= 128 /\ a = Read("DSP") /\ to = "drain"
  \/ program = "drain" /\ bus.data < 128 /\ a = Read("KBDCR") /\ to = "poll"

(* So are those of the monitor. *)
LEMMA MonitorAccess ==
  ASSUME IInv, Monitor
  PROVE  \E a, to : a \in Access /\ Does(a, to) /\ Follows(a, to)
<1>1. \A r \in Address : Read(r) \in Access /\ \A d \in Byte : Write(r, d) \in Access
  BY DEF Read, Write, Access, Byte
<1>2. "KBD" \in Address /\ "KBDCR" \in Address /\ "DSP" \in Address /\ "DSPCR" \in Address
  BY DEF Address
<1>3. 167 \in Byte /\ bus.data \in Byte
  BY DEF IInv, TypeOK, Access, Byte
<1>. HIDE DEF Does, Read, Write
<1>4. /\ Write("KBDCR", 167) \in Access /\ Write("DSPCR", 167) \in Access
      /\ Write("DSP", bus.data) \in Access
      /\ Read("KBD") \in Access /\ Read("KBDCR") \in Access /\ Read("DSP") \in Access
  BY <1>1, <1>2, <1>3, Zenon
<1>. QED  BY <1>4, Zenon DEF Monitor, Follows

(* The processor's half cycle keeps the invariant, whatever the access. *)
LEMMA CycleInv ==
  ASSUME IInv, NEW a \in Access, CpuCycle(a)
  PROVE  IInv'
BY DEF IInv, CpuCycle, TypeOK, Handshake, ClockPc, sideA, sideB, display

(* The next access of the monitor. *)
LEMMA MonitorEchoes ==
  ASSUME IInv, MonitorInv, Monitor, UNCHANGED <<typed, shown>>
  PROVE  MonitorInv'
<1>1. PICK a, to : a \in Access /\ Does(a, to) /\ Follows(a, to)
  BY MonitorAccess
<1>2. /\ UNCHANGED <<pressed_key, data_ready, PA, CRA, PB, CRB>>
      /\ clock = "cpu" /\ clock' = "test" /\ bus' = a /\ program' = to
  BY <1>1 DEF Does, CpuCycle, sideA, sideB
<1>3. program \notin Free /\ program' \notin Free
  BY <1>1, <1>2, FreeOrMonitor DEF Follows
<1>4. Place /\ typed = Text(shown, Echoing, Latched, Pressed)
  BY <1>3 DEF MonitorInv
<1>5. Place'
  BY <1>1, <1>2, <1>4 DEF Follows, Place, Undisplayed, Write, Read
<1>6. Latched' = Latched /\ Pressed' = Pressed
  BY <1>2 DEF Latched, Ready, Pressed, Waiting, Key
<1>7. Echoing' = Echoing
  BY <1>1, <1>2, <1>4 DEF Follows, Place, Undisplayed, Echoing, Carried, Write, Read
<1>. QED  BY <1>3, <1>4, <1>5, <1>6, <1>7 DEF MonitorInv

(* The start: nothing typed, nothing shown. *)
LEMMA InitEchoes == MCInit => IInv /\ MonitorInv
<1>. SUFFICES ASSUME MCInit PROVE IInv /\ MonitorInv
  OBVIOUS
<1>1. IInv
  BY InitInv DEF MCInit
<1>2. typed \in Seq(Byte) /\ shown \in Seq(Byte)
  BY DEF MCInit
<1>3. CASE program # "kbdcr"
  <2>1. program \in Free /\ typed = <<>> /\ shown = <<>>
    BY <1>3 DEF MCInit
  <2>. QED  BY <1>1, <1>2, <2>1, Zenon DEF MonitorInv
<1>4. CASE program = "kbdcr"
  <2>1. Place
    BY <1>4 DEF MCInit, Init, Place, Undisplayed
  <2>2. Echoing = 0 /\ Latched = 0 /\ Pressed = 0
    BY <1>4 DEF MCInit, Init, Echoing, Carried, Latched, Ready, Pressed, Waiting
  <2>3. Text(<<>>, 0, 0, 0) = <<>>
    <3>1. Seen(0) = <<>>
      BY DEF Seen
    <3>. QED  BY <3>1 DEF Text
  <2>4. typed = Text(shown, Echoing, Latched, Pressed)
    BY <2>2, <2>3 DEF MCInit
  <2>5. program \notin Free
    BY <1>4, FreeOrMonitor
  <2>. QED  BY <1>1, <1>2, <2>1, <2>4, <2>5, Zenon DEF MonitorInv
<1>. QED  BY <1>1, <1>3, <1>4

(* Every step keeps both invariants. *)
LEMMA EchoesNext == IInv /\ MonitorInv /\ [MCNext]_mcvars => IInv' /\ MonitorInv'
<1>. SUFFICES ASSUME IInv, MonitorInv, [MCNext]_mcvars PROVE IInv' /\ MonitorInv'
  OBVIOUS
<1>1. CASE MCTypes
  <2>1. IInv'
    BY <1>1, NextInv DEF MCTypes, Next, InputStep
  <2>. QED  BY <1>1, <2>1, TypesEchoes
<1>2. CASE MCRead
  <2>1. InputRead /\ UNCHANGED <<program, typed, shown>>
    BY <1>2 DEF MCRead
  <2>2. IInv'
    BY <2>1, NextInv DEF Next, User
  <2>3. UNCHANGED <<clock, data_ready, CRA, CRB, PA, PB, bus>> /\ ~data_ready
    BY <2>1 DEF InputRead, sideA, sideB, IInv, Handshake
  <2>. QED  BY <2>1, <2>2, <2>3, QuietInput
<1>3. CASE MCDisplay
  <2>1. IInv'
    BY <1>3, NextInv DEF MCDisplay, Next, PiaStep
  <2>. QED  BY <1>3, <2>1, DisplayEchoes
<1>4. CASE Others
  <2>1. UNCHANGED <<program, typed, shown>>
    BY <1>4 DEF Others
  <2>2. [Next]_vars
    BY <1>4 DEF Others, Next, InputStep, User, PiaStep
  <2>3. IInv'
    BY <2>2, NextInv
  <2>4. CASE InputReady \/ InputNothing \/ InputClears \/ InputCommands
    <3>1. UNCHANGED <<clock, pressed_key, data_ready, CRA, CRB, PA, PB, bus>>
      BY <2>4 DEF InputReady, InputNothing, InputClears, InputCommands, sideA, sideB
    <3>. QED  BY <2>1, <2>3, <3>1, QuietInput
  <2>5. CASE TestReady
    BY <2>1, <2>3, <2>5, TestEchoes
  <2>6. CASE Latch
    BY <2>1, <2>3, <2>6, LatchEchoes
  <2>7. CASE ClearReady
    BY <2>1, <2>3, <2>7, ClearEchoes
  <2>8. CASE BusRead
    BY <2>1, <2>3, <2>8, ReadEchoes
  <2>9. CASE BusWrite
    BY <2>1, <2>3, <2>9, WriteEchoes
  <2>. QED  BY <1>4, <2>4, <2>5, <2>6, <2>7, <2>8, <2>9 DEF Others
<1>5. CASE MCProgram
  <2>1. UNCHANGED <<typed, shown>>
    BY <1>5 DEF MCProgram
  <2>2. CASE AnyProgram
    <3>1. PICK a \in Bus[program] : program \in Free /\ Does(a, program)
      BY <2>2 DEF AnyProgram
    <3>2. a \in Access
      BY <3>1, BusAccess
    <3>3. IInv'
      BY <3>1, <3>2, CycleInv DEF Does
    <3>4. program' = program
      BY <3>1 DEF Does
    <3>. QED  BY <2>1, <3>1, <3>3, <3>4, TextStays
  <2>3. CASE Monitor
    <3>1. PICK a, to : a \in Access /\ Does(a, to)
      BY <2>3, MonitorAccess
    <3>2. IInv'
      BY <3>1, CycleInv DEF Does
    <3>. QED  BY <2>1, <2>3, <3>2, MonitorEchoes
  <2>. QED  BY <1>5, <2>2, <2>3 DEF MCProgram
<1>6. CASE UNCHANGED mcvars
  <2>1. UNCHANGED vars /\ UNCHANGED <<program, typed, shown>>
    BY <1>6 DEF mcvars
  <2>2. IInv'
    BY <2>1, NextInv
  <2>3. UNCHANGED <<clock, pressed_key, data_ready, CRA, CRB, PA, PB, bus>>
    BY <2>1 DEF vars
  <2>. QED  BY <2>1, <2>2, <2>3, QuietInput
<1>. QED  BY <1>1, <1>2, <1>3, <1>4, <1>5, <1>6 DEF MCNext

(***************************************************************************)
(* Between the terminal and the screen no key is lost, doubled or          *)
(* overtaken: what was typed is what is shown, then the character in PB or *)
(* on the data bus, then the key in PA, then the one in pressed_key        *)
(* (input_run, process_peripheral_A and B, clock_pia).                     *)
(***************************************************************************)
THEOREM KeysInFlight == MCSpec => [](IInv /\ MonitorInv)
BY InitEchoes, EchoesNext, PTL DEF MCSpec

(***************************************************************************)
(* For every set of keys and however the threads interleave: a monitor     *)
(* that keeps to the protocol shows what was typed, in order, each         *)
(* character once (clock_pia and the two tables).                          *)
(***************************************************************************)
THEOREM EchoesInOrder == MCSpec => []EchoInOrder
<1>1. IInv /\ MonitorInv => EchoInOrder
  <2>. SUFFICES ASSUME IInv, MonitorInv PROVE EchoInOrder
    OBVIOUS
  <2>1. CASE program \in Free
    <3>1. IsPrefix(<<>>, <<>>)
      BY DEF IsPrefix
    <3>. QED  BY <2>1, <3>1 DEF MonitorInv, EchoInOrder
  <2>2. CASE program \notin Free
    BY <2>2, KeysOnTheWay, TextMoves DEF MonitorInv, EchoInOrder
  <2>. QED  BY <2>1, <2>2
<1>. QED  BY <1>1, KeysInFlight, PTL
=============================================================================
