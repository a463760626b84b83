--------------------------- MODULE ConsoleProofs ---------------------------
(***************************************************************************)
(* For every memory, every file size and every set of register values: F6, *)
(* F7 and the debugger implement the Checkpoint machine.                   *)
(*                                                                         *)
(* The clock thread is kept out by the two pairs of flags (Alone,          *)
(* AloneOnBus); alone on the buses, the sweep brings the buffer and the    *)
(* RAM together address by address (Progress), and what the refinement     *)
(* mapping reads from the buffer while the buses are borrowed is what the  *)
(* machine holds when they are given back.                                 *)
(***************************************************************************)
EXTENDS Console, TLAPS

USE ConsoleAssumption, NoneAssumption

LEMMA BlankTyped == Blank \in M6502_State
<1>1. 0 \in Address
  BY DEF Address
<1>2. (CHOOSE r \in Regs : TRUE) \in Regs /\ (CHOOSE b \in Byte : TRUE) \in Byte
  OBVIOUS
<1> QED
  BY <1>1, <1>2 DEF Blank, M6502_State

(* The chips answer with bytes and store bytes (clock_mem, clock_pia). *)
LEMMA ChipsTyped ==
  ASSUME NEW a \in Address, NEW d \in Byte, NEW rw \in BOOLEAN, NEW m \in [Ram -> Byte]
  PROVE  /\ BusAfter(a, d, rw, m) \subseteq Byte
         /\ RamAfter(a, d, rw, m) \in [Ram -> Byte]
         /\ rw => RamAfter(a, d, rw, m) = m
         /\ ~rw /\ a \notin Rom => BusAfter(a, d, rw, m) = {d}
         /\ rw /\ a \in Ram => BusAfter(a, d, rw, m) = {m[a]}
         /\ ~rw /\ a \in Ram => RamAfter(a, d, rw, m) = [m EXCEPT ![a] = d]
         /\ ~rw /\ a \notin Ram => RamAfter(a, d, rw, m) = m
BY DEF BusAfter, RamAfter

(* The initial state: both threads outside, nothing saved. *)
LEMMA InitInv == Init => IInv
<1> SUFFICES ASSUME Init PROVE IInv
  OBVIOUS
<1>1. TypeOK
  <2>1. file \in [len : -1..FileSize, state : M6502_State] /\ state \in M6502_State
    BY BlankTyped DEF Init
  <2>2. i \in 0..MEMSIZE /\ n \in 0..FileSize
    BY DEF Init
  <2> QED
    BY <2>1, <2>2 DEF Init, TypeOK, ClockPc, ConsolePc
<1>2. Alone /\ AloneOnBus /\ Progress
  BY DEF Init, Alone, AloneOnBus, Progress
<1> QED
  BY <1>1, <1>2 DEF IInv

(* The clock thread's own steps keep the types. *)
LEMMA ClockTyped == TypeOK /\ ClockStep => TypeOK'
<1> SUFFICES ASSUME TypeOK, ClockStep PROVE TypeOK'
  OBVIOUS
<1> USE DEF ClockGoes, machine, flags, locals, ClockPc
<1>1. CASE ClockTests
  BY <1>1 DEF ClockTests, TypeOK
<1>2. CASE ClockActive
  BY <1>2 DEF ClockActive, TypeOK
<1>3. CASE CycleTests
  BY <1>3 DEF CycleTests, TypeOK
<1>4. CASE CycleBegins
  BY <1>4 DEF CycleBegins, TypeOK
<1>5. CASE CycleRuns
  <2>1. data_bus' \in Byte
    BY <1>5 DEF CycleRuns, TypeOK
  <2> QED
    BY <1>5, <2>1 DEF CycleRuns, TypeOK
<1>6. CASE ClockPhi2
  <2>1. data_bus' \in Byte /\ mem' \in [Ram -> Byte]
    BY <1>6, ChipsTyped DEF ClockPhi2, TypeOK
  <2> QED
    BY <1>6, <2>1 DEF ClockPhi2, TypeOK
<1>7. CASE ClockDone
  BY <1>7 DEF ClockDone, TypeOK
<1>8. CASE ClockJoined
  BY <1>8 DEF ClockJoined, TypeOK
<1> QED
  BY <1>1, <1>2, <1>3, <1>4, <1>5, <1>6, <1>7, <1>8 DEF ClockStep

(* So do the steps of F6 and F7, *)
LEMMA ConsoleTyped == TypeOK /\ ConsoleStep => TypeOK'
<1> SUFFICES ASSUME TypeOK, ConsoleStep PROVE TypeOK'
  OBVIOUS
<1> USE DEF Goes, machine, flags, locals, ConsolePc
<1>1. CASE Wait
  BY <1>1 DEF Wait, TypeOK
<1>2. CASE Disable
  BY <1>2 DEF Disable, TypeOK
<1>3. CASE Spin
  BY <1>3 DEF Spin, TypeOK
<1>4. CASE Copy
  <2>1. state' \in M6502_State
    BY <1>4 DEF Copy, TypeOK, M6502_State
  <2>2. RW' = TRUE /\ i' \in 0..MEMSIZE
    BY <1>4 DEF Copy
  <2> QED
    BY <1>4, <2>1, <2>2 DEF Copy, TypeOK
<1>5. CASE Lower
  <2>1. i' \in 0..MEMSIZE /\ RW' = FALSE
    BY <1>5 DEF Lower
  <2> QED
    BY <1>5, <2>1 DEF Lower, TypeOK
<1>6. CASE SweepRead
  <2>1. i \in Address /\ i' \in 0..MEMSIZE /\ addr_bus' \in Address
    BY <1>6 DEF SweepRead, TypeOK, Address
  <2>2. data_bus' \in Byte /\ mem' \in [Ram -> Byte]
    BY <1>6, <2>1, ChipsTyped DEF SweepRead, TypeOK
  <2>3. state' \in M6502_State
    BY <1>6, <2>1, <2>2 DEF SweepRead, TypeOK, M6502_State
  <2> QED
    BY <1>6, <2>1, <2>2, <2>3 DEF SweepRead, TypeOK
<1>7. CASE SweepWrite
  <2>1. i \in Address /\ i' \in 0..MEMSIZE /\ addr_bus' \in Address
    BY <1>7 DEF SweepWrite, TypeOK, Address
  <2>2. data_bus' \in Byte /\ mem' \in [Ram -> Byte]
    BY <1>7, <2>1, ChipsTyped DEF SweepWrite, TypeOK
  <2> QED
    BY <1>7, <2>1, <2>2 DEF SweepWrite, TypeOK
<1>8. CASE Swept
  BY <1>8 DEF Swept, TypeOK
<1>9. CASE Restore
  <2>1. /\ addr_bus' \in Address /\ data_bus' \in Byte /\ RW' \in BOOLEAN
        /\ R' \in Regs
    BY <1>9 DEF Restore, TypeOK, M6502_State
  <2> QED
    BY <1>9, <2>1 DEF Restore, TypeOK
<1>10. CASE OpenWrite
  <2>1. file' \in [len : -1..FileSize, state : M6502_State]
    BY <1>10, BlankTyped DEF OpenWrite
  <2> QED
    BY <1>10, <2>1 DEF OpenWrite, TypeOK
<1>11. CASE OpenRead
  BY <1>11 DEF OpenRead, TypeOK
<1>12. CASE Fail
  BY <1>12 DEF Fail, TypeOK
<1>13. CASE WriteFile
  <2>1. file' \in [len : -1..FileSize, state : M6502_State]
    BY <1>13, BlankTyped DEF WriteFile, TypeOK
  <2> QED
    BY <1>13, <2>1 DEF WriteFile, TypeOK
<1>14. CASE ReadFile
  <2>1. n' \in 0..FileSize /\ state' \in M6502_State
    BY <1>14 DEF ReadFile, TypeOK
  <2> QED
    BY <1>14, <2>1 DEF ReadFile, TypeOK
<1>15. CASE Enable
  BY <1>15 DEF Enable, TypeOK
<1>16. CASE On
  <2>1. i' \in 0..MEMSIZE /\ n' \in 0..FileSize /\ state' \in M6502_State
    BY <1>16, BlankTyped DEF On
  <2> QED
    BY <1>16, <2>1 DEF On, TypeOK
<1> QED
  BY <1>1, <1>2, <1>3, <1>4, <1>5, <1>6, <1>7, <1>8, <1>9, <1>10, <1>11, <1>12, <1>13,
     <1>14, <1>15, <1>16 DEF ConsoleStep

(* the keys and the debugger. *)
User == (\E key \in {"save", "load"} : Press(key)) \/ Break \/ Debugger

LEMMA UserTyped == TypeOK /\ User => TypeOK'
<1> SUFFICES ASSUME TypeOK, User PROVE TypeOK'
  OBVIOUS
<1> USE DEF Goes, ClockGoes, machine, flags, locals, ConsolePc, ClockPc
<1>1. ASSUME NEW key \in {"save", "load"}, Press(key) PROVE TypeOK'
  BY <1>1 DEF Press, TypeOK
<1>2. CASE Break
  BY <1>2 DEF Break, TypeOK
<1>3. CASE Continue
  BY <1>3 DEF Continue, TypeOK
<1>4. ASSUME NEW a \in Address, NEW v \in Byte, SetValue(a, v) PROVE TypeOK'
  <2>1. mem' \in [Ram -> Byte]
    BY <1>4, ChipsTyped DEF SetValue, TypeOK
  <2> QED
    BY <1>4, <2>1 DEF SetValue, TypeOK
<1>5. ASSUME NEW r \in Regs, SetRegister(r) PROVE TypeOK'
  BY <1>5 DEF SetRegister, TypeOK
<1>6. ASSUME NEW a \in Address, NEW k \in 1..MaxList, Look(a, k) PROVE TypeOK'
  <2>1. mem' \in [Ram -> Byte]
    BY <1>6 DEF Look, TypeOK
  <2>2. spoiled' \in BOOLEAN
    BY <1>6 DEF Look, TypeOK
  <2> QED
    BY <1>6, <2>1, <2>2 DEF Look, TypeOK
<1> QED
  BY <1>1, <1>2, <1>3, <1>4, <1>5, <1>6 DEF User, Debugger

(* One step of the program, of the keys or of the debugger. *)
LEMMA TypeInv == TypeOK /\ [Next]_vars => TypeOK'
<1>1. TypeOK /\ UNCHANGED vars => TypeOK'
  BY DEF TypeOK, vars
<1> QED
  BY <1>1, ClockTyped, ConsoleTyped, UserTyped DEF Next, User

----------------------------------------------------------------------------
(* The two handshakes keep the clock thread where it is. *)
LEMMA HandshakeInv == IInv /\ [Next]_vars => Alone' /\ AloneOnBus'
<1> SUFFICES ASSUME IInv, [Next]_vars PROVE Alone' /\ AloneOnBus'
  OBVIOUS
<1> USE DEF IInv, Alone, AloneOnBus, Goes, ClockGoes, machine, flags, locals
<1>1. CASE ClockTests
  BY <1>1 DEF ClockTests
<1>2. CASE ClockActive
  BY <1>2 DEF ClockActive
<1>3. CASE CycleTests
  BY <1>3 DEF CycleTests
<1>4. CASE CycleBegins
  BY <1>4 DEF CycleBegins
<1>5. CASE CycleRuns
  BY <1>5 DEF CycleRuns
<1>6. CASE ClockPhi2
  BY <1>6 DEF ClockPhi2
<1>7. CASE ClockDone
  BY <1>7 DEF ClockDone
<1>8. CASE ClockJoined
  BY <1>8 DEF ClockJoined
<1>9. CASE Wait
  BY <1>9 DEF Wait, TypeOK, ClockPc
<1>10. CASE Disable
  BY <1>10 DEF Disable
<1>11. CASE Spin \/ Swept
  BY <1>11 DEF Spin, Swept
<1>12. CASE Copy \/ Lower
  BY <1>12 DEF Copy, Lower
<1>13. CASE SweepRead \/ SweepWrite
  BY <1>13 DEF SweepRead, SweepWrite
<1>14. CASE Restore
  BY <1>14 DEF Restore
<1>15. CASE OpenWrite \/ OpenRead \/ Fail
  BY <1>15 DEF OpenWrite, OpenRead, Fail
<1>16. CASE WriteFile \/ ReadFile
  BY <1>16 DEF WriteFile, ReadFile
<1>17. CASE Enable \/ On
  BY <1>17 DEF Enable, On
<1>18. ASSUME NEW key \in {"save", "load"}, Press(key) PROVE Alone' /\ AloneOnBus'
  BY <1>18 DEF Press
<1>19. CASE Break
  BY <1>19 DEF Break
<1>20. CASE Debugger
  <2>1. console = "idle" /\ clock = "joined"
    BY <1>20 DEF Debugger, Continue, SetValue, SetRegister, Look
  <2>2. /\ clock' \in {"joined", "loop"}
        /\ UNCHANGED <<clk_enabled, clk_active, cpu_enabled, cpu_active, stop, console>>
    BY <1>20 DEF Debugger, Continue, SetValue, SetRegister, Look
  <2> QED
    BY <2>1, <2>2
<1>21. CASE UNCHANGED vars
  BY <1>21 DEF vars
<1> QED
  BY <1>1, <1>2, <1>3, <1>4, <1>5, <1>6, <1>7, <1>8, <1>9, <1>10, <1>11, <1>12, <1>13,
     <1>14, <1>15, <1>16, <1>17, <1>18, <1>19, <1>20, <1>21
     DEF Next, ClockStep, ConsoleStep

(* Alone on the buses, nobody but the operation itself moves. *)
LEMMA OnlyTheOperation ==
  ASSUME IInv, ~spoiled, console \notin {"idle", "wait"}, ClockStep \/ User
  PROVE  FALSE
<1>1. clock = "loop" /\ ~clk_enabled /\ ~stop
  BY DEF IInv, Alone, AloneOnBus
<1>2. ~ClockStep
  BY <1>1 DEF ClockStep, ClockTests, ClockActive, CycleTests, CycleBegins, CycleRuns,
     ClockPhi2, ClockDone, ClockJoined, ClockGoes
<1>3. ~User
  BY <1>1 DEF User, Debugger, Press, Break, Continue, SetValue, SetRegister, Look, Goes,
     ClockGoes
<1> QED
  BY <1>2, <1>3

(* What has been done once is done for good. *)
LEMMA SpoiledStays == IInv /\ [Next]_vars /\ spoiled => spoiled'
<1> USE DEF machine, flags, locals
<1> QED
  BY DEF Next, vars, ClockStep, ClockTests, ClockActive, CycleTests, CycleBegins, CycleRuns,
     ClockPhi2, ClockDone, ClockJoined, ConsoleStep, Wait, Disable, Spin, Copy, Lower,
     SweepRead, SweepWrite, Swept, Restore, OpenWrite, OpenRead, Fail, WriteFile, ReadFile,
     Enable, On, Press, Break, Debugger, Continue, SetValue, SetRegister, Look

(* The sweep brings buffer and RAM together (save_state, load_state). *)
LEMMA ProgressInv == IInv /\ [Next]_vars /\ ~spoiled' => Progress'
<1> SUFFICES ASSUME IInv, [Next]_vars, ~spoiled' PROVE Progress'
  OBVIOUS
<1>1. TypeOK /\ ~spoiled /\ Progress
  BY SpoiledStays DEF IInv
<1> USE DEF Goes, machine, flags, locals
<1>2. CASE ClockStep
  <2>1. console \in {"idle", "wait"} /\ console' = console
    BY <1>1, <1>2, OnlyTheOperation DEF ClockStep, ClockTests, ClockActive, CycleTests,
       CycleBegins, CycleRuns, ClockPhi2, ClockDone, ClockJoined
  <2> QED
    BY <2>1 DEF Progress
<1>3. CASE User
  <2>1. console \in {"idle", "wait"} /\ console' \in {"idle", "wait"}
    BY <1>1, <1>3, OnlyTheOperation DEF User, Debugger, Press, Break, Continue, SetValue,
       SetRegister, Look
  <2> QED
    BY <2>1 DEF Progress
<1>4. CASE Wait \/ Disable \/ Spin \/ Enable \/ On \/ Fail \/ OpenWrite \/ OpenRead
  BY <1>1, <1>4 DEF Wait, Disable, Spin, Enable, On, Fail, OpenWrite, OpenRead, Progress,
     Copied, TypeOK
<1>5. CASE Copy
  <2>1. \A a \in Ram : ~(a < 0)
    BY DEF Address
  <2> QED
    BY <1>1, <1>5, <2>1 DEF Copy, Progress, Copied, TypeOK
<1>6. CASE Lower
  <2>1. \A a \in Ram : ~(a < 0)
    BY DEF Address
  <2> QED
    BY <1>1, <1>6, <2>1 DEF Lower, Progress, Copied, TypeOK
<1>7. CASE SweepRead
  <2>1. i \in Address /\ i' = i + 1 /\ op = "save" /\ RW
    BY <1>1, <1>7 DEF SweepRead, TypeOK, Address, Progress
  <2>2. mem' = mem /\ (i \in Ram => data_bus' = mem[i])
    BY <1>1, <1>7, <2>1 DEF SweepRead, TypeOK, BusAfter, RamAfter
  <2>3. /\ i \in Ram => state'.mem = [state.mem EXCEPT ![i] = data_bus']
        /\ i \notin Ram => state' = state
        /\ state.mem \in [Ram -> Byte]
    BY <1>1, <1>7 DEF SweepRead, TypeOK, M6502_State
  <2>4. Copied(i)'
    <3> SUFFICES ASSUME NEW a \in Ram, a < i + 1 PROVE state'.mem[a] = mem[a]
      BY <2>1, <2>2 DEF Copied
    <3>1. a \in Address /\ i \in Int /\ (a = i \/ a < i)
      BY <2>1 DEF Address
    <3>2. CASE a = i
      BY <2>2, <2>3, <3>1, <3>2
    <3>3. CASE a < i
      <4>1. state.mem[a] = mem[a] /\ a # i
        BY <1>1, <1>7, <3>1, <3>3 DEF Progress, Copied, SweepRead, TypeOK
      <4> QED
        BY <2>3, <4>1
    <3> QED
      BY <3>1, <3>2, <3>3
  <2> QED
    BY <1>1, <1>7, <2>1, <2>4 DEF SweepRead, Progress, TypeOK, M6502_State
<1>8. CASE SweepWrite
  <2>1. i \in Address /\ i' = i + 1 /\ op = "load" /\ ~RW
    BY <1>1, <1>8 DEF SweepWrite, TypeOK, Address, Progress
  <2>2. /\ i \in Ram => mem' = [mem EXCEPT ![i] = state.mem[i]]
        /\ i \notin Ram => mem' = mem
    BY <1>1, <1>8, <2>1 DEF SweepWrite, RamAfter
  <2>3. Copied(i)'
    <3> SUFFICES ASSUME NEW a \in Ram, a < i + 1 PROVE state.mem[a] = mem'[a]
      BY <1>8, <2>1 DEF Copied, SweepWrite
    <3>1. a \in Address /\ i \in Int /\ (a = i \/ a < i)
      BY <2>1 DEF Address
    <3>2. CASE a = i
      BY <1>1, <2>2, <3>2 DEF TypeOK
    <3>3. CASE a < i
      <4>1. state.mem[a] = mem[a] /\ a # i
        BY <1>1, <1>8, <3>1, <3>3 DEF Progress, Copied, SweepWrite, TypeOK
      <4> QED
        BY <1>1, <2>2, <4>1 DEF TypeOK
    <3> QED
      BY <3>1, <3>2, <3>3
  <2> QED
    BY <1>1, <1>8, <2>1, <2>3 DEF SweepWrite, Progress
<1>9. CASE Swept
  BY <1>1, <1>9 DEF Swept, Progress, Copied
<1>10. CASE Restore
  BY <1>1, <1>10 DEF Restore, Progress, Copied
<1>11. CASE WriteFile \/ ReadFile
  BY <1>1, <1>11 DEF WriteFile, ReadFile, Progress, Copied, TypeOK
<1>12. CASE UNCHANGED vars
  BY <1>1, <1>12 DEF vars, Progress, Copied
<1> QED
  BY <1>2, <1>3, <1>4, <1>5, <1>6, <1>7, <1>8, <1>9, <1>10, <1>11, <1>12
     DEF Next, ConsoleStep, User

(***************************************************************************)
(* The handshakes, and the progress of a save or a load, hold for every    *)
(* memory and every interleaving of clock thread and input thread          *)
(* (clock_run, cpu_cycle, save_state, load_state).                         *)
(***************************************************************************)
THEOREM ConsoleInvariant == Spec => []IInv
<1>1. IInv /\ [Next]_vars => IInv'
  BY TypeInv, HandshakeInv, ProgressInv DEF IInv
<1> QED
  BY <1>1, InitInv, PTL DEF Spec

(***************************************************************************)
(* Past its two waits, F6 or F7 has the buses for itself (m6502.c:442),    *)
(* outside the window of clock.c:55.                                       *)
(***************************************************************************)
THEOREM BusesAreBorrowed == Spec => []AloneOnBus
<1>1. IInv => AloneOnBus
  BY DEF IInv
<1> QED
  BY <1>1, ConsoleInvariant, PTL

----------------------------------------------------------------------------
(* The refinement.                                                         *)

seen == <<SeenR, SeenMem, SeenAddr, SeenData, SeenRW, Kept>>

LEMMA PromiseInit == Init => Promise!Init
<1> SUFFICES ASSUME Init PROVE Promise!Init
  OBVIOUS
<1>1. ~Loading /\ ~Borrowed /\ file.len # FileSize
  BY DEF Init, Loading, Borrowed
<1>2. /\ SeenR = R /\ SeenMem = mem /\ SeenAddr = addr_bus /\ SeenData = data_bus
      /\ SeenRW = RW /\ Kept = None
  BY <1>1 DEF SeenR, SeenMem, SeenAddr, SeenData, SeenRW, Kept
<1> QED
  BY <1>2 DEF Init, Promise!Init

LEMMA Stutters ==
  ASSUME UNCHANGED seen
  PROVE  [Promise!Next]_(Promise!vars)
BY DEF seen, Promise!vars

(* A step between two moments at which nobody borrows the buses is seen as *)
(* it is, *)
LEMMA SeenAsItIs ==
  ASSUME console \in {"idle", "wait"}, console' \in {"idle", "wait"}, file' = file
  PROVE  /\ SeenR = R /\ SeenMem = mem /\ SeenAddr = addr_bus /\ SeenData = data_bus
         /\ SeenRW = RW
         /\ SeenR' = R' /\ SeenMem' = mem' /\ SeenAddr' = addr_bus'
         /\ SeenData' = data_bus' /\ SeenRW' = RW'
         /\ Kept' = Kept
<1>1. ~Loading /\ ~Borrowed /\ ~Loading' /\ ~Borrowed'
  BY DEF Loading, Borrowed
<1> QED
  BY <1>1 DEF SeenR, SeenMem, SeenAddr, SeenData, SeenRW, Kept

(* those of the clock thread *)
LEMMA ClockMaps ==
  ASSUME IInv, ClockStep, ~spoiled
  PROVE  [Promise!Next]_(Promise!vars)
<1> USE DEF ClockGoes, machine, flags, locals
<1>1. /\ console \in {"idle", "wait"} /\ console' \in {"idle", "wait"} /\ file' = file
  BY OnlyTheOperation DEF ClockStep, ClockTests, ClockActive, CycleTests, CycleBegins,
     CycleRuns, ClockPhi2, ClockDone, ClockJoined
<1>2. CASE ClockTests \/ ClockActive \/ CycleTests \/ CycleBegins \/ ClockDone \/ ClockJoined
  <2>1. UNCHANGED machine
    BY <1>2 DEF ClockTests, ClockActive, CycleTests, CycleBegins, ClockDone, ClockJoined
  <2> QED
    BY <1>1, <2>1, SeenAsItIs, Stutters DEF seen
<1>3. CASE CycleRuns
  <2>1. data_bus' \in Byte /\ (RW' => data_bus' = data_bus)
    BY <1>3 DEF CycleRuns, IInv, TypeOK
  <2>2. Promise!Run
    BY <1>1, <1>3, <2>1, SeenAsItIs DEF CycleRuns, Promise!Run
  <2> QED
    BY <2>2 DEF Promise!Next
<1>4. CASE ClockPhi2
  <2>0. TypeOK /\ UNCHANGED <<R, addr_bus, RW>>
    BY <1>4 DEF IInv, ClockPhi2
  <2>1. CASE RW \/ addr_bus \notin Ram
    <3>1. mem' = mem
      BY <1>4, <2>1 DEF ClockPhi2, RamAfter
    <3>2. data_bus' \in IF addr_bus \in Ram THEN {mem[addr_bus]} ELSE Byte
      BY <1>4, <2>0, <2>1 DEF ClockPhi2, BusAfter, TypeOK
    <3>3. Promise!Answers
      BY <1>1, <2>0, <2>1, <3>1, <3>2, SeenAsItIs DEF Promise!Answers
    <3> QED
      BY <3>3 DEF Promise!Next
  <2>2. CASE ~RW /\ addr_bus \in Ram
    <3>1. data_bus' = data_bus /\ mem' = [mem EXCEPT ![addr_bus] = data_bus]
      BY <1>4, <2>2 DEF ClockPhi2, BusAfter, RamAfter
    <3>2. Promise!Writes
      BY <1>1, <2>0, <2>2, <3>1, SeenAsItIs DEF Promise!Writes
    <3> QED
      BY <3>2 DEF Promise!Next
  <2> QED
    BY <2>1, <2>2
<1> QED
  BY <1>2, <1>3, <1>4 DEF ClockStep

(* and those of the keys and the debugger. *)
LEMMA UserMaps ==
  ASSUME IInv, User, ~spoiled, ~spoiled'
  PROVE  [Promise!Next]_(Promise!vars)
<1> USE DEF Goes, ClockGoes, machine, flags, locals
<1>1. /\ console \in {"idle", "wait"} /\ console' \in {"idle", "wait"} /\ file' = file
  BY OnlyTheOperation DEF User, Debugger, Press, Break, Continue, SetValue, SetRegister, Look
<1>2. CASE (\E key \in {"save", "load"} : Press(key)) \/ Break \/ Continue
  <2>1. UNCHANGED machine
    BY <1>2 DEF Press, Break, Continue
  <2> QED
    BY <1>1, <2>1, SeenAsItIs, Stutters DEF seen
<1>3. ASSUME NEW a \in Address, NEW v \in Byte, SetValue(a, v)
      PROVE  [Promise!Next]_(Promise!vars)
  <2>1. UNCHANGED <<R, addr_bus, data_bus, RW>>
    BY <1>3 DEF SetValue
  <2>2. CASE a \in Ram
    <3>1. mem' = [mem EXCEPT ![a] = v]
      BY <1>3, <2>2 DEF SetValue, RamAfter
    <3>2. Promise!SetByte
      BY <1>1, <2>1, <2>2, <3>1, SeenAsItIs DEF Promise!SetByte
    <3> QED
      BY <3>2 DEF Promise!Next
  <2>3. CASE a \notin Ram
    <3>1. mem' = mem
      BY <1>3, <2>3 DEF SetValue, RamAfter
    <3> QED
      BY <1>1, <2>1, <3>1, SeenAsItIs, Stutters DEF seen
  <2> QED
    BY <2>2, <2>3
<1>4. ASSUME NEW r \in Regs, SetRegister(r)
      PROVE  [Promise!Next]_(Promise!vars)
  <2>1. Promise!SetRegister
    BY <1>1, <1>4, SeenAsItIs DEF SetRegister, Promise!SetRegister
  <2> QED
    BY <2>1 DEF Promise!Next
<1>5. ASSUME NEW a \in Address, NEW k \in 1..MaxList, Look(a, k)
      PROVE  [Promise!Next]_(Promise!vars)
  <2>1. RW
    BY <1>5 DEF Look
  <2>2. mem' = mem /\ UNCHANGED <<R, addr_bus, data_bus, RW>>
    BY <1>5, <2>1 DEF Look, IInv, TypeOK
  <2> QED
    BY <1>1, <2>2, SeenAsItIs, Stutters DEF seen
<1> QED
  BY <1>2, <1>3, <1>4, <1>5 DEF User, Debugger

(* The two waits, before the buses are taken, and what follows when they   *)
(* have been given back, are not seen. *)
LEMMA WaitsMap ==
  ASSUME IInv, Wait \/ Disable \/ Spin \/ OpenRead \/ Fail \/ Enable \/ On
  PROVE  UNCHANGED seen
<1> USE DEF Goes, machine, flags, locals
<1>1. UNCHANGED <<machine, file, op>>
  BY DEF Wait, Disable, Spin, OpenRead, Fail, Enable, On
<1>2. Loading' = Loading /\ Borrowed' = Borrowed /\ (Loading \/ Borrowed => state' = state)
  BY DEF Wait, Disable, Spin, OpenRead, Fail, Enable, On, Loading, Borrowed
<1> QED
  BY <1>1, <1>2 DEF seen, SeenR, SeenMem, SeenAddr, SeenData, SeenRW, Kept

(* Taking the buses, one address of the sweep, its end. *)
LEMMA SweepMaps ==
  ASSUME IInv, Copy \/ Lower \/ SweepRead \/ SweepWrite \/ Swept, ~spoiled
  PROVE  UNCHANGED seen
<1> USE DEF Goes, machine, flags, locals
<1>1. UNCHANGED <<R, file, op>>
  BY DEF Copy, Lower, SweepRead, SweepWrite, Swept
<1>2. Loading' = Loading /\ Kept' = Kept
  BY <1>1 DEF Copy, Lower, SweepRead, SweepWrite, Swept, Loading, Kept
<1>3. CASE Copy
  <2>1. ~Loading /\ ~Borrowed /\ Borrowed'
    BY <1>3 DEF Copy, Loading, Borrowed
  <2>2. /\ state'.addr_bus = addr_bus /\ state'.data_bus = data_bus /\ state'.RW = RW
        /\ mem' = mem
    BY <1>3 DEF Copy, IInv, TypeOK, M6502_State
  <2> QED
    BY <1>1, <1>2, <2>1, <2>2 DEF seen, SeenR, SeenMem, SeenAddr, SeenData, SeenRW
<1>4. CASE Lower \/ SweepWrite
  <2>1. state' = state /\ Loading /\ Borrowed /\ Borrowed'
    BY <1>4 DEF Lower, SweepWrite, Loading, Borrowed
  <2> QED
    BY <1>1, <1>2, <2>1 DEF seen, SeenR, SeenMem, SeenAddr, SeenData, SeenRW
<1>5. CASE SweepRead
  <2>1. RW /\ ~Loading /\ Borrowed /\ Borrowed'
    BY <1>5 DEF SweepRead, IInv, Progress, Loading, Borrowed
  <2>2. mem' = mem
    BY <1>5, <2>1 DEF SweepRead, RamAfter
  <2>3. /\ state'.addr_bus = state.addr_bus /\ state'.data_bus = state.data_bus
        /\ state'.RW = state.RW
    BY <1>5 DEF SweepRead, IInv, TypeOK, M6502_State
  <2> QED
    BY <1>1, <1>2, <2>1, <2>2, <2>3 DEF seen, SeenR, SeenMem, SeenAddr, SeenData, SeenRW
<1>6. CASE Swept
  <2>1. UNCHANGED <<machine, state>> /\ Borrowed /\ Borrowed'
    BY <1>6 DEF Swept, Borrowed, Loading, IInv, TypeOK
  <2> QED
    BY <1>1, <1>2, <2>1 DEF seen, SeenR, SeenMem, SeenAddr, SeenData, SeenRW
<1> QED
  BY <1>3, <1>4, <1>5, <1>6

(* When the buses are given back, the machine is what was seen. *)
LEMMA RestoreMaps ==
  ASSUME IInv, Restore, ~spoiled
  PROVE  UNCHANGED seen
<1> USE DEF Goes, machine, flags, locals
<1>1. /\ UNCHANGED <<mem, state, file>> /\ Kept' = Kept
      /\ addr_bus' = state.addr_bus /\ data_bus' = state.data_bus /\ RW' = state.RW
      /\ console = "restore" /\ ~Loading' /\ ~Borrowed' /\ Borrowed
  BY DEF Restore, Kept, Loading, Borrowed, IInv, TypeOK
<1>2. CASE op = "save"
  <2>1. R' = R /\ ~Loading
    BY <1>2 DEF Restore, Loading
  <2> QED
    BY <1>1, <2>1 DEF seen, SeenR, SeenMem, SeenAddr, SeenData, SeenRW
<1>3. CASE op = "load"
  <2>1. R' = state.R /\ Loading
    BY <1>1, <1>3 DEF Restore, Loading
  <2>2. state.mem = mem
    <3>1. \A a \in Ram : state.mem[a] = mem[a]
      <4>1. i = MEMSIZE /\ Copied(i)
        BY <1>1 DEF IInv, Progress
      <4>2. \A a \in Ram : a < MEMSIZE
        BY DEF Address
      <4> QED
        BY <4>1, <4>2 DEF Copied
    <3>2. mem = [a \in Ram |-> mem[a]]
      BY DEF IInv, TypeOK
    <3> QED
      BY <3>1, <3>2 DEF IInv, TypeOK, M6502_State
  <2> QED
    BY <1>1, <2>1, <2>2 DEF seen, SeenR, SeenMem, SeenAddr, SeenData, SeenRW
<1> QED
  BY <1>2, <1>3 DEF IInv, TypeOK

(* The file: O_TRUNC forgets the checkpoint, the last write makes one, *)
LEMMA WriteMaps ==
  ASSUME IInv, OpenWrite \/ WriteFile, ~spoiled
  PROVE  [Promise!Next]_(Promise!vars)
<1> USE DEF Goes, machine, flags, locals
<1>1. UNCHANGED <<R, addr_bus, data_bus, RW, mem>> /\ op = "save"
  BY DEF OpenWrite, WriteFile, IInv, Progress
<1>2. ~Loading /\ ~Borrowed /\ ~Loading' /\ ~Borrowed'
  BY <1>1 DEF OpenWrite, WriteFile, Loading, Borrowed
<1>3. /\ SeenR = R /\ SeenMem = mem /\ SeenAddr = addr_bus /\ SeenData = data_bus
      /\ SeenRW = RW
      /\ UNCHANGED <<SeenR, SeenMem, SeenAddr, SeenData, SeenRW>>
  BY <1>1, <1>2 DEF SeenR, SeenMem, SeenAddr, SeenData, SeenRW
<1>4. CASE OpenWrite
  <2>1. Kept' = None
    BY <1>4 DEF OpenWrite, Kept
  <2>2. Promise!Forget
    BY <1>3, <2>1 DEF Promise!Forget, Promise!machine
  <2> QED
    BY <2>2 DEF Promise!Next
<1>5. CASE WriteFile
  <2>1. PICK k \in 1..FileSize :
          k > file.len /\ file' = [len |-> k, state |-> IF k = FileSize THEN state ELSE Blank]
    BY <1>5 DEF WriteFile
  <2>2. Kept = None
    BY <2>1 DEF Kept, IInv, TypeOK
  <2>3. CASE k = FileSize
    <3>1. /\ state.R = R /\ state.addr_bus = addr_bus /\ state.data_bus = data_bus
          /\ state.RW = RW /\ Copied(MEMSIZE)
      BY <1>1, <1>5 DEF WriteFile, IInv, Progress
    <3>2. state.mem = mem
      <4>1. \A a \in Ram : state.mem[a] = mem[a]
        BY <3>1 DEF Copied, Address
      <4> QED
        BY <4>1 DEF IInv, TypeOK, M6502_State
    <3>3. Kept' = [R |-> R, addr_bus |-> addr_bus, data_bus |-> data_bus, RW |-> RW,
                   mem |-> mem]
      <4>1. state = [R |-> R, addr_bus |-> addr_bus, data_bus |-> data_bus, RW |-> RW,
                     mem |-> mem]
        BY <3>1, <3>2 DEF IInv, TypeOK, M6502_State
      <4> QED
        BY <2>1, <2>3, <4>1 DEF Kept
    <3>4. Promise!Save
      BY <1>3, <3>3 DEF Promise!Save, Promise!machine
    <3> QED
      BY <3>4 DEF Promise!Next
  <2>4. CASE k # FileSize
    <3>1. Kept' = None
      BY <2>1, <2>4 DEF Kept
    <3> QED
      BY <1>3, <2>2, <3>1, Stutters DEF seen
  <2> QED
    BY <2>3, <2>4
<1> QED
  BY <1>4, <1>5

(* and the last read is the load. *)
LEMMA ReadMaps ==
  ASSUME IInv, ReadFile, ~spoiled
  PROVE  [Promise!Next]_(Promise!vars)
<1> USE DEF Goes, machine, flags, locals
<1>1. /\ UNCHANGED <<R, addr_bus, data_bus, RW, mem, file, op>>
      /\ op = "load" /\ console = "read"
  BY DEF ReadFile, IInv, Progress
<1>2. ~Loading /\ ~Borrowed /\ Kept' = Kept
  BY <1>1 DEF Loading, Borrowed, Kept
<1>3. PICK k \in 0..file.len :
        /\ state' = IF k = FileSize THEN file.state ELSE state
        /\ console' = IF k = FileSize THEN "spin" ELSE "read"
  BY DEF ReadFile
<1>4. CASE k = FileSize
  <2>1. file.len = FileSize /\ Kept = file.state
    BY <1>3, <1>4 DEF IInv, TypeOK, Kept
  <2>2. Loading' /\ Borrowed'
    BY <1>1, <1>3, <1>4 DEF Loading, Borrowed
  <2>3. /\ SeenR' = file.state.R /\ SeenMem' = file.state.mem
        /\ SeenAddr' = file.state.addr_bus /\ SeenData' = file.state.data_bus
        /\ SeenRW' = file.state.RW
    BY <1>3, <1>4, <2>2 DEF SeenR, SeenMem, SeenAddr, SeenData, SeenRW
  <2>4. Kept # None
    BY <2>1, NoneAssumption DEF IInv, TypeOK
  <2>5. Promise!Load
    BY <1>2, <2>1, <2>3, <2>4 DEF Promise!Load
  <2> QED
    BY <2>5 DEF Promise!Next
<1>5. CASE k # FileSize
  <2>1. ~Loading' /\ ~Borrowed'
    BY <1>3, <1>5 DEF Loading, Borrowed
  <2> QED
    BY <1>1, <1>2, <2>1, Stutters DEF seen, SeenR, SeenMem, SeenAddr, SeenData, SeenRW
<1> QED
  BY <1>4, <1>5

(* Every step is a step of the machine or is not seen. *)
LEMMA PromiseNext ==
  ASSUME IInv, [Next]_vars
  PROVE  [Promise!Next \/ spoiled']_(Promise!vars)
<1> SUFFICES ASSUME ~spoiled' PROVE [Promise!Next]_(Promise!vars)
  OBVIOUS
<1>1. ~spoiled
  BY SpoiledStays DEF IInv, TypeOK
<1>2. CASE ClockStep
  BY <1>1, <1>2, ClockMaps
<1>3. CASE User
  BY <1>1, <1>3, UserMaps
<1>4. CASE Wait \/ Disable \/ Spin \/ OpenRead \/ Fail \/ Enable \/ On
  BY <1>4, WaitsMap, Stutters
<1>5. CASE Copy \/ Lower \/ SweepRead \/ SweepWrite \/ Swept
  BY <1>1, <1>5, SweepMaps, Stutters
<1>6. CASE Restore
  BY <1>1, <1>6, RestoreMaps, Stutters
<1>7. CASE OpenWrite \/ WriteFile
  BY <1>1, <1>7, WriteMaps
<1>8. CASE ReadFile
  BY <1>1, <1>8, ReadMaps
<1>9. CASE UNCHANGED vars
  <2>1. UNCHANGED seen
    BY <1>9 DEF vars, seen, SeenR, SeenMem, SeenAddr, SeenData, SeenRW, Kept, Loading,
       Borrowed
  <2> QED
    BY <2>1, Stutters
<1> QED
  BY <1>2, <1>3, <1>4, <1>5, <1>6, <1>7, <1>8, <1>9 DEF Next, ConsoleStep, User

(***************************************************************************)
(* For every memory, every file size and every interleaving: F6 saves the  *)
(* machine and leaves it as it was, F7 brings it back as a whole or not at *)
(* all, set changes what it names (save_state, load_state, set_value).     *)
(***************************************************************************)
THEOREM CheckpointImplemented == Spec => ImplementsCheckpoint
BY PromiseInit, PromiseNext, ConsoleInvariant, PTL DEF Spec, ImplementsCheckpoint
=============================================================================
