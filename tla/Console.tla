------------------------------ MODULE Console ------------------------------
(***************************************************************************)
(* What else clocks the chips but the processor's own cycles: save_state   *)
(* and load_state (m6502.c), for F6 and F7, in the input thread while the  *)
(* clock thread runs, and the debugger's print, set and list (debug.c,     *)
(* print_disassembly), when the clock thread has ended.                    *)
(*                                                                         *)
(* All of them borrow the buses from the processor: they disable it, put   *)
(* addresses on its bus, clock the chips and put the buses back.  Two      *)
(* unlocked handshakes keep the clock thread out: enabled and active of    *)
(* the main clock, and of the processor.  Neither excludes the window      *)
(* between the test of enabled and active = true; spoiled records that an  *)
(* operation began in it.                                                  *)
(*                                                                         *)
(* A cycle of the program is any change of the registers and any access.   *)
(* R stands for the registers that M6502_State keeps besides the buses.    *)
(***************************************************************************)
EXTENDS Integers, Sequences

CONSTANTS
  Regs, Byte,
  MEMSIZE,     \* addresses
  Ram, Rom,    \* those of RAM and of ROM
  RomData,     \* what the ROM holds
  Pia,         \* those of the keyboard and display registers
  None,        \* no checkpoint
  FileSize,    \* pieces in which "savestate" is written and read
  MaxList,     \* bytes that one list command reads
  Repeats      \* whether F6 and F7 are pressed again after a spoiled one

Address == 0..MEMSIZE - 1

ASSUME ConsoleAssumption ==
  /\ Regs # {} /\ Byte # {}
  /\ MEMSIZE \in Nat \ {0}
  /\ Ram \subseteq Address /\ Rom \subseteq Address /\ Pia \subseteq Address
  /\ Ram \cap Rom = {} /\ Ram \cap Pia = {} /\ Rom \cap Pia = {}
  /\ RomData \in [Rom -> Byte]
  /\ FileSize \in Nat \ {0} /\ MaxList \in 1..MEMSIZE
  /\ Repeats \in BOOLEAN

VARIABLES
  R, addr_bus, data_bus, RW, mem,     \* the machine
  clk_enabled, clk_active,            \* the main clock's flags
  cpu_enabled, cpu_active,            \* the processor's
  stop,                               \* poweroff, for F9
  clock,                              \* the clock thread's program counter
  console, op,                        \* where F6 or F7 is
  i, state,                           \* their loop and their buffer
  n,                                  \* pieces read
  file,                               \* "savestate"
  spoiled

machine == <<R, addr_bus, data_bus, RW, mem>>
flags   == <<clk_enabled, clk_active, cpu_enabled, cpu_active, stop>>
locals  == <<i, state, n>>
vars    == <<R, addr_bus, data_bus, RW, mem, clk_enabled, clk_active, cpu_enabled,
             cpu_active, stop, clock, console, op, i, state, n, file, spoiled>>

M6502_State == [R : Regs, addr_bus : Address, data_bus : Byte, RW : BOOLEAN,
                mem : [Ram -> Byte]]

ASSUME NoneAssumption == None \notin M6502_State

Blank == [R |-> CHOOSE r \in Regs : TRUE, addr_bus |-> 0, data_bus |-> CHOOSE b \in Byte : TRUE,
          RW |-> TRUE, mem |-> [a \in Ram |-> CHOOSE b \in Byte : TRUE]]

ClockPc   == {"loop", "activate", "test", "begin", "run", "phi2", "done", "joined"}
ConsolePc == {"idle", "wait", "disable", "spin", "copy", "sweep", "restore", "open",
              "write", "read", "enable", "on"}

----------------------------------------------------------------------------
Init ==
  /\ R \in Regs /\ addr_bus \in Address /\ data_bus \in Byte /\ RW = TRUE
  /\ mem \in [Ram -> Byte]
  /\ clk_enabled = TRUE /\ clk_active = FALSE
  /\ cpu_enabled = TRUE /\ cpu_active = FALSE
  /\ stop = FALSE
  /\ clock = "loop" /\ console = "idle" /\ op = "save"
  /\ i = 0 /\ state = Blank /\ n = 0
  /\ file = [len |-> -1, state |-> Blank]
  /\ spoiled = FALSE

----------------------------------------------------------------------------
(* The chips on phi2, with address a, data d and the read line rw: the     *)
(* data bus afterwards and the RAM.  The read line of the ROM is tied high *)
(* (read_only): it answers a write, too.  Where no chip answers, the bus   *)
(* keeps what it had.                                                      *)
BusAfter(a, d, rw, m) ==
  CASE a \in Rom         -> {RomData[a]}
    [] rw /\ a \in Ram   -> {m[a]}
    [] rw /\ a \in Pia   -> Byte
    [] OTHER             -> {d}

RamAfter(a, d, rw, m) ==
  IF ~rw /\ a \in Ram THEN [m EXCEPT ![a] = d] ELSE m

----------------------------------------------------------------------------
(* The clock thread: clock_run, clock_cpu, cpu_cycle.                      *)

ClockGoes(from, to) == clock = from /\ clock' = to

ClockTests ==
  /\ clk_enabled /\ ~stop
  /\ ClockGoes("loop", "activate")
  /\ UNCHANGED <<machine, flags, console, op, locals, file, spoiled>>

ClockActive ==
  /\ ClockGoes("activate", "test")
  /\ clk_active' = TRUE
  /\ UNCHANGED <<machine, clk_enabled, cpu_enabled, cpu_active, stop, console, op, locals,
                 file, spoiled>>

(* A processor that is stopped or disabled does nothing, but the chips are *)
(* clocked again with what is on the buses.                                *)
CycleTests ==
  /\ ClockGoes("test", IF stop \/ ~cpu_enabled THEN "phi2" ELSE "begin")
  /\ UNCHANGED <<machine, flags, console, op, locals, file, spoiled>>

CycleBegins ==
  /\ ClockGoes("begin", "run")
  /\ cpu_active' = TRUE
  /\ UNCHANGED <<machine, clk_enabled, clk_active, cpu_enabled, stop, console, op, locals,
                 file, spoiled>>

CycleRuns ==
  /\ ClockGoes("run", "phi2")
  /\ R' \in Regs /\ addr_bus' \in Address /\ RW' \in BOOLEAN
  /\ data_bus' \in IF RW' THEN {data_bus} ELSE Byte
  /\ cpu_active' = FALSE
  /\ UNCHANGED <<mem, clk_enabled, clk_active, cpu_enabled, stop, console, op, locals,
                 file, spoiled>>

ClockPhi2 ==
  /\ ClockGoes("phi2", "done")
  /\ data_bus' \in BusAfter(addr_bus, data_bus, RW, mem)
  /\ mem' = RamAfter(addr_bus, data_bus, RW, mem)
  /\ UNCHANGED <<R, addr_bus, RW, flags, console, op, locals, file, spoiled>>

ClockDone ==
  /\ ClockGoes("done", "loop")
  /\ clk_active' = FALSE
  /\ UNCHANGED <<machine, clk_enabled, cpu_enabled, cpu_active, stop, console, op, locals,
                 file, spoiled>>

(* F9: the thread ends, main joins it and clears poweroff again. *)
ClockJoined ==
  /\ stop
  /\ ClockGoes("loop", "joined")
  /\ stop' = FALSE
  /\ UNCHANGED <<machine, clk_enabled, clk_active, cpu_enabled, cpu_active, console, op,
                 locals, file, spoiled>>

ClockStep ==
  \/ ClockTests \/ ClockActive \/ CycleTests \/ CycleBegins \/ CycleRuns
  \/ ClockPhi2 \/ ClockDone \/ ClockJoined

----------------------------------------------------------------------------
(* F6 and F7 in the input thread: process_emulator_input, save_state,      *)
(* load_state, dump_file, load_dump.                                       *)

Goes(from, to) == console = from /\ console' = to

(* main_clock.enabled = false *)
Press(key) ==
  /\ clock # "joined" /\ ~stop /\ (spoiled => Repeats)
  /\ Goes("idle", "wait")
  /\ op' = key
  /\ clk_enabled' = FALSE
  /\ UNCHANGED <<machine, clk_active, cpu_enabled, cpu_active, stop, clock, locals, file,
                 spoiled>>

(* A defect: nobody waits for the clock thread's cycle. *)
WaitNot ==
  /\ Goes("wait", "disable")
  /\ UNCHANGED <<machine, flags, clock, op, locals, file, spoiled>>

(* while(main_clock.active) *)
Wait ==
  /\ ~clk_active
  /\ Goes("wait", "disable")
  /\ spoiled' = (spoiled \/ clock = "activate")
  /\ UNCHANGED <<machine, flags, clock, op, locals, file>>

(* cpu->enabled = false; load_state reads the file before it waits. *)
Disable ==
  /\ Goes("disable", IF op = "save" THEN "spin" ELSE "open")
  /\ cpu_enabled' = FALSE
  /\ UNCHANGED <<machine, clk_enabled, clk_active, cpu_active, stop, clock, op, locals,
                 file, spoiled>>

(* while(cpu->active) *)
Spin ==
  /\ ~cpu_active
  /\ Goes("spin", "copy")
  /\ UNCHANGED <<machine, flags, clock, op, locals, file, spoiled>>

(* A defect: the read line stays where the last cycle has put it. *)
CopyAsItIs ==
  /\ op = "save"
  /\ Goes("copy", "sweep")
  /\ state' = [state EXCEPT !.R = R, !.addr_bus = addr_bus, !.data_bus = data_bus, !.RW = RW]
  /\ i' = 0
  /\ UNCHANGED <<R, addr_bus, data_bus, RW, mem, flags, clock, op, n, file, spoiled>>

(* Registers and buses are kept; "Just in case, we'll restore later" *)
Copy ==
  /\ op = "save"
  /\ Goes("copy", "sweep")
  /\ state' = [state EXCEPT !.R = R, !.addr_bus = addr_bus, !.data_bus = data_bus, !.RW = RW]
  /\ RW' = TRUE
  /\ i' = 0
  /\ UNCHANGED <<R, addr_bus, data_bus, mem, flags, clock, op, n, file, spoiled>>

Lower ==
  /\ op = "load"
  /\ Goes("copy", "sweep")
  /\ RW' = FALSE
  /\ i' = 0
  /\ UNCHANGED <<R, addr_bus, data_bus, mem, flags, clock, op, state, n, file, spoiled>>

(* Every address in turn is put on the bus, the chips are clocked and the  *)
(* answer is kept: what is no RAM answers too, but matters to nobody, *)
SweepRead ==
  /\ op = "save" /\ console = "sweep" /\ i < MEMSIZE
  /\ addr_bus' = i
  /\ data_bus' \in BusAfter(i, data_bus, RW, mem)
  /\ mem' = RamAfter(i, data_bus, RW, mem)
  /\ state' = IF i \in Ram THEN [state EXCEPT !.mem[i] = data_bus'] ELSE state
  /\ i' = i + 1
  /\ UNCHANGED <<R, RW, flags, clock, console, op, n, file, spoiled>>

(* or the byte of the buffer is written. *)
SweepWrite ==
  /\ op = "load" /\ console = "sweep" /\ i < MEMSIZE
  /\ addr_bus' = i
  /\ \E b \in Byte :
       /\ i \in Ram => b = state.mem[i]
       /\ data_bus' \in BusAfter(i, b, RW, mem)
       /\ mem' = RamAfter(i, b, RW, mem)
  /\ i' = i + 1
  /\ UNCHANGED <<R, RW, flags, clock, console, op, state, n, file, spoiled>>

Swept ==
  /\ i = MEMSIZE
  /\ Goes("sweep", "restore")
  /\ UNCHANGED <<machine, flags, clock, op, locals, file, spoiled>>

(* A defect: the data bus keeps the last byte that was read. *)
RestoreNoData ==
  /\ Goes("restore", IF op = "save" THEN "open" ELSE "enable")
  /\ addr_bus' = state.addr_bus /\ RW' = state.RW
  /\ R' = IF op = "load" THEN state.R ELSE R
  /\ UNCHANGED <<data_bus, mem, flags, clock, op, locals, file, spoiled>>

(* save_state then writes the file, load_state is done. *)
Restore ==
  /\ Goes("restore", IF op = "save" THEN "open" ELSE "enable")
  /\ addr_bus' = state.addr_bus /\ data_bus' = state.data_bus /\ RW' = state.RW
  /\ R' = IF op = "load" THEN state.R ELSE R
  /\ UNCHANGED <<mem, flags, clock, op, locals, file, spoiled>>

(* open(2): O_CREAT | O_TRUNC for the one, an existing file for the other. *)
OpenWrite ==
  /\ op = "save"
  /\ Goes("open", "write")
  /\ file' = [len |-> 0, state |-> Blank]
  /\ UNCHANGED <<machine, flags, clock, op, locals, spoiled>>

OpenRead ==
  /\ op = "load" /\ file.len >= 0
  /\ Goes("open", "read")
  /\ n' = 0
  /\ UNCHANGED <<machine, flags, clock, op, i, state, file, spoiled>>

(* open, write or read fails: the file stays as far as it got. *)
Fail ==
  /\ \E pc \in {"open", "write", "read"} : Goes(pc, "enable")
  /\ UNCHANGED <<machine, flags, clock, op, locals, file, spoiled>>

(* write(2) takes one piece or more; EINTR changes nothing. *)
WriteFile ==
  /\ console = "write"
  /\ \E k \in 1..FileSize :
       /\ k > file.len
       /\ file' = [len |-> k, state |-> IF k = FileSize THEN state ELSE Blank]
       /\ console' = IF k = FileSize THEN "enable" ELSE "write"
  /\ UNCHANGED <<machine, flags, clock, op, locals, spoiled>>

(* read(2) delivers one piece or more of what is there; at the end of a    *)
(* file that is too short it returns 0 for ever.                           *)
ReadFile ==
  /\ console = "read"
  /\ \E k \in 0..file.len :
       /\ k > n
       /\ n' = k
       /\ state' = IF k = FileSize THEN file.state ELSE state
       /\ console' = IF k = FileSize THEN "spin" ELSE "read"
  /\ UNCHANGED <<machine, flags, clock, op, i, file, spoiled>>

(* A defect: only what succeeds enables the processor again. *)
EnableNot ==
  /\ Goes("enable", "on")
  /\ cpu_enabled' = (n = FileSize \/ op = "save")
  /\ UNCHANGED <<machine, clk_enabled, clk_active, cpu_active, stop, clock, op, locals,
                 file, spoiled>>

(* cpu->enabled = true *)
Enable ==
  /\ Goes("enable", "on")
  /\ cpu_enabled' = TRUE
  /\ UNCHANGED <<machine, clk_enabled, clk_active, cpu_active, stop, clock, op, locals,
                 file, spoiled>>

(* main_clock.enabled = true; the buffer goes with save_state's frame. *)
On ==
  /\ Goes("on", "idle")
  /\ clk_enabled' = TRUE
  /\ i' = 0 /\ state' = Blank /\ n' = 0
  /\ UNCHANGED <<machine, clk_active, cpu_enabled, cpu_active, stop, clock, op, file, spoiled>>

ConsoleStep ==
  \/ Wait \/ Disable \/ Spin \/ Copy \/ Lower \/ SweepRead \/ SweepWrite \/ Swept
  \/ Restore \/ OpenWrite \/ OpenRead \/ Fail \/ WriteFile \/ ReadFile \/ Enable \/ On

----------------------------------------------------------------------------
(* The debugger, alone in the main thread.                                 *)

(* F9 *)
Break ==
  /\ console = "idle" /\ clock # "joined" /\ ~stop
  /\ stop' = TRUE
  /\ UNCHANGED <<machine, clk_enabled, clk_active, cpu_enabled, cpu_active, clock, console,
                 op, locals, file, spoiled>>

Continue ==
  /\ ClockGoes("joined", "loop")
  /\ UNCHANGED <<machine, flags, console, op, locals, file, spoiled>>

(* set_value: the read line is lowered and put back with the buses. *)
SetValue(a, v) ==
  /\ clock = "joined"
  /\ mem' = RamAfter(a, v, FALSE, mem)
  /\ UNCHANGED <<R, addr_bus, data_bus, RW, flags, clock, console, op, locals, file, spoiled>>

SetRegister(r) ==
  /\ clock = "joined"
  /\ R' = r
  /\ UNCHANGED <<addr_bus, data_bus, RW, mem, flags, clock, console, op, locals, file, spoiled>>

(* What is on the data bus when the j-th byte from a is looked at with the *)
(* read line low: what was there, or what the last ROM address has put     *)
(* there.                                                                  *)
Carried(a, j) ==
  LET Passed == {h \in 0..j - 1 : (a + h) % MEMSIZE \in Rom} IN
  IF Passed = {} THEN {data_bus}
  ELSE {RomData[(a + h) % MEMSIZE] : h \in {g \in Passed : \A e \in Passed : e <= g}}

(* print_value and print_disassembly: k bytes from address a on.  The read *)
(* line stays as the last cycle left it: after a write, the data bus is    *)
(* stored at every address that is looked at.                              *)
Look(a, k) ==
  /\ clock = "joined"
  /\ mem' \in [Ram -> Byte]
  /\ \A b \in Ram :
       IF ~RW /\ \E j \in 0..k - 1 : b = (a + j) % MEMSIZE
       THEN \E j \in 0..k - 1 : b = (a + j) % MEMSIZE /\ mem'[b] \in Carried(a, j)
       ELSE mem'[b] = mem[b]
  /\ spoiled' = (spoiled \/ ~RW)
  /\ UNCHANGED <<R, addr_bus, data_bus, RW, flags, clock, console, op, locals, file>>

Debugger ==
  \/ Continue
  \/ \E a \in Address, v \in Byte : SetValue(a, v)
  \/ \E r \in Regs : SetRegister(r)
  \/ \E a \in Address, k \in 1..MaxList : Look(a, k)

----------------------------------------------------------------------------
Next ==
  \/ ClockStep \/ ConsoleStep
  \/ \E key \in {"save", "load"} : Press(key)
  \/ Break \/ Debugger

Spec == Init /\ [][Next]_vars

(* Both threads run, and what they ask of the file system is answered. *)
FairSpec == Spec /\ WF_vars(ClockStep) /\ WF_vars(ConsoleStep)

----------------------------------------------------------------------------
TypeOK ==
  /\ R \in Regs /\ addr_bus \in Address /\ data_bus \in Byte /\ RW \in BOOLEAN
  /\ mem \in [Ram -> Byte]
  /\ clk_enabled \in BOOLEAN /\ clk_active \in BOOLEAN
  /\ cpu_enabled \in BOOLEAN /\ cpu_active \in BOOLEAN /\ stop \in BOOLEAN
  /\ clock \in ClockPc /\ console \in ConsolePc /\ op \in {"save", "load"}
  /\ i \in 0..MEMSIZE /\ state \in M6502_State /\ n \in 0..FileSize
  /\ file \in [len : -1..FileSize, state : M6502_State]
  /\ spoiled \in BOOLEAN

(***************************************************************************)
(* F6 and F7 have the buses for themselves: past their two waits, the      *)
(* clock thread is outside its cycle and stays there (clock_run's enabled  *)
(* and active, m6502.c:442), unless it was between the two when they came  *)
(* (clock.c:55).                                                           *)
(***************************************************************************)
AloneOnBus ==
  ~spoiled /\ console \notin {"idle", "wait"} => clock = "loop" /\ ~cpu_active

(* What the operations have done so far, as long as they are alone. *)
Alone ==
  /\ console # "idle" => ~clk_enabled /\ ~stop /\ clock # "joined"
  /\ clk_active <=> clock \in {"test", "begin", "run", "phi2", "done"}
  /\ cpu_active <=> clock = "run"

Copied(upto) == \A a \in Ram : a < upto => state.mem[a] = mem[a]

Progress ==
  /\ console \in {"open", "write"} /\ op = "save" =>
       /\ state.R = R /\ state.addr_bus = addr_bus /\ state.data_bus = data_bus
       /\ state.RW = RW
       /\ Copied(MEMSIZE)
  /\ console \in {"sweep", "restore"} =>
       /\ op = "save" => RW /\ state.R = R
       /\ op = "load" => ~RW
       /\ Copied(i)
  /\ console = "restore" => i = MEMSIZE
  /\ console = "read" => op = "load" /\ n <= file.len
  /\ console = "write" => op = "save"

(***************************************************************************)
(* What the refinement rests on: the handshake, and how far the sweep over *)
(* the addresses has brought buffer and RAM together (save_state,          *)
(* load_state).                                                            *)
(***************************************************************************)
IInv == TypeOK /\ Alone /\ AloneOnBus /\ (~spoiled => Progress)

----------------------------------------------------------------------------
(* While the buses are borrowed, the machine is what will be put back; a   *)
(* load has happened when the file has been read.                          *)
Loading == op = "load" /\ console \in {"spin", "copy", "sweep", "restore"}
Borrowed == Loading \/ (op = "save" /\ console \in {"sweep", "restore"})

SeenR    == IF Loading THEN state.R ELSE R
SeenMem  == IF Loading THEN state.mem ELSE mem
SeenAddr == IF Borrowed THEN state.addr_bus ELSE addr_bus
SeenData == IF Borrowed THEN state.data_bus ELSE data_bus
SeenRW   == IF Borrowed THEN state.RW ELSE RW
Kept     == IF file.len = FileSize THEN file.state ELSE None

Promise == INSTANCE Checkpoint WITH
  NoCheckpoint <- None, R <- SeenR, mem <- SeenMem, addr_bus <- SeenAddr,
  data_bus <- SeenData, RW <- SeenRW, checkpoint <- Kept

(***************************************************************************)
(* F6 saves the machine as it stands between two steps and leaves it so,   *)
(* F7 brings registers, buses and RAM back together or, when it fails,     *)
(* changes nothing ("We have to guarantee that if something fails, the     *)
(* current state won't change", m6502.c:488), and the debugger changes     *)
(* what set names and nothing else; until an operation begins in the       *)
(* window of clock.c:55 or print and list find the read line low           *)
(* (debug.c:60).                                                           *)
(***************************************************************************)
ImplementsCheckpoint ==
  Promise!Init /\ [][Promise!Next \/ spoiled']_(Promise!vars)

(* read returns 0 and load_dump asks again. *)
Truncated == console = "read" /\ file.len < FileSize

(***************************************************************************)
(* F6 and F7 end, and the clock and the processor run again, whatever      *)
(* fails on the way and in whatever moment they were pressed               *)
(* (process_emulator_input, save_state, load_state); only a "savestate"    *)
(* that is too short holds them for ever (m6502.c:427).                    *)
(***************************************************************************)
Resumes ==
  (console # "idle") ~> (Truncated \/ (console = "idle" /\ clk_enabled /\ cpu_enabled))
=============================================================================
