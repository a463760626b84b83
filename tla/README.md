# A verification project for apple1emu

TLA+ modules for the Apple I emulator in `src/`, TLC configurations that check
them on small instances, and TLAPS proofs that hold for every instance.  Names
follow the C code (`cpu_cycle`, `do_00`, `get_arg_absolute_index`, `poweroff`,
...); `PROJECT.json` maps each definition to the lines it models.

## The system

The program emulates a 6502 processor, RAM and ROM, and a PIA 6821 with a
keyboard and a display.  It runs either the Apple I's own ROM (`init_apple1`) or
an arbitrary binary in 64K of RAM (`init_apple1_binary`).  Three threads:

| thread | code | what it does |
|---|---|---|
| main | `boot_apple1`, `main_loop` (apple1.c) | starts the two others, measures the speed once a second, joins them when `poweroff` is set, and then is the debugger |
| clock | `clock_run` (clock.c) | ticks the clock; every tick runs one cycle of the processor and of the chips behind it |
| input | `input_run` (pia6821.c) | reads the keyboard: characters for the Apple I, function keys for the emulator |

They share, without any lock, `poweroff`, `debug_mode`, `data_ready`,
`reset_line`, the clock's `enabled`, `active` and `turbo`, and the processor's
`enabled` and `active`.  `SIGINT`, from Ctrl-C or from `main_loop` itself, writes
`poweroff` and `debug_mode` in whatever thread it is delivered to.

### Inventory

| component | state | operations | what is hard | what makes it correct |
|---|---|---|---|---|
| CPU: instructions (m6502.c, m6502_opcodes.c) | registers, IR with the stage in its three low bits, AD, buses, RW, SYNC | 151 handlers, one call per clock cycle; `get_arg_*`, `branch`, `fetch`, `push_stack`, ALU helpers | every wrap at 8 and 16 bits; stages left out by an extra IR++; one table entry per opcode; decimal mode | between two opcode fetches the machine changes as one documented instruction, in the documented number of cycles |
| CPU: cycle and reset (m6502.c, mem.c) | the above, `break_status`, the RES line, RAM | `cpu_cycle`, `clock_cpu`, `clock_mem`, `init_cpu`, `cpu_crash`, F8 | the reset key is pressed at any point of any instruction | every instruction ends, every reset is served, resets write nothing, the opcode taken is the one at PC |
| Threads and signals (apple1.c, clock.c, pia6821.c, main.c) | `poweroff`, `debug_mode`, each thread's place, terminal mode, pending signals | creation, joins, `pthread_kill`, `termination_handler`, F5, F9, F10, debugger commands | interleavings of three threads and a signal handler; a wake-up that comes too early; two flags written one after the other | one thread clocks the machine; the debugger is alone; Ctrl-C and quit end the program; F9 and continue do what they say |
| Snapshot (m6502.c, apple1.c, clock.c) | `enabled` and `active` of the clock and of the processor, the buffer, the file | F6, F7, `save_state`, `load_state`, `cpu_crash` | a flag tested before the other is set; memory scanned through the chips, PIA included; files that fail halfway | a checkpoint is the machine between two steps; loading gives it back or changes nothing; the machine runs on |
| PIA 6821 (pia6821.c) | CRA, CRB, DDRA, DDRB, PA, PB, `data_ready`, `pressed_key`, `current_col` | `clock_pia`, `process_peripheral_A`, `process_peripheral_B`, `input_run` | the input thread and the clock thread hand a key over through `data_ready`, without a lock | keys reach the program once each, in order, and none is lost between the threads |
| Pacing (clock.c, apple1.c) | `tick_count`, `clock_adjust`, `turbo` | the sleep of `clock_run`, the correction of `main_loop`, TAB, F7 | fields of a time without its seconds, truncated counters | the speed comes back to one cycle per microsecond |
| Files (m6502.c, main.c) | file position, totals | `dump_file`, `load_dump`, `load_file` | short reads and writes, interrupted calls, end of file | every byte is transferred to its place once |
| Start-up (main.c, apple1.c, mem.c) | options, buffers and lengths, memories and their ranges, chips on the buses | `main`, `init_apple1`, `init_apple1_binary`, `init_mem`, `load_data`, `clock_connect` | results that are dropped | no machine runs that was not set up; every byte is where the memory map says |
| Debugger commands (debug.c, `print_disassembly`) | buses, registers | print, set, list | bus accesses outside the processor's cycles | printing changes nothing, setting changes one thing |

Build files, the licence, `test.rom` and `functional_test.patch` hold no logic of
the program.

## Modules

| module | models | role |
|---|---|---|
| `Alu` | `do_ORA` ... `do_ROR`, `update_flags_register`, `STATUS_*` | pure operators on bytes; `\|`, `&`, `^` are set operations on bit positions |
| `Opcodes` | `opcodes[]`, the `op_XX` structs | for each opcode the operation its handler performs and the `get_arg_*` it calls |
| `Microcode` | the handlers, `get_arg_*`, `branch`, `fetch`, `push_stack` | what one clock cycle does to the registers and buses; handlers of one shape share an operator |
| `Cpu` | `init_cpu`, `cpu_cycle`, `clock_cpu`, `clock_mem`, `cpu_crash`, F8 | the state machine of the processor with its RAM and the reset key |
| `Isa` | (the abstract specification) | the 6502 as its programmer sees it: one step per instruction or reset; opcodes are decoded by bit fields, independently of `Opcodes` |
| `CpuIsa` | | `Cpu` beside `Isa`: the refinement mapping and the documented cycle counts |
| `AluCheck` | | one operation of `Alu` against integer definitions |
| `Threads` | `boot_apple1`, `main_loop`, `clock_run`, `input_run`, `process_emulator_input`, `termination_handler`, `halt_apple1`, `init_pia`, `restore_term` | the three threads and SIGINT |
| `KeyChannel` | (an abstract specification) | what the keyboard promises a program: a channel of keys, in order, each once |
| `Pia` | `clock_pia`, `process_peripheral_A` and `_B`, the two tables, `input_run` | the input thread and the clock thread around the PIA's registers, and the row on the screen; implements `KeyChannel` |
| `PiaMC` | (the Apple I's monitor, external) | `Pia` below a program that does anything, or that echoes the keyboard |
| `Checkpoint` | (an abstract specification) | what F6, F7 and the debugger promise: a machine that is saved and taken back in one step |
| `Console` | F6 and F7 in `process_emulator_input`, `save_state`, `load_state`, `dump_file`, `load_dump`, `clock_run`'s flags, `print_value`, `set_value`, `print_disassembly`, `clock_mem` | everything that borrows the buses from the processor; implements `Checkpoint` |
| `Startup` | `main`, `load_file`, `init_apple1`, `init_apple1_binary`, `init_mem`, `load_data` | from the command line to a machine that runs |
| `Pacing` | `clock_run`'s sleep, `main_loop`'s correction, TAB, `tick_count` in `load_state` | how fast the machine runs |
| `CpuMC`, `CpuSweepMC`, `AluMC`, `ConsoleMC`, `StartupMC` | | the constants of the runs; `Threads` and `Pacing` are run as they are |
| `AluCheckProofs`, `CpuProofs`, `CpuIsaProofs`, `ThreadsProofs`, `PiaProofs`, `ConsoleProofs`, `StartupProofs`, `PacingProofs` | | lemmas, theorems and proofs |

The components meet in what they share.  `Microcode` and `Alu` are the operators
of `Cpu`, `Cpu` beside `Isa` is `CpuIsa`.  `Threads` decides who may clock the
machine at all and when; `Cpu`, `Pia` and `Console` look into one such period,
with the processor, the PIA or the input thread's F6 and F7 in detail and the
rest as any behaviour it may show.  `Startup` ends where `Threads` and `Cpu` begin.

### How state and steps correspond

**Cpu.**  `cpu` is a record with the fields of `M6502` and the two buses, `mem`
holds the bytes written so far over the constant `Image`, `phase` says where the
clock thread is within a tick.  A tick is two steps, because the input thread may
lower `reset_line` between them: `Sample` is the first half of `cpu_cycle`, which
tests RES; `Execute` is the rest of it and the access of `clock_mem` on the rising
phi2.  The opcode and the stage are `IR \div 8` and `IR % 8`, as in the code.  A
handler only puts addresses and bytes on the buses and lowers RW.  `Crash` is
`do_XX`: `cpu_crash` ends in a loop that waits for the cycle it is called from,
so `phase` stays `"crashed"`.  IRQ, NMI, RDY and SO are tied high by both
`init_*` functions and are left out; `tick_count` is for display.

**Isa.**  Its state is what a program can observe: A, X, Y, S, PC, the flags
without the two bits that are no flip-flops, and memory.  `CpuIsa` records that
part of `Cpu` at every opcode fetch in `retired`; `ImplementsIsa` is
`Program!Spec` with `machine <- retired`, so an instruction that changes a
register or a byte of memory that it should not, or too late, is an error.

**Threads.**  Every thread has a program counter; a step is one access to a shared
flag, one system call or one tick.  `EMULATOR_BREAK` and `halt_apple1` are two
steps each, since they write two flags.  A signal is `pending` for a thread, then
its handler runs in between two of its steps, the thread itself standing still
(`Free`).  `read` and `fgets` are interrupted by a signal only once they have been
entered (`InputEntersRead`, `EntersFgets`); one that comes just before leaves them
waiting for the user.  The processor is reduced to what the threads see of it: SYNC, whether a
key is taken, whether an unknown opcode is met.  The once-a-second speed
correction, the clock's `enabled` and `active` and the keys F6, F7, F8, F12, TAB
and the backquote change none of the modelled flags and are the key `"other"`:
`Console`, `Cpu`, `Pacing` and `Pia` have them.

**Pia.**  Both threads have a program counter.  `process_peripheral_A` is three
steps, since the input thread may come between its test of `data_ready`, its
translation of `pressed_key` and `data_ready = false`.  The program is any
sequence of bus cycles (`CpuCycle`).  `cursor`, which no variable of the program
holds, is where the terminal's cursor is; `received` is the last ready key the
program has read.  The refinement maps the keys on their way, in PA while the
ready bit is up and in `pressed_key` while `data_ready` is, to the queue of
`KeyChannel`.  A write to the data register or to CRA, and a read of the direction
register, drop or replace the key that waits: `KeyChannel` allows the program
itself to do that and nobody else.  A key without translation jams the channel:
`data_ready` never falls, and the input thread reads nothing more, F9 included.

**Console.**  `clock` is where the clock thread is in `clock_run` and `cpu_cycle`,
`console` where the input thread is in `process_emulator_input`, `save_state` and
`load_state`; each access to a flag, each address of the two sweeps and each call
of `write` or `read` is a step.  `R` stands for the registers, which a cycle of
the program changes in any way.  The PIA answers a read with anything, and what a
sweep does to it is not part of a checkpoint, as in the code, which saves none of
its registers: a key that waits while F6 is pressed is lost, and F7 writes 64K
bytes to the machine, the PIA's four registers included.  Neither handshake
excludes the window between the test of `enabled` and `active = true`
(clock.c:55): a cycle may begin there after F6 has seen the clock at rest.
`spoiled` records that an operation began in the window, or that print or list
found the read line low, when they store the data bus where they look
(debug.c:60); until then `ImplementsCheckpoint` holds.  The debugger's commands are
steps of the main thread when the clock thread has ended.

**Startup.**  One step per call of `open` or `read`; a byte is `<<file, place>>`, so
that a byte in the wrong place shows.  Lengths are `int` in main and `size_t` in
`load_data`: `size_t` and `uint16_t` are conversions modulo `SIZE` and `MEMSIZE`.
A `memcpy` of a negative length is `pc = "crashed"`, and so is booting a processor
whose reset line was never connected.

**Pacing.**  `Advance` moves time by one unit, of any number of nanoseconds, and no
thread that is due waits; `GRANULARITY` units are a step of `clock_adjust`; times
are kept modulo a second, because `clock_run` uses `tv_nsec` only.  `nanosleep` may
wake up to `OVERSLEEP` units later than it was asked to, in a slow second by any of
`SLOW` (`Sleeps`).  No batch notices, since `begin` is read after the sleep
(clock.c:67): it is what the correction is for.  `passed` is `cpu.tick_count - start_ticks`, `Huge` when the
subtraction wraps or `start_ticks` has lost upper bits.

## Runs

| run | module | expected | bounds | what it shows |
|---|---|---|---|---|
| `isa` | CpuSweepMC | pass | 256 opcodes x 65 combinations of registers, flags, operands and PC, one instruction each; one opcode of every shape followed for three instructions with two presses of the reset key anywhere | `ImplementsIsa`, `CycleAccurate`, `StageBound`, `FetchCoherent`, `TypeOK` |
| `cpu_program` | CpuMC | pass | a looping program that a reset can lead to an unknown opcode, unbounded time and presses | `InstructionsEnd`, `ResetServed`, `ResetSequenceNeverWrites` |
| `alu` | AluMC | pass | 256 accumulators x 24 operands x 8 flag settings x 11 operations | the five properties of `AluCheck` |
| `threads` | Threads | pass | all keys and commands, two Ctrl-C, unknown opcodes | `OthersJoined`, `OneTicker`, `TerminalMode`, `TypeOK`; `InterruptHalts`, `BreakStops`, `QuitHalts`, `ContinueResumes`, `StepEnds` |
| `pia` | PiaMC | pass | five keys (a letter, return, one without translation, the backquote, escape), rows of 2, any program on one side or a monitor with 3 characters typed | `ImplementsChannel`, `EchoInOrder`, `KeysShown`, `ColumnBound`, `IInv` |
| `console` | ConsoleMC | pass | one byte each of RAM, PIA and ROM, two register values, a file of two pieces | `ImplementsCheckpoint`, `AloneOnBus`, `Resumes`, `IInv` |
| `startup` | StartupMC | pass | 16 addresses with every chip, four file sizes, five -m, four -l | `MemoryMap`, `Starts`, `IInv` |
| `pacing` | Pacing | pass | a second of 16 units with 4 cycles, sleeps up to a unit too long, one slow second, turbo or load | `Paced`, `Settles` |
| `reset_lost`, `break_quits`, `crash_hangs`, `read_missed` | CpuMC, Threads | violation | | one finding each, below |

**Bounds.**  The sweep takes every opcode but not every operand: the registers and
operands are chosen so that each addressing mode crosses a page and does not,
wraps in page zero and does not, reaches both ends of the stack, branches both
ways, and executes across the end of the address space; memory has a different
byte at neighbouring addresses, so a wrong address shows.  One instruction is
enough because between two fetches nothing but the recorded state is carried
over (the AD register and the stage are set anew by every handler).  In `alu`
decimal digits, signs and all-ones bytes are among the operands with every
accumulator.  In `isa` two presses are enough for a press during the reset
sequence that an earlier one started.  In `threads` `MaxInterrupts = 2` lets two
threads be in the signal handler at once, beside main's own SIGINT; the theorems
need no such bound.

In `pia` the keys are one of each kind that `input_run` and the tables tell apart,
and the two sides of the PIA share nothing but the bus, so that a program is
free on one side at a time; three keys fill both places of the channel and leave
one to be refused, and `MAX_COLUMNS = 2` makes a full row of two characters.  In
`console` there is one address for each kind of chip, which is what the sweeps and
list tell apart, in the order that lets the PIA's answer and the ROM's meet RAM
again when list wraps around; a file of two pieces can be whole, half written
and empty.  `Repeats = FALSE` stops F6 and F7 after an operation that was spoiled,
of which the properties say nothing anyhow.  In `startup` the map keeps the order
and the gaps of the real one, files are empty, fit exactly, or are one byte too
long for one of the memories, and -m is 0, small, the maximum, one more, and -1.
In `pacing` a step of the correction is an eighth of a batch's budget instead of a
tenth, every sleep may take a step too long, and a trouble, a second in which
cycles and sleeps take up to almost a second, comes once: these constants leave
the room that `ClockPaced` asks for, with 2 for `steady` and `least`.  Of the two
batches in so small a second the one in which the second changes may get no sleep,
so the speed comes back again and again rather than for good, which is how
`Settles` puts it.  `MaxLead` stops time when the counter has outgrown 32 bits for
some seconds.

**Fairness.**  `Cpu!FairSpec`: the clock thread does not stop between cycles
(`clock_run` has no wait but `nanosleep`).  `Threads!FairSpec`: each thread that
can run does run and each pending signal is delivered, which the kernel's
scheduler gives; nothing makes the user type or press Ctrl-C.  `TypingSpec` adds
that a `read` gets a key at last.  It is what BreakStops, ContinueResumes and
InterruptHalts need: without it the lost wake-up (`read_missed`) leaves `main`
waiting for ever, as the code does.  `PiaMC!MCFairSpec`: the clock thread runs; the
input thread needs no fairness, because a key that has reached `data_ready` is no
longer its business.  `Console!FairSpec`: both threads run, and the file system
answers every call at last.  `Startup!FairSpec`: calls of the system return; that
`EINTR` does not repeat for ever is part of it, since `Read` stays possible.
`Pacing!FairSpec`: time goes on and what is due happens.

Deadlock is not checked where the system stops: the emulator has ended or waits
for the user (`threads`, `startup`), the bound on instructions is reached (`isa`),
the one operation is done (`alu`), or `MaxLead` stops time (`pacing`).  It is
checked in `cpu_program`, `pia` and `console`.

**Limits of the properties.**  Some name a case in which the code does not do
better, so that what they say is true of it.  `InterruptHalts` covers the running
emulator and the head of the debugger's loop, a Ctrl-C between its `poweroff =
false` and the prompt included, but not the rest of the debugger, and may end in
F9; `ContinueResumes` and `StepEnds` promise nothing
once Ctrl-C has been pressed, and those of `Threads` but `QuitHalts` nothing after
an unknown opcode has stopped the clock thread (`crash_hangs`).  `Resumes` excepts
a savestate that is too short: `load_dump` then reads 0 bytes for ever
(m6502.c:427).  `Starts` excepts a file that came in more than one read, after
which `load_file` asks for the whole size again and never gets it (main.c:82), and
lets the program crash after a binary that could not be read (main.c:184), memory
that could not be had and a too large -m (main.c:194), whose results nobody tests.
`MemoryMap` accepts a memory full of zeroes for a file that is too long
(apple1.c:112) and RAM in the whole address space for `-m 0` (apple1.c:96).

**What else pacing does.**  `Paced` and `Settles` hold around `MaxTrouble` bad
seconds, not after whatever came before: one in the run, two with the numbers of
the code (under Proofs).  What sleeps take too long uses up part of the same
budget.  If
the host is slow for as many seconds as the budget of a batch has units of
correction (ten in the code), `clock_adjust` plus the time of a batch is more than
the budget; a batch in which the second changes then sleeps for almost a second
(clock.c:65 leaves the seconds out), that second counts as too slow, and the
correction grows instead of coming back: with `MaxTrouble` large enough both
properties fail, and the speed jumps between full and almost zero for ever.
Beyond 2^32 cycles (71 minutes) `start_ticks` loses its upper bits, every second
looks too fast and the machine is slowed down without end.  No document says
otherwise, so neither is a finding.

## Findings

Each is a run whose property states what a comment or a message of the program
says and which TLC finds violated.

| run | the code | what it says |
|---|---|---|
| `crash_hangs` | `cpu_crash` calls `save_state`, which waits for `cpu->active` to fall, in the cycle that has raised it | apple1.c:138 "If the CPU stops, shut the rest of the stuff down" |
| `break_quits` | main's SIGINT to the input thread runs `halt_apple1` there if the thread still lives; `debug_mode` is cleared and F9 ends the emulator | apple1.c:279 "F9: Break to debugger" |
| `read_missed` | a SIGINT between the test of the stop flag and `read` interrupts nothing | apple1.c:322 "so that the read syscall gets interrupted" |
| `reset_lost` | a BRK instruction raises the reset line in its fourth cycle even if the key has just lowered it | apple1.c:278 "F8: Reset" |

Four more disagreements between the code and a comment are visible in the models
but have no run of their own:

- apple1.c:346: a Ctrl-C between `while(debug_mode)` and `poweroff = false` is half
  undone, and the machine resumes after the next command; apple1.c:413 says that
  the loop is left by a continue or by a break with `poweroff = true`.  One between
  `poweroff = false` and `fgets` does end the emulator, but after the next command.
- apple1.c:230: `next` loops until SYNC, which never comes once Ctrl-C has set
  `poweroff`; apple1.c:285 says "Step clock until the next instruction fetch".
- m6502.c:48: the shortcut of `(zpg),Y` tests the whole address, not its low byte,
  so it saves a cycle in page zero only; m6502.c:49 says "if we're on the same page
  already, 1 less cycle".  `CycleAccurate` therefore lets such a read take either.
- m6502.c:263: decimal SBC does not clear V; m6502.c:291 says that "Overflow,
  Negative and Zero flags behave the same for binary and decimal mode".

## Proofs

TLAPS checks the following for all values of the constants.

| theorem | states |
|---|---|
| `CpuProofs!CpuTypeOK` | `Spec => []TypeOK`: registers, buses and IR keep their widths |
| `CpuProofs!StagesBounded` | `Spec => []StageBound`: no handler runs past its last stage |
| `CpuProofs!FetchesCoherent` | `Spec => []FetchCoherent`: the opcode taken is the byte at PC |
| `CpuProofs!ResetWritesNothing` | `Spec => ResetSequenceNeverWrites` |
| `CpuIsaProofs!TableDecodes` | `opcodes[]` is what the bits of the opcodes say, entry by entry |
| `CpuIsaProofs!ProcessorFollows` | `FollowSpec => []FollowInv`: where every instruction stands after every cycle |
| `CpuIsaProofs!CpuImplementsIsa` | `FollowSpec => ImplementsIsa`: cycle by cycle, `Cpu` implements `Isa`, for every memory image and every start |
| `CpuIsaProofs!CyclesDocumented` | `FollowSpec => CycleAccurate`: every instruction takes its documented clock cycles, for every memory image and every start |
| `ThreadsProofs!ThreadsTypeOK` | `Spec => []TypeOK` |
| `ThreadsProofs!DebuggerAlone` | `Spec => []OthersJoined` |
| `ThreadsProofs!TicksExclusive` | `Spec => []OneTicker` |
| `ThreadsProofs!TerminalRestored` | `Spec => []TerminalMode` |
| `AluCheckProofs!AdditionHolds`, `SubtractionHolds`, `DecimalHolds`, `ComparisonsHold`, `BitOperationsHold` | `Spec => []P` for the five properties of `AluCheck`, so for every accumulator, operand and status |
| `PiaProofs!PiaInvariant` | `Spec => []IInv`: `pressed_key` has one owner at a time |
| `PiaProofs!RowsFit` | `Spec => []ColumnBound` |
| `PiaProofs!ChannelImplemented` | `Spec => ImplementsChannel`: the PIA and its two threads implement `KeyChannel`, whatever the program does |
| `PiaProofs!KeysInFlight` | `MCSpec => [](IInv /\ MonitorInv)`: what was typed is what is shown and the keys on their way |
| `PiaProofs!EchoesInOrder` | `MCSpec => []EchoInOrder`, for every set of keys and however the threads interleave |
| `ConsoleProofs!ConsoleInvariant` | `Spec => []IInv` |
| `ConsoleProofs!BusesAreBorrowed` | `Spec => []AloneOnBus` |
| `ConsoleProofs!CheckpointImplemented` | `Spec => ImplementsCheckpoint`, for every memory map, set of registers and file size |
| `StartupProofs!StartupInvariant` | `Spec => []IInv` |
| `StartupProofs!MemoryIsMapped` | `Spec => []MemoryMap`, for every address map and all files |
| `PacingProofs!CorrectionBounded` | `Spec => []IInv(steady, least)`: a bad second costs at most three corrections, whatever it was |
| `PacingProofs!ClockPaced` | `Spec => []Paced`, for all speeds, batches, granularities, slow cycles and oversleeps that leave room |

**Assumptions.**  For `Cpu`: `Image` maps words to bytes; `Handler`, the decode
table, gives each opcode an operation with an addressing mode that goes with it
(`Handlers`), and BRK at opcode 0, which is what a reset loads into IR.  The code's
own table satisfies both (TLC evaluates them with `Handler <- opcodes`).
`ProcessorFollows`, `CpuImplementsIsa` and `CyclesDocumented` are about that table,
`Handler = opcodes`; of the starts they ask only that registers and bytes fit
(`StartsAssumption`).  For
`Threads`: the keys and commands are among those modelled.  For `AluCheck`:
accumulators and operands are bytes.  For `Pia`: keys are bytes, accesses are bus
cycles, a row has at least one column.  For `Console`: RAM, ROM and PIA are disjoint
parts of the address space, there is a register value and a byte, and a list is
no longer than the address space.  For `Startup`: the chips of the Apple I lie in
the order of apple1.h, files and addresses are small against `size_t`, errors are
negative numbers small against it, too.  For `Pacing`: a batch of `FAST` cycles fits
in its budget and a budget in a second, and the theorems ask for `Room(steady,
least)`: three steps of the correction for each of the `MaxTrouble` bad seconds, one
more, and `steady`, the correction at which a second makes up for what its sleeps
take too long and for the batch it cuts off, fit in what a batch leaves, and a slow
cycle or sleep does not last longer than a second (longer ones are several bad
seconds).  With the numbers of the code, a budget of 1 ms, steps of 0.1 ms and a
cycle in 50 ns, `steady` is a little more than what a sleep takes too long; if that
is at most 0.1 ms, there is room for two bad seconds.

**Argument for Cpu.**  That IR fits in eleven bits cannot be proved alone: `IR++`
stays within an opcode only while the stage is below 7, which is `StageBound`;
and `StageBound` needs that every handler, from every stage it has, either
fetches or goes on to a stage it has (`Advances`, one lemma per handler shape,
the extra IR++ of the indexed modes included).  `FetchCoherent`
follows because a handler that raises SYNC leaves RW high and PC on the address
bus, so the memory access that ends the cycle is the opcode read and changes no
byte.  The invariant is `IInv == TypeOK /\ StageBound /\ FetchCoherent`.
It begins with the types of the bitwise and arithmetic operators of `Alu`.

**Argument for the refinement of Isa.**  `ImplementsIsa` says nothing between two
fetches; the invariant has to.  `Midway(s, c, m)` relates `retired`, the machine of
Isa at the last fetch, to the processor and the memory in the middle of the
instruction: which of its bytes have been read, what AD and the data bus hold,
what has been pushed, pulled or stored.  Every shape of instruction has its own
account of its stages, and one lemma per shape shows that a cycle leads from the
account of stage k to that of the next one, or, when `get_arg_*` leaves a cycle
out, of the one after it, and that the last cycle leaves what `Executed` of Isa
computes (`ArgStep`, `ReadStep`, `StoreStep`, `BranchStep`, `CallStep`, ...).  That a
handler's operation is the one Isa decodes is `TableDecodes`; that it computes the
same flags is `ReadVisible` and its neighbours, which look through the two status
bits Isa does not have.  A reset is why the account of BRK is a disjunction: it
turns IR to 0 in the middle of any instruction, or of a BRK whose pushes have
begun, and Isa leaves open how much such a reset has pushed.

**Argument for the clock cycles.**  Beside `FollowInv`, `Counting` relates the count
to the stage in IR: they are equal, or the count is one less in the last stage of a
read whose indexed address has crossed no page, where `get_arg_*` has left a cycle
out (`Taking`).  `ReadTaking`, `BranchTaking` and `SteadyTaking` keep it through a cycle
of the three kinds of handlers: those that may leave a cycle out, those that may
end early, and all others, whose stage goes up by one until the last
(`RunSteady`).  What is documented is then compared with the last stage
(`DocumentedReads`, `DocumentedBranches`, `DocumentedOthers`).  That `Counting` holds was
first checked by TLC on the starts of run `isa`.

**Argument for Threads.**  None of the three invariants is inductive.  `Joined`
ties the threads that may live to where `main` is.  `Breaking` says that as long
as `debug_mode` is set and the input thread lives, it reads no further key, so it
never ticks the clock for F10.  `Cooked` says that the mode saved by `init_pia`
is always the user's own and follows the terminal mode through `restore_term`.

**Argument for the arithmetic.**  `IInv` of `AluCheckProofs` says that what was
computed is the operation applied to a byte and a status.  The rest is arithmetic
on bytes: the overflow formulas are the signed ranges, digit by digit decimal
sums are sums modulo 100 (`DecimalAddition`, `DecimalSubtraction`), a byte is the
sum of its bits (`ByteOfBits`), so that unions and intersections of bits have the
sums of bytes (`BitSums`).

**Argument for Pia.**  `Handshake` is the ownership that the unlocked flag gives:
while the input thread reads or decides, `data_ready` is down; while the clock
thread translates, it is up and the ready bit is down; between the two stores of
the hand-over PA already holds the key.  With it each step of the threads is a
step of `KeyChannel` or leaves the queue alone (`LatchMaps`, `ClearMaps`, `TypesMaps`,
...).  For the rows, `cursor <= current_col`: `clear_screen` only moves the cursor
back.

For the echo, `Place` says at each step of the monitor what it has put on the bus,
that CRA is 39 or 167 once it is set up, so that only its own reads lower the
ready bit, and that PB holds a character only from the monitor's write to the
display's next look at it.  `MonitorInv` is then that `typed` is `shown` and three
places behind it: the data bus or PB, PA, `pressed_key`; every step moves a key from
one place to an empty one.

**Argument for Console.**  `Alone` ties the four flags to the threads' places, and
`AloneOnBus` follows by induction over both handshakes; alone on the buses,
`Progress` says up to which address buffer and RAM agree and which of the buses
the buffer still keeps.  The refinement mapping reads the buffer for the machine
while the buses are borrowed, so that sweeps are stutters, the last `write` is
Save and the last `read` is Load.

**Argument for Startup.**  `Buffers` follows `load_file` read by read: what has been
read is in its place and `data_pos` never passes the size, because the last read
cannot have been longer than what was left.  A length that is not negative then
means a whole file, which is what `load_data` copies; the order in which the chips
are connected to phi2 decides who is seen where two of them answer.

**Argument for Pacing.**  Whether the correction goes up depends on how many cycles
the second will have had at its end.  `OnCourse` says it beforehand: a batch with
its sleep takes at most `BUDGET + OVERSLEEP - clock_adjust`, and what the counted cycles are worth, how
far the present batch is ahead of them (`Ahead`) and what is left of the second
never fall below their sum from step to step; `SlowWhenSmall` concludes that a second which
is on course and still too slow had a correction below `steady`.  What disturbs a
second is paid for by `trouble`, three corrections each: the second itself, the
next one, because the batch that goes on has an old `begin`, and one more, because
such a batch may end in a sleep of almost a second (clock.c:65 leaves the seconds
out), or of two where the host is slow.  `Debts` counts those still to come.
`IInv(2, 2)` was first checked by TLC with the constants of run `pacing`.

**Only model-checked.**  Everything about liveness (`InstructionsEnd`, `ResetServed`,
`InterruptHalts`, `BreakStops`, `QuitHalts`, `ContinueResumes`, `StepEnds`, `KeysShown`,
`Resumes`, `Starts` and `Settles`), which is out of the prover's reach.  Every other
property of a passing run is the statement of a theorem.

## Not modelled

- `step` and `next` of the debugger between two commands of `Console`: they are
  cycles like those of the clock thread, and `Threads` has their control flow.  What
  `set PC` in the middle of an instruction makes of it (debug.c:127) would need the
  debugger beside `Cpu`; no document says what it should do.
- The `breakpoint` commands only print "TODO"; `read_arg`, `parse_hex` and
  the text of the disassembly and of messages are formatting.
- A failure of `pthread_create`, `pthread_join` and `sigaction`, and of one
  `init_mem` after another has succeeded: `memory` is all or nothing.
- IRQ, NMI, RDY and SO, which both machines tie high.
- That a byte access of one chip is seen half done by another thread; flags and
  bytes are read and written whole on every machine the program is built for.
- The C library, termios beyond raw and cooked, the build, `functional_test.patch`
  and `test.rom`.
