------------------------------ MODULE Threads ------------------------------
(***************************************************************************)
(* The life of the emulator's three threads (apple1.c, clock.c, pia6821.c, *)
(* main.c): the main thread, which starts the two others in main_loop,     *)
(* joins them and becomes the debugger; the clock thread, which drives the *)
(* machine; the input thread, which reads the keyboard.  They share the    *)
(* flags poweroff and debug_mode without any lock, and SIGINT, from the    *)
(* user's Ctrl-C or from main_loop itself, changes both flags in whatever  *)
(* thread it is delivered to.                                              *)
(*                                                                         *)
(* Each thread has a program counter; a step is one access to the shared   *)
(* flags, one system call, or one tick of the clock.  The processor is     *)
(* only as detailed as the debugger needs it: whether SYNC is up.          *)
(***************************************************************************)
EXTENDS Naturals

CONSTANTS
  Keys,             \* what the user types while the machine runs
  Commands,         \* what the user types at the debugger prompt
  MaxInterrupts,    \* how often the user presses Ctrl-C
  IllegalOpcodes    \* whether the program may reach an opcode without handler

AllKeys == {"char", "untranslatable", "continue", "break", "step", "other"}
AllCommands == {"next", "step", "continue", "quit", "other", "eof"}

ASSUME ThreadsAssumption ==
  /\ Keys \subseteq AllKeys
  /\ Commands \subseteq AllCommands
  /\ MaxInterrupts \in Nat
  /\ IllegalOpcodes \in BOOLEAN

VARIABLES
  main,          \* program counters of the main thread,
  input,         \* the input thread
  clock,         \* and the clock thread
  poweroff, debug_mode,
  data_ready,    \* the key that waits for the PIA, or "none"
  key,           \* the key that the input thread is handling
  command,       \* the last command given to the debugger
  term,          \* the mode the terminal is in
  orig_termios,  \* the mode that restore_term goes back to
  SYNC,          \* the processor's SYNC line
  pending,       \* threads with a SIGINT not delivered yet
  handler,       \* where each thread is in termination_handler
  interrupts     \* Ctrl-C pressed so far

flags    == <<poweroff, debug_mode>>
terminal == <<term, orig_termios>>
signals  == <<pending, handler, interrupts>>
vars == <<main, input, clock, poweroff, debug_mode, data_ready, key, command,
          term, orig_termios, SYNC, pending, handler, interrupts>>

Thread == {"main", "input", "clock"}

MainPc  == {"boot", "init_pia", "create_input", "create_clock", "control", "kill",
            "join_clock", "join_input", "dbg_loop", "dbg_on", "prompt", "fgets",
            "command", "tick", "ticked", "crashed", "done"}
InputPc == {"none", "loop", "ready", "entering", "read", "key", "breaking", "tick",
            "restore", "exited"}
ClockPc == {"none", "loop", "tick", "exited", "crashed"}

Alive(t) == CASE t = "main"  -> main # "done"
              [] t = "input" -> input \notin {"none", "exited"}
              [] t = "clock" -> clock \notin {"none", "exited"}

(* A thread makes no step of its own while it is in the handler. *)
Free(t) == handler[t] = "idle"

----------------------------------------------------------------------------
Init ==
  /\ main = "boot" /\ input = "none" /\ clock = "none"
  /\ poweroff = FALSE /\ debug_mode = FALSE
  /\ data_ready = "none" /\ key = "other" /\ command = "other"
  /\ term = "cooked" /\ orig_termios = "cooked"
  /\ SYNC = TRUE
  /\ pending = {} /\ handler = [t \in Thread |-> "idle"] /\ interrupts = 0

----------------------------------------------------------------------------
(* One clock cycle in the thread whose counter is pc, and what the program *)
(* may do in it: take a key that it can read, meet an unknown opcode.  A   *)
(* stopped processor does nothing (cpu_cycle).  cpu_crash stops it and     *)
(* then waits, in save_state, for the cycle it is in itself to end.        *)
Ticks(crashed, after) ==
  \/ /\ poweroff
     /\ after
     /\ UNCHANGED <<poweroff, SYNC, data_ready>>
  \/ /\ ~poweroff
     /\ SYNC' = ~SYNC
     /\ \/ UNCHANGED data_ready
        \/ data_ready = "char" /\ data_ready' = "none"
     /\ after
     /\ UNCHANGED poweroff
  \/ /\ ~poweroff /\ SYNC /\ IllegalOpcodes
     /\ poweroff' = TRUE
     /\ SYNC' = FALSE
     /\ crashed
     /\ UNCHANGED data_ready

----------------------------------------------------------------------------
(* The main thread: boot_apple1, main_loop and its debugger.               *)

MainGoes(from, to) == main = from /\ Free("main") /\ main' = to

(* while(!poweroff) of boot_apple1; at the end main returns and atexit     *)
(* runs restore_term.                                                      *)
Boot ==
  /\ MainGoes("boot", IF poweroff THEN "done" ELSE "init_pia")
  /\ term' = IF poweroff THEN orig_termios ELSE term
  /\ UNCHANGED <<input, clock, flags, data_ready, key, command, orig_termios, SYNC, signals>>

InitPia ==
  /\ MainGoes("init_pia", "create_input")
  /\ orig_termios' = term
  /\ term' = "raw"
  /\ UNCHANGED <<input, clock, flags, data_ready, key, command, SYNC, signals>>

CreateInput ==
  /\ MainGoes("create_input", "create_clock")
  /\ input' = "loop"
  /\ UNCHANGED <<clock, flags, data_ready, key, command, terminal, SYNC, signals>>

CreateClock ==
  /\ MainGoes("create_clock", "control")
  /\ clock' = "loop"
  /\ UNCHANGED <<input, flags, data_ready, key, command, terminal, SYNC, signals>>

(* while(!poweroff) sleep(1); what it does every second is in no flag.     *)
Control ==
  /\ poweroff
  /\ MainGoes("control", "kill")
  /\ UNCHANGED <<input, clock, flags, data_ready, key, command, terminal, SYNC, signals>>

(* pthread_kill(input_thread, SIGINT): nothing if it has ended. *)
Kill ==
  /\ MainGoes("kill", "join_clock")
  /\ pending' = IF Alive("input") THEN pending \cup {"input"} ELSE pending
  /\ UNCHANGED <<input, clock, flags, data_ready, key, command, terminal, SYNC,
                 handler, interrupts>>

(* A defect: main does not wait for the clock thread. *)
JoinClockAtOnce ==
  /\ MainGoes("join_clock", "join_input")
  /\ UNCHANGED <<input, clock, flags, data_ready, key, command, terminal, SYNC, signals>>

JoinClock ==
  /\ ~Alive("clock")
  /\ MainGoes("join_clock", "join_input")
  /\ UNCHANGED <<input, clock, flags, data_ready, key, command, terminal, SYNC, signals>>

(* A defect: main does not wait for the input thread. *)
JoinInputAtOnce ==
  /\ MainGoes("join_input", "dbg_loop")
  /\ UNCHANGED <<input, clock, flags, data_ready, key, command, terminal, SYNC, signals>>

JoinInput ==
  /\ ~Alive("input")
  /\ MainGoes("join_input", "dbg_loop")
  /\ UNCHANGED <<input, clock, flags, data_ready, key, command, terminal, SYNC, signals>>

(* while(debug_mode) of main_loop *)
DebuggerLoop ==
  /\ MainGoes("dbg_loop", IF debug_mode THEN "dbg_on" ELSE "boot")
  /\ UNCHANGED <<input, clock, flags, data_ready, key, command, terminal, SYNC, signals>>

(* A defect: poweroff is not cleared again. *)
DebuggerOnStopped ==
  /\ MainGoes("dbg_on", "prompt")
  /\ UNCHANGED <<input, clock, flags, data_ready, key, command, terminal, SYNC, signals>>

(* poweroff = false, "so that the CPU can work whenever we clock it" *)
DebuggerOn ==
  /\ MainGoes("dbg_on", "prompt")
  /\ poweroff' = FALSE
  /\ UNCHANGED <<input, clock, debug_mode, data_ready, key, command, terminal, SYNC, signals>>

(* From here a signal interrupts the call; one that came before does not. *)
EntersFgets ==
  /\ MainGoes("prompt", "fgets")
  /\ UNCHANGED <<input, clock, flags, data_ready, key, command, terminal, SYNC, signals>>

Fgets ==
  /\ MainGoes("fgets", "command")
  /\ command' \in Commands
  /\ UNCHANGED <<input, clock, flags, data_ready, key, terminal, SYNC, signals>>

(* A defect: quit ends the debugger only. *)
CommandQuitsDebugger ==
  /\ main = "command" /\ Free("main")
  /\ main' = IF command \in {"next", "step"} /\ debug_mode THEN "tick" ELSE "dbg_loop"
  /\ debug_mode' = (debug_mode /\ command \notin {"continue", "quit", "eof"})
  /\ UNCHANGED <<input, clock, poweroff, data_ready, key, command, terminal, SYNC, signals>>

(* process_emulator_input steps in debug_mode only. *)
Command ==
  /\ main = "command" /\ Free("main")
  /\ \/ /\ command \in {"next", "step"}
        /\ main' = IF debug_mode THEN "tick" ELSE "dbg_loop"
        /\ UNCHANGED flags
     \/ command = "continue" /\ main' = "dbg_loop" /\ debug_mode' = FALSE /\ UNCHANGED poweroff
     \/ command = "quit" /\ main' = "boot" /\ poweroff' = TRUE /\ UNCHANGED debug_mode
     \/ command = "other" /\ main' = "dbg_loop" /\ UNCHANGED flags
     \/ command = "eof" /\ main' = "dbg_loop" /\ poweroff' = TRUE /\ debug_mode' = FALSE
  /\ UNCHANGED <<input, clock, data_ready, key, command, terminal, SYNC, signals>>

DebuggerTick ==
  /\ main = "tick" /\ Free("main")
  /\ Ticks(main' = "crashed", main' = "ticked")
  /\ UNCHANGED <<input, clock, debug_mode, key, command, terminal, signals>>

(* A defect: next does not stop at an opcode fetch. *)
DebuggerTickedOn ==
  /\ MainGoes("ticked", IF command = "next" THEN "tick" ELSE "dbg_loop")
  /\ UNCHANGED <<input, clock, flags, data_ready, key, command, terminal, SYNC, signals>>

(* next: while(!cpu.SYNC) *)
DebuggerTicked ==
  /\ MainGoes("ticked", IF command = "next" /\ ~SYNC THEN "tick" ELSE "dbg_loop")
  /\ UNCHANGED <<input, clock, flags, data_ready, key, command, terminal, SYNC, signals>>

MainStep ==
  \/ Boot \/ InitPia \/ CreateInput \/ CreateClock \/ Control \/ Kill \/ JoinClock
  \/ JoinInput \/ DebuggerLoop \/ DebuggerOn \/ EntersFgets \/ Command \/ DebuggerTick
  \/ DebuggerTicked

----------------------------------------------------------------------------
(* The clock thread: clock_run. *)

(* A thread gets the signals sent to it before it ends. *)
ClockLoop ==
  /\ clock = "loop" /\ Free("clock")
  /\ \/ ~poweroff /\ clock' = "tick"
     \/ poweroff /\ "clock" \notin pending /\ clock' = "exited"
  /\ UNCHANGED <<main, input, flags, data_ready, key, command, terminal, SYNC, signals>>

ClockTick ==
  /\ clock = "tick" /\ Free("clock")
  /\ Ticks(clock' = "crashed", clock' = "loop")
  /\ UNCHANGED <<main, input, debug_mode, key, command, terminal, signals>>

ClockStep == ClockLoop \/ ClockTick

----------------------------------------------------------------------------
(* The input thread: input_run. *)

InputGoes(from, to) == input = from /\ Free("input") /\ input' = to

(* while(!*stop) *)
InputLoop ==
  /\ InputGoes("loop", IF poweroff THEN "restore" ELSE "ready")
  /\ UNCHANGED <<main, clock, flags, data_ready, key, command, terminal, SYNC, signals>>

(* "Don't read until the CPU has consumed the previous one" *)
InputReady ==
  /\ InputGoes("ready", IF data_ready # "none" THEN "loop" ELSE "entering")
  /\ UNCHANGED <<main, clock, flags, data_ready, key, command, terminal, SYNC, signals>>

(* From here a signal interrupts the call. *)
InputEntersRead ==
  /\ InputGoes("entering", "read")
  /\ UNCHANGED <<main, clock, flags, data_ready, key, command, terminal, SYNC, signals>>

InputRead ==
  /\ InputGoes("read", "key")
  /\ key' \in Keys
  /\ UNCHANGED <<main, clock, flags, data_ready, command, terminal, SYNC, signals>>

(* A defect: the function keys too end in data_ready = true. *)
InputKeyFallsThrough ==
  /\ input = "key" /\ Free("input")
  /\ data_ready' = key
  /\ input' = "loop"
  /\ UNCHANGED <<main, clock, flags, key, command, terminal, SYNC, signals>>

(* process_emulator_input, or a key for the Apple I.  F10 would tick here, *)
(* but only in debug_mode, and OneTicker says it never gets that far.      *)
InputKey ==
  /\ input = "key" /\ Free("input")
  /\ \/ /\ key \in {"char", "untranslatable"}
        /\ data_ready' = key /\ input' = "loop" /\ UNCHANGED debug_mode
     \/ /\ key = "continue"
        /\ debug_mode' = FALSE /\ input' = "loop" /\ UNCHANGED data_ready
     \/ /\ key = "break"
        /\ debug_mode' = TRUE /\ input' = "breaking" /\ UNCHANGED data_ready
     \/ /\ key = "step"
        /\ input' = IF debug_mode THEN "tick" ELSE "loop"
        /\ UNCHANGED <<debug_mode, data_ready>>
     \/ key = "other" /\ input' = "loop" /\ UNCHANGED <<debug_mode, data_ready>>
  /\ UNCHANGED <<main, clock, poweroff, key, command, terminal, SYNC, signals>>

(* A defect: F9 does not stop the clock. *)
InputBreaksRunning ==
  /\ InputGoes("breaking", "loop")
  /\ UNCHANGED <<main, clock, flags, data_ready, key, command, terminal, SYNC, signals>>

(* The second assignment of EMULATOR_BREAK. *)
InputBreaks ==
  /\ InputGoes("breaking", "loop")
  /\ poweroff' = TRUE
  /\ UNCHANGED <<main, clock, debug_mode, data_ready, key, command, terminal, SYNC, signals>>

(* A defect: the thread ends without restore_term. *)
InputExitsRaw ==
  /\ "input" \notin pending
  /\ InputGoes("restore", "exited")
  /\ UNCHANGED <<main, clock, flags, data_ready, key, command, terminal, SYNC, signals>>

(* restore_term and pthread_exit *)
InputRestores ==
  /\ "input" \notin pending
  /\ InputGoes("restore", "exited")
  /\ term' = orig_termios
  /\ UNCHANGED <<main, clock, flags, data_ready, key, command, orig_termios, SYNC, signals>>

InputStep ==
  \/ InputLoop \/ InputReady \/ InputEntersRead \/ InputKey \/ InputBreaks
  \/ InputRestores

----------------------------------------------------------------------------
(* SIGINT. *)

(* Ctrl-C: the kernel gives the signal to one of the process's threads. *)
Interrupt ==
  /\ interrupts < MaxInterrupts
  /\ \E t \in Thread : Alive(t) /\ pending' = pending \cup {t}
  /\ interrupts' = interrupts + 1
  /\ UNCHANGED <<main, input, clock, flags, data_ready, key, command, terminal, SYNC, handler>>

(* No SA_RESTART: the blocked read and fgets of the thread fail with EINTR *)
(* and their loops start again.                                            *)
Deliver(t) ==
  /\ t \in pending /\ Free(t)
  /\ pending' = pending \ {t}
  /\ handler' = [handler EXCEPT ![t] = "poweroff"]
  /\ main' = IF t = "main" /\ main = "fgets" THEN "dbg_loop" ELSE main
  /\ input' = IF t = "input" /\ input = "read" THEN "loop" ELSE input
  /\ UNCHANGED <<clock, flags, data_ready, key, command, terminal, SYNC, interrupts>>

(* A defect: the handler leaves poweroff alone. *)
HaltDebugger(t) ==
  /\ handler[t] = "poweroff"
  /\ handler' = [handler EXCEPT ![t] = "debug_mode"]
  /\ UNCHANGED <<main, input, clock, flags, data_ready, key, command, terminal, SYNC,
                 pending, interrupts>>

(* halt_apple1: poweroff = true; debug_mode = false *)
HaltPoweroff(t) ==
  /\ handler[t] = "poweroff"
  /\ poweroff' = TRUE
  /\ handler' = [handler EXCEPT ![t] = "debug_mode"]
  /\ UNCHANGED <<main, input, clock, debug_mode, data_ready, key, command, terminal, SYNC,
                 pending, interrupts>>

HaltDebugMode(t) ==
  /\ handler[t] = "debug_mode"
  /\ debug_mode' = FALSE
  /\ handler' = [handler EXCEPT ![t] = "idle"]
  /\ UNCHANGED <<main, input, clock, poweroff, data_ready, key, command, terminal, SYNC,
                 pending, interrupts>>

Handling(t) == HaltPoweroff(t) \/ HaltDebugMode(t) \/ (Alive(t) /\ Deliver(t))

----------------------------------------------------------------------------
Next ==
  \/ MainStep \/ ClockStep \/ InputStep
  \/ InputRead \/ Fgets                              \* the user
  \/ Interrupt
  \/ \E t \in Thread : Handling(t)

Spec == Init /\ [][Next]_vars

(***************************************************************************)
(* The kernel runs every thread that can run and delivers every signal.    *)
(* Nothing makes the user type or press Ctrl-C.                            *)
(***************************************************************************)
FairSpec ==
  /\ Spec
  /\ WF_vars(MainStep) /\ WF_vars(ClockStep) /\ WF_vars(InputStep)
  /\ \A t \in Thread : WF_vars(Handling(t))

(* The user answers: every read of the input thread gets a key at last. *)
TypingSpec == FairSpec /\ WF_vars(InputRead)

----------------------------------------------------------------------------
TypeOK ==
  /\ main \in MainPc /\ input \in InputPc /\ clock \in ClockPc
  /\ poweroff \in BOOLEAN /\ debug_mode \in BOOLEAN /\ SYNC \in BOOLEAN
  /\ data_ready \in {"none", "char", "untranslatable"}
  /\ key \in AllKeys /\ command \in AllCommands
  /\ term \in {"cooked", "raw"} /\ orig_termios \in {"cooked", "raw"}
  /\ pending \subseteq Thread
  /\ handler \in [Thread -> {"idle", "poweroff", "debug_mode"}]
  /\ interrupts \in Nat

(* cpu_crash waits for its own cycle to end and is stuck. *)
Crashed == clock = "crashed" \/ main = "crashed"

InDebugger ==
  main \in {"dbg_loop", "dbg_on", "prompt", "fgets", "command", "tick", "ticked"}

(***************************************************************************)
(* Outside the control loop the main thread is alone: before it creates    *)
(* the threads and while it is the debugger, none of them is left over     *)
(* (pthread_join in main_loop, apple1.c:327 and 331).                      *)
(***************************************************************************)
OthersJoined ==
  main \in {"boot", "init_pia", "create_input", "done", "crashed"} \/ InDebugger
    => ~Alive("input") /\ ~Alive("clock")

(***************************************************************************)
(* Two threads never clock the machine at once: tick is called by the      *)
(* clock thread, by the debugger and, for F10, by the input thread, and    *)
(* nothing but the order of poweroff and debug_mode keeps them apart.      *)
(***************************************************************************)
Ticking == {t \in Thread : CASE t = "main"  -> main \in {"tick", "ticked"}
                             [] t = "input" -> input = "tick"
                             [] t = "clock" -> clock \in {"tick", "crashed"}}

OneTicker == input # "tick" /\ \A s, t \in Ticking : s = t

(***************************************************************************)
(* The terminal has echo and line editing whenever a debugger command is   *)
(* read and is raw whenever a key is (init_pia, restore_term): the mode    *)
(* is changed by two threads and saved anew at every resume.               *)
(***************************************************************************)
TerminalMode ==
  /\ main \in {"prompt", "fgets"} => term = "cooked"
  /\ input \in {"entering", "read"} => term = "raw"
  /\ main = "done" => term = "cooked"

(***************************************************************************)
(* Ctrl-C ends the emulator: when the handler has run in any thread while  *)
(* the machine runs, main returns at last (halt_apple1, main_loop), even   *)
(* if the input thread goes back into read() before it looks at poweroff.  *)
(* Only F9 in the same moment, or in the second in which main sleeps, may  *)
(* still open the debugger.  There Ctrl-C at the prompt does so too, or    *)
(* where debug_mode is tested next; a little later it is half undone by    *)
(* poweroff = false (apple1.c:346), or waits for the user, when fgets has  *)
(* not been entered yet (apple1.c:348).                                    *)
(***************************************************************************)
InterruptHalts ==
  ((InDebugger => main = "dbg_loop") /\ \E t \in Thread : handler[t] = "debug_mode")
    ~> (main = "done" \/ input = "breaking" \/ Crashed)

(***************************************************************************)
(* F9 stops the machine: the debugger prompts, or the emulator ends        *)
(* (EMULATOR_BREAK, the joins of main_loop).                               *)
(***************************************************************************)
BreakStops == (input = "breaking") ~> (main \in {"fgets", "done"} \/ Crashed)

(***************************************************************************)
(* quit, and the end of the standard input, end the emulator: poweroff     *)
(* survives the way out of the debugger's loop (apple1.c:411-426).         *)
(***************************************************************************)
QuitHalts == (main = "command" /\ command \in {"quit", "eof"}) ~> (main = "done")

(***************************************************************************)
(* continue starts the machine and the keyboard again, unless Ctrl-C ends  *)
(* the emulator or F9 stops it before the first cycle (main_loop restarted *)
(* by boot_apple1).                                                        *)
(***************************************************************************)
ContinueResumes ==
  /\ (main = "command" /\ command = "continue")
       ~> (clock = "tick" \/ input = "breaking" \/ interrupts > 0 \/ Crashed)
  /\ (main = "command" /\ command = "continue")
       ~> (input = "read" \/ data_ready # "none" \/ interrupts > 0 \/ Crashed)

(***************************************************************************)
(* next comes to the next instruction fetch, step does its cycle           *)
(* (process_emulator_input).  Not if Ctrl-C stops the processor halfway:   *)
(* next then waits for SYNC for ever (apple1.c:230).                       *)
(***************************************************************************)
StepEnds == (main = "tick") ~> (main = "dbg_loop" \/ interrupts > 0 \/ Crashed)

(***************************************************************************)
(* The emulator ends only when it was asked to: by Ctrl-C, by a command of *)
(* the debugger or by a crash.  "F9: Break to debugger" (print_greeting,   *)
(* apple1.c:279) does not ask for it.                                      *)
(***************************************************************************)
EndsOnRequest ==
  main = "done" => \/ interrupts > 0
                   \/ command \in {"quit", "eof"}
                   \/ clock = "crashed"

(***************************************************************************)
(* "If the CPU stops, shut the rest of the stuff down" (init_apple1,       *)
(* apple1.c:138).                                                          *)
(***************************************************************************)
CrashShutsDown == (clock = "crashed") ~> (main = "done")

(***************************************************************************)
(* "Send SIGINT to the input thread so that the read syscall gets          *)
(* interrupted" (main_loop, apple1.c:322): main is not left waiting for    *)
(* the input thread.                                                       *)
(***************************************************************************)
ReadInterrupted == (main = "join_input") ~> (main # "join_input")
=============================================================================
