--------------------------- MODULE ThreadsProofs ---------------------------
(***************************************************************************)
(* OthersJoined, OneTicker and TerminalMode hold whatever the user types   *)
(* and however often Ctrl-C is pressed.                                    *)
(*                                                                         *)
(* None of them is inductive.  What keeps the threads apart is where main  *)
(* is: Joined says which threads may be left at each of its steps.  What   *)
(* keeps F10 from ticking is that the input thread, once it has set        *)
(* debug_mode, reads no other key: Breaking.  What keeps the terminal      *)
(* right is that the mode saved is always the user's own: Cooked.          *)
(***************************************************************************)
EXTENDS Threads, TLAPS

Starting == {"boot", "init_pia", "create_input"}
Running  == {"create_clock", "control", "kill", "join_clock", "join_input"}
Debugger == {"dbg_loop", "dbg_on", "prompt", "fgets", "command", "tick", "ticked"}

Gone(pc) == pc \in {"none", "exited"}

Joined ==
  /\ main \notin Running => Gone(input) /\ Gone(clock)
  /\ main \in {"create_clock", "join_input"} => Gone(clock)

Breaking ==
  /\ debug_mode /\ ~Gone(input) =>
       input = "breaking" \/ (poweroff /\ input \in {"loop", "restore"})
  /\ debug_mode /\ main \in Starting => main = "boot" /\ poweroff
  /\ input # "tick"

Cooked ==
  /\ orig_termios = "cooked"
  /\ main = "create_input" => term = "raw"
  /\ main \in Running => IF input = "exited" THEN term = "cooked"
                                             ELSE input # "none" /\ term = "raw"
  /\ main \notin Running \cup {"create_input"} => term = "cooked"

IInv == TypeOK /\ Joined /\ Breaking /\ Cooked

(* Where Ctrl-C may go is any thread that is there. *)
LEMMA AliveIsThere ==
  ASSUME TypeOK
  PROVE  /\ Alive("input") <=> ~Gone(input)
         /\ Alive("clock") <=> ~Gone(clock)
BY DEF TypeOK, Alive, Gone

(* The initial state: nothing runs, the terminal is the user's. *)
LEMMA InitInv == Init => IInv
<1>1. Init => TypeOK
  <2>1. Init => handler \in [Thread -> {"idle", "poweroff", "debug_mode"}]
    BY DEF Init
  <2>2. Init => /\ main \in MainPc /\ input \in InputPc /\ clock \in ClockPc
                /\ key \in AllKeys /\ command \in AllCommands
    BY DEF Init, MainPc, InputPc, ClockPc, AllKeys, AllCommands
  <2>3. Init => poweroff \in BOOLEAN /\ debug_mode \in BOOLEAN /\ SYNC \in BOOLEAN
    BY Zenon DEF Init
  <2>4. Init => /\ data_ready \in {"none", "char", "untranslatable"}
                /\ term \in {"cooked", "raw"} /\ orig_termios \in {"cooked", "raw"}
                /\ pending \subseteq Thread
                /\ interrupts \in Nat
    BY DEF Init
  <2>. QED  BY <2>1, <2>2, <2>3, <2>4 DEF TypeOK
<1>2. Init => Joined /\ Breaking /\ Cooked
  BY DEF Init, Joined, Breaking, Cooked, Starting, Running, Gone
<1>. QED  BY <1>1, <1>2 DEF IInv

(* Main starts the threads and waits for them. *)
LEMMA MainRuns ==
  ASSUME IInv,
         Boot \/ InitPia \/ CreateInput \/ CreateClock \/ Control \/ Kill \/ JoinClock
           \/ JoinInput
  PROVE  IInv'
<1>. USE DEF MainGoes, Free, flags, terminal, signals, IInv
<1>1. TypeOK'
  <2>1. CASE Boot \/ InitPia \/ CreateInput \/ CreateClock \/ Control
    BY <2>1 DEF Boot, InitPia, CreateInput, CreateClock, Control,
                TypeOK, MainPc, InputPc, ClockPc
  <2>2. CASE Kill
    BY <2>2 DEF Kill, TypeOK, MainPc, Thread
  <2>3. CASE JoinClock \/ JoinInput
    BY <2>3 DEF JoinClock, JoinInput, TypeOK, MainPc
  <2>. QED  BY <2>1, <2>2, <2>3
<1>2. Joined'
  BY AliveIsThere
     DEF Boot, InitPia, CreateInput, CreateClock, Control, Kill, JoinClock, JoinInput,
         Joined, Running, Gone, TypeOK, MainPc
<1>3. Breaking'
  BY AliveIsThere
     DEF Boot, InitPia, CreateInput, CreateClock, Control, Kill, JoinClock, JoinInput,
         Joined, Breaking, Running, Starting, Gone, TypeOK, MainPc
<1>4. Cooked'
  BY AliveIsThere
     DEF Boot, InitPia, CreateInput, CreateClock, Control, Kill, JoinClock, JoinInput,
         Joined, Cooked, Running, Gone, TypeOK, MainPc, InputPc
<1>. QED  BY <1>1, <1>2, <1>3, <1>4

(* Main is the debugger. *)
LEMMA MainDebugs ==
  ASSUME IInv,
         \/ DebuggerLoop \/ DebuggerOn \/ EntersFgets \/ Fgets
         \/ Command \/ DebuggerTick \/ DebuggerTicked
  PROVE  IInv'
<1>. USE DEF MainGoes, Free, flags, terminal, signals, IInv
<1>1. TypeOK'
  <2>1. CASE DebuggerLoop \/ DebuggerOn \/ EntersFgets
    BY <2>1 DEF DebuggerLoop, DebuggerOn, EntersFgets, TypeOK, MainPc
  <2>2. CASE Fgets
    BY <2>2, ThreadsAssumption DEF Fgets, TypeOK, MainPc
  <2>3. CASE Command
    BY <2>3 DEF Command, TypeOK, MainPc
  <2>4. CASE DebuggerTick \/ DebuggerTicked
    BY <2>4 DEF DebuggerTick, DebuggerTicked, Ticks, TypeOK, MainPc
  <2>. QED  BY <2>1, <2>2, <2>3, <2>4
<1>2. Joined'
  BY DEF DebuggerLoop, DebuggerOn, EntersFgets, Fgets, Command, DebuggerTick, DebuggerTicked, Ticks,
         Joined, Running, Gone
<1>3. Breaking'
  BY DEF DebuggerLoop, DebuggerOn, EntersFgets, Fgets, Command, DebuggerTick, DebuggerTicked, Ticks,
         Joined, Breaking, Running, Starting, Gone, TypeOK
<1>4. Cooked'
  BY DEF DebuggerLoop, DebuggerOn, EntersFgets, Fgets, Command, DebuggerTick, DebuggerTicked, Ticks,
         Cooked, Running
<1>. QED  BY <1>1, <1>2, <1>3, <1>4

(* The clock thread only ever raises poweroff. *)
LEMMA ClockRuns ==
  ASSUME IInv, ClockStep
  PROVE  IInv'
<1>. USE DEF ClockStep, ClockLoop, ClockTick, Ticks, Free, flags, terminal, signals, IInv
<1>1. TypeOK'
  BY DEF TypeOK, ClockPc
<1>2. Joined'
  BY DEF Joined, Running, Gone
<1>3. Breaking'
  BY DEF Breaking, Starting, Gone
<1>4. Cooked'
  BY DEF Cooked, Running
<1>. QED  BY <1>1, <1>2, <1>3, <1>4

(* The input thread reads no key between setting debug_mode and its end. *)
LEMMA InputRuns ==
  ASSUME IInv, InputStep \/ InputRead
  PROVE  IInv'
<1>. USE DEF InputStep, InputLoop, InputReady, InputEntersRead, InputKey, InputBreaks,
             InputRestores, InputRead, InputGoes, Free, flags, terminal, signals, IInv
<1>1. TypeOK'
  BY ThreadsAssumption DEF TypeOK, InputPc, AllKeys
<1>2. Joined'
  BY DEF Joined, Running, Gone
<1>3. Breaking'
  BY DEF Joined, Breaking, Running, Starting, Gone
<1>4. Cooked'
  BY DEF Joined, Cooked, Running, Gone
<1>. QED  BY <1>1, <1>2, <1>3, <1>4

(* The handler may run at any moment, in any thread. *)
LEMMA SignalsRun ==
  ASSUME IInv, Interrupt \/ \E t \in Thread : Handling(t)
  PROVE  IInv'
<1>. USE DEF Interrupt, Handling, HaltPoweroff, HaltDebugMode, Deliver, Free, flags,
             terminal, signals, IInv
<1>1. TypeOK'
  <2>1. CASE Interrupt
    BY <2>1 DEF TypeOK
  <2>2. ASSUME NEW t \in Thread, HaltPoweroff(t) \/ HaltDebugMode(t)
        PROVE  TypeOK'
    BY <2>2 DEF TypeOK
  <2>3. ASSUME NEW t \in Thread, Deliver(t)
        PROVE  TypeOK'
    BY <2>3 DEF TypeOK, MainPc, InputPc
  <2>. QED  BY <2>1, <2>2, <2>3
<1>2. Joined'
  BY DEF Joined, Running, Gone
<1>3. Breaking'
  BY DEF Joined, Breaking, Running, Starting, Gone
<1>4. Cooked'
  BY DEF Cooked, Running
<1>. QED  BY <1>1, <1>2, <1>3, <1>4

(* Every step of the program keeps the invariant. *)
LEMMA NextInv == IInv /\ [Next]_vars => IInv'
<1>. SUFFICES ASSUME IInv, [Next]_vars PROVE IInv'
  OBVIOUS
<1>1. CASE MainStep \/ Fgets
  BY <1>1, MainRuns, MainDebugs DEF MainStep
<1>2. CASE ClockStep
  BY <1>2, ClockRuns
<1>3. CASE InputStep \/ InputRead
  BY <1>3, InputRuns
<1>4. CASE Interrupt \/ \E t \in Thread : Handling(t)
  BY <1>4, SignalsRun
<1>5. CASE UNCHANGED vars
  BY <1>5 DEF IInv, TypeOK, Joined, Breaking, Cooked, vars
<1>. QED  BY <1>1, <1>2, <1>3, <1>4, <1>5 DEF Next

LEMMA Invariance == Spec => []IInv
BY InitInv, NextInv, PTL DEF Spec

(***************************************************************************)
(* The type invariant of Threads.                                          *)
(***************************************************************************)
THEOREM ThreadsTypeOK == Spec => []TypeOK
<1>1. IInv => TypeOK
  BY DEF IInv
<1>. QED  BY <1>1, Invariance, PTL

(***************************************************************************)
(* While main starts the threads and while it is the debugger, neither of  *)
(* them is there: the two pthread_joins of main_loop are enough, for every *)
(* moment at which a signal or the F9 key can come.                        *)
(***************************************************************************)
THEOREM DebuggerAlone == Spec => []OthersJoined
<1>1. IInv => OthersJoined
  BY AliveIsThere DEF IInv, Joined, OthersJoined, InDebugger, Running
<1>. QED  BY <1>1, Invariance, PTL

(***************************************************************************)
(* tick is never called by two threads at once, and never by the input     *)
(* thread: F10 finds debug_mode false whenever that thread can read it.    *)
(***************************************************************************)
THEOREM TicksExclusive == Spec => []OneTicker
<1>1. IInv => OneTicker
  BY DEF IInv, Joined, Breaking, OneTicker, Ticking, Thread, Running, Gone
<1>. QED  BY <1>1, Invariance, PTL

(***************************************************************************)
(* The terminal is raw for every key and cooked for every debugger command *)
(* and at the end, although every resume saves its mode anew.              *)
(***************************************************************************)
THEOREM TerminalRestored == Spec => []TerminalMode
<1>1. IInv => TerminalMode
  BY DEF IInv, TypeOK, Joined, Cooked, TerminalMode, Running, Gone, MainPc
<1>. QED  BY <1>1, Invariance, PTL
=============================================================================
