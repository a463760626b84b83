------------------------------- MODULE Pacing -------------------------------
(***************************************************************************)
(* How fast the machine runs: clock_run (clock.c) sleeps after every       *)
(* TICKS_FOR_SYNC cycles for what is left of their time, and main_loop     *)
(* (apple1.c) corrects that once a second by the cycles it has counted.    *)
(*                                                                         *)
(* Time passes in units, of any number of nanoseconds, in Advance; a       *)
(* thread that is due acts before time goes on.  clock_run takes           *)
(* nanoseconds from the clock without the seconds, so that the time is     *)
(* kept modulo SECOND.  A sleep may take longer than was asked for, which  *)
(* clock_run does not see: it reads begin after the sleep.  What is lost   *)
(* there is what the correction is for.                                    *)
(***************************************************************************)
EXTENDS Integers

CONSTANTS
  SECOND,             \* in units
  TICKS_FOR_SYNC,
  BUDGET,             \* (1e9/freq)*TICKS_FOR_SYNC, in units
  CLOCK_SPEED,        \* cycles in a second
  GRANULARITY,        \* CLOCK_ADJUST_GRANULARITY, in units
  FAST,               \* units that a cycle takes when nothing is in the way
  OVERSLEEP,          \* how much longer than asked for nanosleep may take
  SLOW,               \* what it may take when the host is busy or F6 stops the clock
  LATE,               \* how much longer than a second sleep(1) may take
  MaxTrouble,         \* such seconds, turbo switched on, states loaded
  MaxLead             \* how far clock_adjust may fall once the counter is beyond 32 bits

ASSUME PacingAssumption ==
  /\ {SECOND, TICKS_FOR_SYNC, BUDGET, CLOCK_SPEED, GRANULARITY, FAST}
       \subseteq Nat \ {0}
  /\ SLOW \subseteq Nat \ {0} /\ LATE \subseteq Nat
  /\ CLOCK_SPEED * BUDGET = SECOND * TICKS_FOR_SYNC
  /\ FAST * TICKS_FOR_SYNC < BUDGET /\ BUDGET < SECOND
  /\ {OVERSLEEP, MaxTrouble, MaxLead} \subseteq Nat

VARIABLES
  now,                \* tv_nsec of the clock
  clock, due,         \* what clock_run is doing, and for how long still
  begin, tick_count,  \* clock_run's
  wait,               \* main_loop's sleep
  passed,             \* cpu.tick_count - start_ticks
  beyond,             \* cpu.tick_count has more bits than start_ticks
  emulation_speed, clock_adjust, turbo,
  slow,               \* cycles may take longer in this second
  trouble             \* so far

vars == <<now, clock, due, begin, tick_count, wait, passed, beyond,
          emulation_speed, clock_adjust, turbo, slow, trouble>>

(* The difference of two numbers of 64 bits of which the second is larger, *)
(* or has lost its upper bits, is far beyond any number of cycles.         *)
Huge == SECOND * CLOCK_SPEED
Counted(n) == IF n >= Huge THEN Huge ELSE n + 1

Takes == IF slow THEN SLOW \cup {FAST} ELSE {FAST}

Init ==
  /\ now \in 0..SECOND - 1
  /\ clock = "cycle" /\ due = FAST
  /\ begin = now /\ tick_count = 0
  /\ wait = SECOND /\ passed = 0 /\ beyond = FALSE
  /\ emulation_speed = 0 /\ clock_adjust = 0 /\ turbo = FALSE
  /\ slow = FALSE /\ trouble = 0

----------------------------------------------------------------------------
(* A cycle that is not the last of its batch; in turbo none is.            *)
CycleEnds == clock = "cycle" /\ due = 0

Cycle ==
  /\ CycleEnds
  /\ turbo \/ tick_count + 1 # TICKS_FOR_SYNC
  /\ tick_count' = IF turbo THEN tick_count ELSE tick_count + 1
  /\ passed' = Counted(passed)
  /\ due' \in Takes
  /\ UNCHANGED <<now, clock, begin, wait, beyond, emulation_speed, clock_adjust, turbo,
                 slow, trouble>>

(* nanosleep refuses what is no part of a second.  What it accepts it may  *)
(* exceed, by more when the host is busy.                                  *)
Sleeps(delta) ==
  IF delta \in 0..SECOND - 1
  THEN {delta + over : over \in 0..OVERSLEEP \cup (IF slow THEN SLOW ELSE {})}
  ELSE {0}

Sync ==
  /\ CycleEnds
  /\ ~turbo /\ tick_count + 1 = TICKS_FOR_SYNC
  /\ passed' = Counted(passed)
  /\ clock' = "sleep" /\ due' \in Sleeps(BUDGET - (now - begin) - clock_adjust)
  /\ UNCHANGED <<now, begin, tick_count, wait, beyond, emulation_speed, clock_adjust, turbo,
                 slow, trouble>>

Wake ==
  /\ clock = "sleep" /\ due = 0
  /\ begin' = now /\ tick_count' = 0
  /\ clock' = "cycle" /\ due' \in Takes
  /\ UNCHANGED <<now, wait, passed, beyond, emulation_speed, clock_adjust, turbo,
                 slow, trouble>>

Troubled == trouble < MaxTrouble /\ trouble' = trouble + 1

(* The bound on clock_adjust: time stops. *)
Bounded == beyond => clock_adjust > -MaxLead

(* A defect: nothing slows down a machine that is too fast. *)
AdjustedUp(speed) ==
  IF ~turbo /\ speed < CLOCK_SPEED THEN clock_adjust + GRANULARITY ELSE clock_adjust

(* A defect: the wrong way. *)
AdjustedReversed(speed) ==
  CASE ~turbo /\ speed > CLOCK_SPEED -> clock_adjust + GRANULARITY
    [] ~turbo /\ speed < CLOCK_SPEED -> clock_adjust - GRANULARITY
    [] OTHER -> clock_adjust

(* What is too fast sleeps longer. *)
Adjusted(speed) ==
  CASE ~turbo /\ speed > CLOCK_SPEED -> clock_adjust - GRANULARITY
    [] ~turbo /\ speed < CLOCK_SPEED -> clock_adjust + GRANULARITY
    [] OTHER -> clock_adjust

(* main_loop after a second, and before the next one *)
Control ==
  /\ wait = 0 /\ Bounded
  /\ emulation_speed' = passed
  /\ clock_adjust' = Adjusted(passed)
  /\ beyond' \in {beyond, TRUE}
  /\ passed' = IF beyond' THEN Huge ELSE 0
  /\ \E late \in LATE : wait' = SECOND + late
  /\ \/ slow' = FALSE /\ UNCHANGED trouble
     \/ slow' = TRUE /\ Troubled
  /\ UNCHANGED <<now, clock, due, begin, tick_count, turbo>>

Turbo ==
  /\ turbo' = ~turbo
  /\ turbo \/ Troubled
  /\ turbo => UNCHANGED trouble
  /\ UNCHANGED <<now, clock, due, begin, tick_count, wait, passed, beyond, emulation_speed,
                 clock_adjust, slow>>

(* load_state takes tick_count from the file, which may be of any session. *)
Load ==
  /\ Troubled /\ Bounded
  /\ passed' \in 0..CLOCK_SPEED \cup {Huge} /\ beyond' \in BOOLEAN
  /\ UNCHANGED <<now, clock, due, begin, tick_count, wait, emulation_speed, clock_adjust, turbo,
                 slow>>

Advance ==
  /\ due > 0 /\ wait > 0
  /\ now' = (now + 1) % SECOND
  /\ due' = due - 1 /\ wait' = wait - 1
  /\ UNCHANGED <<clock, begin, tick_count, passed, beyond, emulation_speed, clock_adjust, turbo,
                 slow, trouble>>

Run  == Cycle \/ Sync \/ Wake \/ Control \/ Advance
Next == Run \/ Turbo \/ Load
Spec == Init /\ [][Next]_vars

(* Time goes on, and threads that are due run. *)
FairSpec == Spec /\ WF_vars(Run)

----------------------------------------------------------------------------
TypeOK ==
  /\ now \in 0..SECOND - 1 /\ clock \in {"cycle", "sleep"} /\ due \in Nat
  /\ begin \in 0..SECOND - 1 /\ tick_count \in 0..TICKS_FOR_SYNC - 1
  /\ wait \in Nat /\ passed \in 0..Huge /\ emulation_speed \in 0..Huge
  /\ beyond \in BOOLEAN /\ turbo \in BOOLEAN /\ clock_adjust \in Int
  /\ slow \in BOOLEAN /\ trouble \in 0..MaxTrouble

(***************************************************************************)
(* The correction never takes the whole of what a batch leaves, although   *)
(* it makes up for what sleeps take too long: the clock thread goes on     *)
(* sleeping between batches.  Where it does not, a batch in which the      *)
(* second changes puts it to sleep for almost a second (clock.c:65), the   *)
(* machine counts as too slow, and the correction grows instead of coming  *)
(* back.  Around MaxTrouble bad seconds, stretches of turbo or loaded      *)
(* states (main_loop, clock_run).                                          *)
(***************************************************************************)
Paced == TypeOK /\ clock_adjust + FAST * TICKS_FOR_SYNC < BUDGET

(* Two corrections away from CLOCK_SPEED, and what sleeps may differ by. *)
OnSpeed ==
  LET most == (2 * GRANULARITY + OVERSLEEP) * CLOCK_SPEED
  IN  {n \in 0..2 * CLOCK_SPEED : (n - CLOCK_SPEED) * BUDGET \in -most..most}

(***************************************************************************)
(* Around MaxTrouble bad seconds, stretches of turbo or loaded states, and *)
(* however much of OVERSLEEP each sleep takes, the emulator without turbo  *)
(* is at the Apple's speed again and again, as F12 shows it, unless the    *)
(* cycles counted no longer fit start_ticks (main_loop, clock_run).        *)
(***************************************************************************)
Settles ==
  <>[](~turbo /\ ~beyond) => []<>(emulation_speed \in OnSpeed)
=============================================================================
