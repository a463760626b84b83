---------------------------- MODULE PacingProofs ----------------------------
(***************************************************************************)
(* The correction of main_loop never takes the whole of what a batch of    *)
(* clock_run leaves, whatever the constants, as long as they leave room    *)
(* for the bad seconds that are allowed.                                   *)
(*                                                                         *)
(* That the correction is small is not inductive: it depends on whether    *)
(* the present second will reach CLOCK_SPEED cycles.  OnCourse is the      *)
(* account of that.  A batch and its sleep take BUDGET - clock_adjust and  *)
(* at most OVERSLEEP, so that what has been counted, how far the batch is  *)
(* ahead of a steady flow (Ahead) and what is left of the second stay      *)
(* together, step by step, at no less than what they were worth when the   *)
(* second began.                                                           *)
(*                                                                         *)
(* Bad seconds are paid for.  A slow second, a stretch of turbo or a load  *)
(* may raise the correction up to three times: in its own second, in the   *)
(* next one, because a batch goes on whose begin is old, and in the one    *)
(* after, because such a batch may end in a sleep of almost a second, or a *)
(* sleep begun in the slow second in two.                                  *)
(* Debts says how many of the three are still to come.                     *)
(***************************************************************************)
EXTENDS Pacing, TLAPS

(* The time that n cycles take when nothing is in the way. *)
Span(n) == FAST * n

(* What a batch leaves: how long at most the clock thread sleeps after it. *)
Rest == BUDGET + OVERSLEEP - clock_adjust - Span(TICKS_FOR_SYNC)

(* Neither a slow cycle nor turbo disturbs the second. *)
Quiet == ~slow /\ ~turbo

(* The batch has taken the time it takes, or the sleep is an ordinary one. *)
Even ==
  IF clock = "cycle"
  THEN /\ due <= FAST
       /\ \/ now - begin = Span(tick_count + 1) - due
          \/ now - begin = Span(tick_count + 1) - due - SECOND
  ELSE due <= SECOND + OVERSLEEP /\ (due <= Rest \/ due <= wait + OVERSLEEP)

(* How far the batch is ahead of a steady flow of cycles. *)
Ahead ==
  IF clock = "cycle"
  THEN Rest * (TICKS_FOR_SYNC - tick_count) + TICKS_FOR_SYNC * (FAST - due)
  ELSE TICKS_FOR_SYNC * (Rest - due)

(* What is left of the second suffices for CLOCK_SPEED, or nearly. *)
OnCourse(least) ==
  \/ passed >= CLOCK_SPEED
  \/ passed * (BUDGET + OVERSLEEP - clock_adjust) + Ahead + TICKS_FOR_SYNC * wait
       >= TICKS_FOR_SYNC * (SECOND + least - GRANULARITY)

(* What n bad seconds may add to the correction. *)
Credit(n) == 3 * GRANULARITY * n

(* There is room for n more corrections. *)
Owes(n, steady) ==
  clock_adjust + n * GRANULARITY < steady + GRANULARITY + Credit(trouble)

(* The batch ends in this second, or its sleep in the next one. *)
Ending ==
  IF clock = "cycle" THEN due + Span(TICKS_FOR_SYNC - 1 - tick_count) <= wait
                     ELSE due <= wait + SECOND + OVERSLEEP

(* Its last cycle has just ended, and so has a second. *)
Ended == clock = "cycle" /\ due = 0 /\ tick_count + 1 = TICKS_FOR_SYNC /\ wait >= SECOND

(***************************************************************************)
(* Three corrections may follow when anything is possible, two when the    *)
(* batch ends in this second, one when it is an ordinary batch but the     *)
(* second is already late, none when the second is on course.              *)
(***************************************************************************)
Debts(steady, least) ==
  \/ Owes(3, steady)
  \/ Quiet /\ Owes(2, steady) /\ Ending
  \/ Quiet /\ Owes(1, steady) /\ (Even \/ Ended)
  \/ Quiet /\ Owes(0, steady) /\ Even /\ OnCourse(least)

(* No cycle lasts longer than a second and no sleep longer than two. *)
Dues ==
  IF clock = "cycle" THEN due + Span(TICKS_FOR_SYNC - 1) <= SECOND
                     ELSE due <= SECOND + SECOND + OVERSLEEP

IInv(steady, least) == TypeOK /\ Dues /\ Debts(steady, least)

(***************************************************************************)
(* What is asked of the constants. At steady what sleeps take too long and *)
(* the cycles that a batch cut off by the end of a second may lack are     *)
(* made up for; sleep(1) takes at least "least" longer than a second; a    *)
(* slow cycle, with the others of its batch, ends within a second; and     *)
(* three corrections for every bad second fit in what a batch leaves.      *)
(***************************************************************************)
Room(steady, least) ==
  /\ \A late \in LATE : late >= least
  /\ \A slowly \in SLOW : slowly + Span(TICKS_FOR_SYNC - 1) <= SECOND
  /\ CLOCK_SPEED * (steady - OVERSLEEP) + TICKS_FOR_SYNC * least
       > (TICKS_FOR_SYNC - 1) * (BUDGET + OVERSLEEP - steady - Span(TICKS_FOR_SYNC))
         + TICKS_FOR_SYNC * GRANULARITY
  /\ steady + GRANULARITY + Credit(MaxTrouble) + Span(TICKS_FOR_SYNC) <= BUDGET

----------------------------------------------------------------------------
LEMMA Product == ASSUME NEW a \in Nat, NEW b \in Nat PROVE a * b \in Nat
OBVIOUS

LEMMA Difference ==
  ASSUME NEW a \in Int, NEW b \in Int, b <= a
  PROVE  a - b \in Nat
OBVIOUS

LEMMA Constants ==
  /\ SECOND \in Nat /\ SECOND > 0
  /\ TICKS_FOR_SYNC \in Nat /\ TICKS_FOR_SYNC > 0
  /\ BUDGET \in Nat /\ BUDGET > 0 /\ BUDGET < SECOND
  /\ CLOCK_SPEED \in Nat /\ CLOCK_SPEED > 0
  /\ FAST \in Nat /\ FAST > 0 /\ GRANULARITY \in Nat /\ GRANULARITY > 0
  /\ SLOW \subseteq Nat /\ LATE \subseteq Nat /\ OVERSLEEP \in Nat
  /\ MaxTrouble \in Nat /\ MaxLead \in Nat
  /\ CLOCK_SPEED * BUDGET = SECOND * TICKS_FOR_SYNC
  /\ Span(TICKS_FOR_SYNC) < BUDGET
BY PacingAssumption DEF Span

LEMMA HugeIsMore == Huge \in Nat /\ Huge >= CLOCK_SPEED
<1>1. SECOND * CLOCK_SPEED = CLOCK_SPEED + (SECOND - 1) * CLOCK_SPEED
  BY Constants
<1>2. (SECOND - 1) * CLOCK_SPEED \in Nat /\ SECOND * CLOCK_SPEED \in Nat
  BY Constants, Product
<1>. QED  BY <1>1, <1>2, Constants DEF Huge

LEMMA Spans ==
  ASSUME NEW n \in Int
  PROVE  Span(n) \in Int /\ Span(n + 1) = Span(n) + FAST /\ Span(0) = 0 /\ Span(1) = FAST
BY Constants DEF Span

LEMMA SpanGrows ==
  ASSUME NEW n \in Int, NEW m \in Int, n <= m
  PROVE  Span(n) <= Span(m)
<1>1. FAST * (m - n) \in Nat
  BY Constants, Product
<1>2. FAST * m = FAST * n + FAST * (m - n)
  BY Constants
<1>. QED  BY <1>1, <1>2, Constants DEF Span

(* The nanoseconds of the next unit of time. *)
LEMMA Clockwise ==
  ASSUME NEW n \in 0..SECOND - 1
  PROVE  (n + 1) % SECOND = IF n + 1 = SECOND THEN 0 ELSE n + 1
<1>1. SECOND \in Nat /\ SECOND > 0
  BY Constants
<1>2. CASE n + 1 = SECOND
  <2>1. SECOND % SECOND = 0
    BY <1>1
  <2>. QED  BY <1>2, <2>1
<1>3. CASE n + 1 < SECOND
  <2>1. (n + 1) % SECOND = n + 1
    BY <1>1, <1>3
  <2>. QED  BY <1>3, <2>1
<1>. QED  BY <1>1, <1>2, <1>3

LEMMA Credits ==
  ASSUME NEW n \in Nat
  PROVE  /\ Credit(n) \in Nat /\ Credit(0) = 0
         /\ Credit(n + 1) = Credit(n) + 3 * GRANULARITY
         /\ n <= MaxTrouble => Credit(n) <= Credit(MaxTrouble)
<1>1. Credit(n) \in Nat
  BY Constants, Product DEF Credit
<1>2. Credit(0) = 0 /\ Credit(n + 1) = Credit(n) + 3 * GRANULARITY
  BY Constants DEF Credit
<1>3. ASSUME n <= MaxTrouble PROVE Credit(n) <= Credit(MaxTrouble)
  <2>1. 3 * GRANULARITY * (MaxTrouble - n) \in Nat
    <3>1. 3 * GRANULARITY \in Nat /\ MaxTrouble - n \in Nat
      BY <1>3, Constants, Difference
    <3>. QED  BY <3>1, Product
  <2>2. Credit(MaxTrouble) = Credit(n) + 3 * GRANULARITY * (MaxTrouble - n)
    BY Constants DEF Credit
  <2>. QED  BY <1>1, <2>1, <2>2
<1>. QED  BY <1>1, <1>2, <1>3

(* Credit given to the last bad second is still less than what is left. *)
LEMMA CreditFits ==
  ASSUME NEW steady \in Nat, NEW least \in Nat, Room(steady, least), NEW adjust \in Int,
         NEW n \in 0..MaxTrouble, adjust < steady + GRANULARITY + Credit(n)
  PROVE  adjust + Span(TICKS_FOR_SYNC) < BUDGET
<1>1. Credit(n) \in Nat /\ Credit(n) <= Credit(MaxTrouble) /\ Credit(MaxTrouble) \in Nat
  BY Credits, Constants
<1>2. Span(TICKS_FOR_SYNC) \in Int
  BY Constants, Spans
<1>. QED  BY <1>1, <1>2, Constants DEF Room

(* The clock thread sleeps between batches. *)
LEMMA RestIsLeft ==
  ASSUME NEW steady \in Nat, NEW least \in Nat, Room(steady, least), IInv(steady, least)
  PROVE  /\ Rest \in Int /\ Rest > 0
         /\ clock_adjust + Span(TICKS_FOR_SYNC) < BUDGET
<1>1. clock_adjust \in Int /\ trouble \in 0..MaxTrouble /\ Credit(trouble) \in Nat
  BY Constants, Credits DEF IInv, TypeOK
<1>2. clock_adjust < steady + GRANULARITY + Credit(trouble)
  BY <1>1, Constants DEF IInv, Debts, Owes
<1>3. Span(TICKS_FOR_SYNC) \in Int
  BY Constants, Spans
<1>4. clock_adjust + Span(TICKS_FOR_SYNC) < BUDGET
  BY <1>1, <1>2, CreditFits
<1>. QED  BY <1>1, <1>3, <1>4, Constants DEF Rest

(* Each action keeps the invariant. *)
LEMMA AdvanceKeeps ==
  ASSUME NEW steady \in Nat, NEW least \in Nat, Room(steady, least), IInv(steady, least), Advance
  PROVE  IInv(steady, least)'
<1>1. /\ due \in Nat /\ wait \in Nat /\ due' = due - 1 /\ wait' = wait - 1 /\ due > 0 /\ wait > 0
      /\ now \in 0..SECOND - 1 /\ now' = (now + 1) % SECOND
      /\ begin \in 0..SECOND - 1 /\ tick_count \in 0..TICKS_FOR_SYNC - 1
      /\ passed \in Nat /\ clock_adjust \in Int
  BY Constants, HugeIsMore DEF Advance, IInv, TypeOK
<1>2. /\ clock' = clock /\ begin' = begin /\ tick_count' = tick_count /\ passed' = passed
      /\ clock_adjust' = clock_adjust /\ trouble' = trouble /\ slow' = slow /\ turbo' = turbo
  BY DEF Advance
<1>3. now' = IF now + 1 = SECOND THEN 0 ELSE now + 1
  BY <1>1, Clockwise
<1>4. TypeOK'
  <2>1. now' \in 0..SECOND - 1 /\ due' \in Nat /\ wait' \in Nat
    BY <1>1, <1>3, Constants
  <2>. QED  BY <2>1 DEF IInv, TypeOK, Advance
<1>5. Rest' = Rest /\ Rest \in Int /\ (Quiet' <=> Quiet)
      /\ \A n \in 0..3 : Owes(n, steady)' <=> Owes(n, steady)
  BY <1>2, RestIsLeft DEF Rest, Quiet, Owes
<1>6. /\ Span(TICKS_FOR_SYNC - 1) \in Int /\ Span(TICKS_FOR_SYNC - 1 - tick_count) \in Int
      /\ Span(tick_count + 1) \in Int /\ Span(tick_count + 1) <= Span(TICKS_FOR_SYNC)
      /\ Span(TICKS_FOR_SYNC) \in Int
  <2>1. tick_count \in Int /\ TICKS_FOR_SYNC \in Int /\ tick_count + 1 <= TICKS_FOR_SYNC
    BY <1>1, Constants
  <2>2. /\ Span(TICKS_FOR_SYNC - 1) \in Int /\ Span(TICKS_FOR_SYNC - 1 - tick_count) \in Int
        /\ Span(tick_count + 1) \in Int /\ Span(TICKS_FOR_SYNC) \in Int
    BY <2>1, Spans
  <2>3. Span(tick_count + 1) <= Span(TICKS_FOR_SYNC)
    BY <2>1, SpanGrows
  <2>. QED  BY <2>2, <2>3
<1>7. Dues'
  BY <1>1, <1>2, <1>6, Constants DEF IInv, Dues
<1>8. Ending => Ending'
  BY <1>1, <1>2, <1>6, Constants DEF Ending
<1>9. ~Ended
  BY <1>1 DEF Ended
<1>10. Even => Even'
  <2>1. CASE clock = "cycle"
    BY <1>1, <1>2, <1>3, <1>6, <2>1, Constants DEF Even
  <2>2. CASE clock # "cycle"
    BY <1>1, <1>2, <1>5, <2>2, Constants DEF Even
  <2>. QED  BY <2>1, <2>2
<1>11. OnCourse(least) => OnCourse(least)'
  <2>1. TICKS_FOR_SYNC * wait' = TICKS_FOR_SYNC * wait - TICKS_FOR_SYNC
    BY <1>1, Constants
  <2>2. Ahead' = Ahead + TICKS_FOR_SYNC /\ Ahead \in Int
    <3>1. /\ TICKS_FOR_SYNC * (FAST - due') = TICKS_FOR_SYNC * (FAST - due) + TICKS_FOR_SYNC
          /\ TICKS_FOR_SYNC * (Rest - due') = TICKS_FOR_SYNC * (Rest - due) + TICKS_FOR_SYNC
          /\ TICKS_FOR_SYNC * (FAST - due) \in Int /\ TICKS_FOR_SYNC * (Rest - due) \in Int
          /\ Rest * (TICKS_FOR_SYNC - tick_count) \in Int
      BY <1>1, <1>5, Constants
    <3>. QED  BY <1>2, <1>5, <3>1, Constants DEF Ahead
  <2>3. passed * (BUDGET + OVERSLEEP - clock_adjust) \in Int /\ TICKS_FOR_SYNC * wait \in Int
    BY <1>1, Constants
  <2>4. passed' * (BUDGET + OVERSLEEP - clock_adjust') + Ahead' + TICKS_FOR_SYNC * wait'
          = passed * (BUDGET + OVERSLEEP - clock_adjust) + Ahead + TICKS_FOR_SYNC * wait
    BY <1>2, <2>1, <2>2, <2>3, Constants
  <2>. QED  BY <1>2, <2>4 DEF OnCourse
<1>. QED  BY <1>4, <1>5, <1>7, <1>8, <1>9, <1>10, <1>11 DEF IInv, Debts

LEMMA CycleKeeps ==
  ASSUME NEW steady \in Nat, NEW least \in Nat, Room(steady, least), IInv(steady, least), Cycle
  PROVE  IInv(steady, least)'
<1>1. /\ clock = "cycle" /\ due = 0 /\ wait \in Nat /\ now \in Int /\ begin \in Int
      /\ tick_count \in 0..TICKS_FOR_SYNC - 1 /\ passed \in 0..Huge /\ clock_adjust \in Int
      /\ due' \in Takes /\ passed' = Counted(passed)
      /\ ~turbo => tick_count' = tick_count + 1 /\ tick_count + 1 # TICKS_FOR_SYNC
      /\ turbo => tick_count' = tick_count
  BY Constants, HugeIsMore DEF Cycle, CycleEnds, IInv, TypeOK
<1>2. /\ clock' = clock /\ begin' = begin /\ now' = now /\ wait' = wait
      /\ clock_adjust' = clock_adjust /\ trouble' = trouble /\ slow' = slow /\ turbo' = turbo
  BY DEF Cycle
<1>3. /\ passed' \in 0..Huge /\ (passed' = passed + 1 \/ passed' >= CLOCK_SPEED)
      /\ passed' >= passed
  BY <1>1, Constants, HugeIsMore DEF Counted
<1>4. /\ tick_count \in Int /\ TICKS_FOR_SYNC \in Int /\ tick_count + 1 <= TICKS_FOR_SYNC
      /\ tick_count' \in 0..TICKS_FOR_SYNC - 1
      /\ ~turbo => tick_count + 2 <= TICKS_FOR_SYNC
  BY <1>1, Constants
<1>5. due' \in Nat /\ due' + Span(TICKS_FOR_SYNC - 1) <= SECOND
  <2>1. Span(TICKS_FOR_SYNC) = Span(TICKS_FOR_SYNC - 1) + FAST
    BY <1>4, Spans
  <2>2. Span(TICKS_FOR_SYNC - 1) \in Int
    BY <1>4, Spans
  <2>. QED  BY <1>1, <2>1, <2>2, Constants DEF Takes, Room
<1>6. TypeOK'
  BY <1>2, <1>3, <1>4, <1>5 DEF IInv, TypeOK, Cycle
<1>7. Dues'
  BY <1>1, <1>2, <1>5 DEF Dues
<1>8. Rest' = Rest /\ Rest \in Int /\ (Quiet' <=> Quiet)
      /\ \A n \in 0..3 : Owes(n, steady)' <=> Owes(n, steady)
  BY <1>2, RestIsLeft DEF Rest, Quiet, Owes
<1>9. Quiet => due' = FAST /\ tick_count' = tick_count + 1
  BY <1>1 DEF Quiet, Takes
<1>10. Quiet /\ Ending => Ending'
  <2>1. Span(TICKS_FOR_SYNC - 1 - tick_count)
          = Span(TICKS_FOR_SYNC - 1 - (tick_count + 1)) + FAST
    <3>1. TICKS_FOR_SYNC - 1 - (tick_count + 1) \in Int
      BY <1>4
    <3>2. (TICKS_FOR_SYNC - 1 - (tick_count + 1)) + 1 = TICKS_FOR_SYNC - 1 - tick_count
      BY <1>4
    <3>. QED  BY <3>1, <3>2, Spans
  <2>2. Span(TICKS_FOR_SYNC - 1 - (tick_count + 1)) \in Int
    BY <1>4, Spans
  <2>. QED  BY <1>1, <1>2, <1>9, <2>1, <2>2, Constants DEF Ending
<1>11. Quiet => ~Ended
  BY <1>1 DEF Quiet, Ended
<1>12. Quiet /\ Even => Even'
  <2>1. Span(tick_count + 1 + 1) = Span(tick_count + 1) + FAST /\ Span(tick_count + 1) \in Int
    BY <1>4, Spans
  <2>. QED  BY <1>1, <1>2, <1>9, <2>1, Constants DEF Even
<1>13. Quiet /\ OnCourse(least) => OnCourse(least)'
  <2>. SUFFICES ASSUME Quiet, OnCourse(least), passed < CLOCK_SPEED, passed' < CLOCK_SPEED
                PROVE  OnCourse(least)'
    BY <1>1, <1>3, Constants, HugeIsMore DEF OnCourse
  <2>1. passed' = passed + 1 /\ due' = FAST /\ tick_count' = tick_count + 1
    BY <1>3, <1>9, Constants, HugeIsMore
  <2>2. (passed + 1) * (BUDGET + OVERSLEEP - clock_adjust)
          = passed * (BUDGET + OVERSLEEP - clock_adjust) + (BUDGET + OVERSLEEP - clock_adjust)
    BY <1>1, Constants
  <2>3. Rest * (TICKS_FOR_SYNC - (tick_count + 1)) = Rest * (TICKS_FOR_SYNC - tick_count) - Rest
    BY <1>4, <1>8
  <2>4. /\ TICKS_FOR_SYNC * (FAST - FAST) = 0
        /\ TICKS_FOR_SYNC * (FAST - 0) = Span(TICKS_FOR_SYNC)
    BY Constants DEF Span
  <2>5. /\ Ahead' = Rest * (TICKS_FOR_SYNC - tick_count) - Rest
        /\ Ahead = Rest * (TICKS_FOR_SYNC - tick_count) + Span(TICKS_FOR_SYNC)
    BY <1>1, <1>2, <1>4, <1>8, <2>1, <2>3, <2>4 DEF Ahead
  <2>6. /\ Rest * (TICKS_FOR_SYNC - tick_count) \in Int /\ Span(TICKS_FOR_SYNC) \in Int
        /\ passed * (BUDGET + OVERSLEEP - clock_adjust) \in Int /\ TICKS_FOR_SYNC * wait \in Int
    BY <1>1, <1>4, <1>8, Spans, Constants, HugeIsMore
  <2>7. Rest = BUDGET + OVERSLEEP - clock_adjust - Span(TICKS_FOR_SYNC)
    BY DEF Rest
  <2>8. passed' * (BUDGET + OVERSLEEP - clock_adjust') + Ahead' + TICKS_FOR_SYNC * wait'
          = passed * (BUDGET + OVERSLEEP - clock_adjust) + Ahead + TICKS_FOR_SYNC * wait
    <3>1. passed' * (BUDGET + OVERSLEEP - clock_adjust')
            = passed * (BUDGET + OVERSLEEP - clock_adjust) + (BUDGET + OVERSLEEP - clock_adjust)
      BY <1>2, <2>1, <2>2
    <3>2. TICKS_FOR_SYNC * wait' = TICKS_FOR_SYNC * wait
      BY <1>2
    <3>3. BUDGET + OVERSLEEP - clock_adjust \in Int /\ Rest \in Int
      BY <1>1, <1>8, Constants
    <3>4. BUDGET + OVERSLEEP - clock_adjust = Rest + Span(TICKS_FOR_SYNC)
      BY <2>6, <2>7, <3>3, Constants, <1>1
    <3>. QED  BY <2>5, <2>6, <3>1, <3>2, <3>3, <3>4
  <2>9. passed * (BUDGET + OVERSLEEP - clock_adjust) + Ahead + TICKS_FOR_SYNC * wait
          >= TICKS_FOR_SYNC * (SECOND + least - GRANULARITY)
    BY <1>1, Constants, HugeIsMore DEF OnCourse
  <2>10. passed' * (BUDGET + OVERSLEEP - clock_adjust') + Ahead' + TICKS_FOR_SYNC * wait'
           >= TICKS_FOR_SYNC * (SECOND + least - GRANULARITY)
    BY <2>8, <2>9
  <2>. QED  BY <2>10 DEF OnCourse
<1>. QED  BY <1>6, <1>7, <1>8, <1>10, <1>11, <1>12, <1>13 DEF IInv, Debts

LEMMA SyncKeeps ==
  ASSUME NEW steady \in Nat, NEW least \in Nat, Room(steady, least), IInv(steady, least), Sync
  PROVE  IInv(steady, least)'
<1>. DEFINE delta == BUDGET - (now - begin) - clock_adjust
<1>1. /\ clock = "cycle" /\ due = 0 /\ wait \in Nat /\ now \in 0..SECOND - 1
      /\ begin \in 0..SECOND - 1 /\ tick_count \in Int /\ tick_count + 1 = TICKS_FOR_SYNC
      /\ passed \in 0..Huge /\ clock_adjust \in Int
      /\ clock' = "sleep" /\ passed' = Counted(passed)
      /\ due' \in Sleeps(delta)
  BY Constants, HugeIsMore DEF Sync, CycleEnds, IInv, TypeOK
<1>2. /\ begin' = begin /\ now' = now /\ wait' = wait /\ tick_count' = tick_count
      /\ clock_adjust' = clock_adjust /\ trouble' = trouble /\ slow' = slow /\ turbo' = turbo
  BY DEF Sync
<1>3. /\ passed' \in 0..Huge /\ (passed' = passed + 1 \/ passed' >= CLOCK_SPEED)
      /\ passed' >= passed
  BY <1>1, Constants, HugeIsMore DEF Counted
<1>4. /\ due' \in Nat /\ due' <= SECOND + SECOND + OVERSLEEP
      /\ Quiet => \/ due' = 0
                  \/ delta \in 0..SECOND - 1 /\ due' <= delta + OVERSLEEP
  <2>1. \A slowly \in SLOW : slowly \in Nat /\ slowly <= SECOND
    <3>1. Span(0) <= Span(TICKS_FOR_SYNC - 1)
      BY Constants, SpanGrows
    <3>2. Span(0) = 0 /\ Span(TICKS_FOR_SYNC - 1) \in Int
      BY Constants, Spans
    <3>. QED  BY <3>1, <3>2, Constants DEF Room
  <2>. HIDE DEF delta
  <2>2. CASE delta \in 0..SECOND - 1
    <3>1. PICK over \in 0..OVERSLEEP \cup (IF slow THEN SLOW ELSE {}) : due' = delta + over
      BY <1>1, <2>2 DEF Sleeps
    <3>2. over \in Nat /\ over <= SECOND + OVERSLEEP /\ (Quiet => over <= OVERSLEEP)
      BY <2>1, <3>1, Constants DEF Quiet
    <3>. QED  BY <2>2, <3>1, <3>2, Constants
  <2>3. CASE delta \notin 0..SECOND - 1
    BY <1>1, <2>3, Constants DEF Sleeps
  <2>. QED  BY <2>2, <2>3
<1>5. TypeOK' /\ Dues'
  <2>. HIDE DEF delta
  <2>. QED  BY <1>1, <1>2, <1>3, <1>4 DEF IInv, TypeOK, Dues, Sync
<1>6. Rest' = Rest /\ Rest \in Int /\ Rest > 0 /\ (Quiet' <=> Quiet)
      /\ \A n \in 0..3 : Owes(n, steady)' <=> Owes(n, steady)
  BY <1>2, RestIsLeft DEF Rest, Quiet, Owes
<1>7. Quiet => due' <= SECOND + OVERSLEEP
  <2>. HIDE DEF delta
  <2>. QED  BY <1>4, Constants
<1>8. (Quiet => Ending') /\ (Quiet /\ Ended => Even')
  <2>. HIDE DEF delta
  <2>. QED  BY <1>1, <1>2, <1>4, <1>7, Constants DEF Ending, Ended, Even
<1>9. Quiet /\ Even => due' <= Rest
  <2>1. Span(TICKS_FOR_SYNC) \in Int
    BY Constants, Spans
  <2>2. Even => \/ now - begin = Span(TICKS_FOR_SYNC)
                \/ now - begin = Span(TICKS_FOR_SYNC) - SECOND
    BY <1>1, <2>1, Constants DEF Even
  <2>3. now - begin = Span(TICKS_FOR_SYNC) => delta + OVERSLEEP = Rest
    BY <1>1, <2>1, Constants DEF Rest
  <2>4. now - begin = Span(TICKS_FOR_SYNC) - SECOND => delta + OVERSLEEP = Rest + SECOND
    BY <1>1, <2>1, Constants DEF Rest
  <2>5. delta \in Int /\ Rest > OVERSLEEP
    BY <1>1, <2>1, RestIsLeft, Constants DEF Rest
  <2>. HIDE DEF delta
  <2>. QED  BY <1>1, <1>4, <1>6, <2>2, <2>3, <2>4, <2>5, Constants
<1>10. Quiet /\ Even => Even'
  BY <1>1, <1>6, <1>7, <1>9 DEF Even
<1>11. Quiet /\ Even /\ OnCourse(least) => OnCourse(least)'
  <2>. SUFFICES ASSUME Quiet, Even, OnCourse(least), passed < CLOCK_SPEED, passed' < CLOCK_SPEED
                PROVE  OnCourse(least)'
    BY <1>1, <1>3, Constants, HugeIsMore DEF OnCourse
  <2>1. passed' = passed + 1 /\ due' <= Rest
    BY <1>3, <1>9, Constants, HugeIsMore
  <2>2. (passed + 1) * (BUDGET + OVERSLEEP - clock_adjust)
          = passed * (BUDGET + OVERSLEEP - clock_adjust) + (BUDGET + OVERSLEEP - clock_adjust)
    BY <1>1, Constants
  <2>3. Ahead = Rest + Span(TICKS_FOR_SYNC)
    <3>1. TICKS_FOR_SYNC - tick_count = 1 /\ Rest * 1 = Rest
      BY <1>1, <1>6, Constants
    <3>2. TICKS_FOR_SYNC * (FAST - 0) = Span(TICKS_FOR_SYNC)
      BY Constants DEF Span
    <3>. QED  BY <1>1, <3>1, <3>2 DEF Ahead
  <2>4. Ahead' \in Nat
    <3>1. TICKS_FOR_SYNC * (Rest - due') \in Nat
      <4>1. Rest \in Int /\ due' \in Int /\ due' <= Rest
        BY <1>4, <1>6, <2>1
      <4>2. Rest - due' \in Nat
        BY <4>1, Difference
      <4>. QED  BY <4>2, Constants, Product
    <3>. QED  BY <1>1, <1>6, <3>1 DEF Ahead
  <2>5. /\ passed * (BUDGET + OVERSLEEP - clock_adjust) \in Int /\ TICKS_FOR_SYNC * wait \in Int
        /\ Span(TICKS_FOR_SYNC) \in Int /\ TICKS_FOR_SYNC * (SECOND + least - GRANULARITY) \in Int
    BY <1>1, Spans, Constants, HugeIsMore
  <2>6. Rest = BUDGET + OVERSLEEP - clock_adjust - Span(TICKS_FOR_SYNC)
    BY DEF Rest
  <2>7. passed' * (BUDGET + OVERSLEEP - clock_adjust') + Ahead' + TICKS_FOR_SYNC * wait'
          >= passed * (BUDGET + OVERSLEEP - clock_adjust) + Ahead + TICKS_FOR_SYNC * wait
    BY <1>1, <1>2, <1>6, <2>1, <2>2, <2>3, <2>4, <2>5, <2>6, Constants
  <2>8. /\ passed' * (BUDGET + OVERSLEEP - clock_adjust') \in Int /\ TICKS_FOR_SYNC * wait' \in Int
        /\ Ahead \in Int
    BY <1>2, <1>6, <2>1, <2>2, <2>3, <2>5, <1>1, Constants
  <2>9. passed * (BUDGET + OVERSLEEP - clock_adjust) + Ahead + TICKS_FOR_SYNC * wait
          >= TICKS_FOR_SYNC * (SECOND + least - GRANULARITY)
    BY <1>1, Constants, HugeIsMore DEF OnCourse
  <2>10. passed' * (BUDGET + OVERSLEEP - clock_adjust') + Ahead' + TICKS_FOR_SYNC * wait'
           >= TICKS_FOR_SYNC * (SECOND + least - GRANULARITY)
    BY <2>4, <2>5, <2>7, <2>8, <2>9
  <2>. QED  BY <2>10 DEF OnCourse
<1>. QED  BY <1>5, <1>6, <1>7, <1>8, <1>10, <1>11 DEF IInv, Debts

LEMMA WakeKeeps ==
  ASSUME NEW steady \in Nat, NEW least \in Nat, Room(steady, least), IInv(steady, least), Wake
  PROVE  IInv(steady, least)'
<1>1. /\ clock = "sleep" /\ due = 0 /\ wait \in Nat /\ now \in 0..SECOND - 1
      /\ passed \in 0..Huge /\ clock_adjust \in Int /\ trouble \in Nat
      /\ clock' = "cycle" /\ begin' = now /\ tick_count' = 0 /\ due' \in Takes
  BY Constants, HugeIsMore DEF Wake, IInv, TypeOK
<1>2. /\ now' = now /\ wait' = wait /\ passed' = passed
      /\ clock_adjust' = clock_adjust /\ trouble' = trouble /\ slow' = slow /\ turbo' = turbo
  BY DEF Wake
<1>3. due' \in Nat /\ due' + Span(TICKS_FOR_SYNC - 1) <= SECOND
  <2>1. TICKS_FOR_SYNC - 1 \in Int
    BY Constants
  <2>2. Span(TICKS_FOR_SYNC) = Span(TICKS_FOR_SYNC - 1) + FAST
    BY <2>1, Spans, Constants
  <2>3. Span(TICKS_FOR_SYNC - 1) \in Int
    BY <2>1, Spans
  <2>. QED  BY <1>1, <2>2, <2>3, Constants DEF Takes, Room
<1>4. TypeOK' /\ Dues'
  BY <1>1, <1>2, <1>3, Constants DEF IInv, TypeOK, Dues, Wake
<1>5. Rest' = Rest /\ Rest \in Int /\ (Quiet' <=> Quiet)
      /\ \A n \in 0..3 : Owes(n, steady)' <=> Owes(n, steady)
  BY <1>2, RestIsLeft DEF Rest, Quiet, Owes
<1>6. Quiet => due' = FAST
  BY <1>1 DEF Quiet, Takes
<1>7. Owes(2, steady) => Owes(1, steady)
  BY <1>1, Credits, Constants DEF Owes
<1>8. Quiet => Even'
  <2>1. Span(0 + 1) = FAST
    BY Spans
  <2>. QED  BY <1>1, <1>2, <1>6, <2>1, Constants DEF Even
<1>9. Quiet /\ OnCourse(least) => OnCourse(least)'
  <2>1. Quiet => Ahead' = Ahead
    <3>1. Rest * (TICKS_FOR_SYNC - 0) = TICKS_FOR_SYNC * (Rest - 0)
      BY <1>5, Constants
    <3>2. TICKS_FOR_SYNC * (FAST - FAST) = 0 /\ TICKS_FOR_SYNC * (Rest - 0) \in Int
      BY <1>5, Constants
    <3>. QED  BY <1>1, <1>5, <1>6, <3>1, <3>2 DEF Ahead
  <2>. QED  BY <1>2, <2>1 DEF OnCourse
<1>10. ~Ended
  BY <1>1 DEF Ended
<1>. QED  BY <1>4, <1>5, <1>7, <1>8, <1>9, <1>10 DEF IInv, Debts

(* A second that was on course and yet too slow: the correction was small. *)
LEMMA SlowWhenSmall ==
  ASSUME NEW steady \in Nat, NEW least \in Nat, Room(steady, least), IInv(steady, least),
         wait = 0, OnCourse(least), passed < CLOCK_SPEED
  PROVE  clock_adjust < steady
<1>. SUFFICES ASSUME clock_adjust >= steady PROVE FALSE
  BY DEF IInv, TypeOK
<1>. DEFINE whole == BUDGET + OVERSLEEP - clock_adjust
            span  == Span(TICKS_FOR_SYNC)
<1>1. /\ passed \in Nat /\ clock_adjust \in Int /\ due \in Nat
      /\ tick_count \in 0..TICKS_FOR_SYNC - 1
  BY Constants, HugeIsMore DEF IInv, TypeOK
<1>2. Rest \in Int /\ Rest > 0 /\ span \in Int /\ whole \in Int /\ whole = Rest + span
  BY <1>1, RestIsLeft, Spans, Constants DEF Rest
<1>3. span > 0
  <2>1. Span(1) <= Span(TICKS_FOR_SYNC)
    BY Constants, SpanGrows
  <2>. QED  BY <1>2, <2>1, Spans, Constants
<1>4. Ahead \in Int /\ Ahead <= TICKS_FOR_SYNC * Rest + span
  <2>1. TICKS_FOR_SYNC * due \in Nat /\ Rest * tick_count \in Nat
    BY <1>1, <1>2, Constants, Product
  <2>2. /\ TICKS_FOR_SYNC * (Rest - due) = TICKS_FOR_SYNC * Rest - TICKS_FOR_SYNC * due
        /\ TICKS_FOR_SYNC * (FAST - due) = span - TICKS_FOR_SYNC * due
        /\ Rest * (TICKS_FOR_SYNC - tick_count) = TICKS_FOR_SYNC * Rest - Rest * tick_count
        /\ TICKS_FOR_SYNC * Rest \in Int
    BY <1>1, <1>2, Constants DEF Span
  <2>. HIDE DEF span
  <2>. QED  BY <1>2, <1>3, <2>1, <2>2 DEF Ahead
<1>5. passed * whole <= CLOCK_SPEED * whole - whole /\ passed * whole \in Int
  <2>1. (CLOCK_SPEED - 1 - passed) * whole \in Nat
    <3>1. CLOCK_SPEED - 1 - passed \in Nat /\ whole \in Nat
      BY <1>1, <1>2, <1>3, Constants
    <3>. QED  BY <3>1, Product
  <2>2. (CLOCK_SPEED - 1 - passed) * whole = CLOCK_SPEED * whole - whole - passed * whole
    BY <1>1, <1>2, Constants
  <2>3. CLOCK_SPEED * whole \in Int /\ passed * whole \in Int
    BY <1>1, <1>2, Constants
  <2>. HIDE DEF whole
  <2>. QED  BY <1>2, <2>1, <2>2, <2>3
<1>6. passed * whole + Ahead >= TICKS_FOR_SYNC * SECOND + TICKS_FOR_SYNC * least
                                  - TICKS_FOR_SYNC * GRANULARITY
  <2>1. passed * whole + Ahead + TICKS_FOR_SYNC * 0
          >= TICKS_FOR_SYNC * (SECOND + least - GRANULARITY)
    BY <1>1, Constants DEF OnCourse
  <2>2. TICKS_FOR_SYNC * (SECOND + least - GRANULARITY)
          = TICKS_FOR_SYNC * SECOND + TICKS_FOR_SYNC * least - TICKS_FOR_SYNC * GRANULARITY
    BY Constants
  <2>3. TICKS_FOR_SYNC * 0 = 0
    BY Constants
  <2>. HIDE DEF whole
  <2>. QED  BY <1>4, <1>5, <2>1, <2>2, <2>3
<1>7. CLOCK_SPEED * whole = SECOND * TICKS_FOR_SYNC - CLOCK_SPEED * (clock_adjust - OVERSLEEP)
  <2>1. whole = BUDGET - (clock_adjust - OVERSLEEP)
    BY <1>1, Constants
  <2>2. CLOCK_SPEED * (BUDGET - (clock_adjust - OVERSLEEP))
          = CLOCK_SPEED * BUDGET - CLOCK_SPEED * (clock_adjust - OVERSLEEP)
    BY <1>1, Constants
  <2>. HIDE DEF whole
  <2>. QED  BY <2>1, <2>2, Constants
<1>8. CLOCK_SPEED * (clock_adjust - OVERSLEEP) >= CLOCK_SPEED * (steady - OVERSLEEP)
  <2>1. CLOCK_SPEED * (clock_adjust - steady) \in Nat
    BY <1>1, Constants, Product, Difference
  <2>2. CLOCK_SPEED * (clock_adjust - steady)
          = CLOCK_SPEED * (clock_adjust - OVERSLEEP) - CLOCK_SPEED * (steady - OVERSLEEP)
    BY <1>1, Constants
  <2>3. /\ CLOCK_SPEED * (clock_adjust - OVERSLEEP) \in Int
        /\ CLOCK_SPEED * (steady - OVERSLEEP) \in Int
    BY <1>1, Constants
  <2>. QED  BY <2>1, <2>2, <2>3
<1>9. (TICKS_FOR_SYNC - 1) * (BUDGET + OVERSLEEP - steady - span) >= TICKS_FOR_SYNC * Rest - Rest
  <2>1. (TICKS_FOR_SYNC - 1) * (clock_adjust - steady) \in Nat
    <3>1. TICKS_FOR_SYNC - 1 \in Nat /\ clock_adjust - steady \in Nat
      BY <1>1, Constants, Difference
    <3>. QED  BY <3>1, Product
  <2>2. BUDGET + OVERSLEEP - steady - span = Rest + (clock_adjust - steady)
    BY <1>1, <1>2, Constants DEF Rest
  <2>3. (TICKS_FOR_SYNC - 1) * (Rest + (clock_adjust - steady))
          = TICKS_FOR_SYNC * Rest - Rest + (TICKS_FOR_SYNC - 1) * (clock_adjust - steady)
    BY <1>1, <1>2, Constants
  <2>4. TICKS_FOR_SYNC * Rest - Rest \in Int
    BY <1>2, Constants
  <2>. HIDE DEF span
  <2>. QED  BY <2>1, <2>2, <2>3, <2>4
<1>10. CLOCK_SPEED * (steady - OVERSLEEP) + TICKS_FOR_SYNC * least
         > (TICKS_FOR_SYNC - 1) * (BUDGET + OVERSLEEP - steady - span)
           + TICKS_FOR_SYNC * GRANULARITY
  BY DEF Room
<1>11. /\ SECOND * TICKS_FOR_SYNC \in Int /\ TICKS_FOR_SYNC * SECOND = SECOND * TICKS_FOR_SYNC
       /\ TICKS_FOR_SYNC * least \in Int /\ CLOCK_SPEED * (clock_adjust - OVERSLEEP) \in Int
       /\ CLOCK_SPEED * (steady - OVERSLEEP) \in Int /\ TICKS_FOR_SYNC * Rest \in Int
       /\ (TICKS_FOR_SYNC - 1) * (BUDGET + OVERSLEEP - steady - span) \in Int
       /\ TICKS_FOR_SYNC * GRANULARITY \in Int /\ CLOCK_SPEED * whole \in Int
  BY <1>1, <1>2, Constants
<1>. HIDE DEF whole, span
<1>. QED  BY <1>2, <1>4, <1>5, <1>6, <1>7, <1>8, <1>9, <1>10, <1>11

LEMMA ControlKeeps ==
  ASSUME NEW steady \in Nat, NEW least \in Nat, Room(steady, least), IInv(steady, least), Control
  PROVE  IInv(steady, least)'
<1>1. /\ wait = 0 /\ passed \in 0..Huge /\ clock_adjust \in Int /\ trouble \in Nat
      /\ trouble <= MaxTrouble /\ clock_adjust' = Adjusted(passed) /\ due \in Nat
      /\ tick_count \in 0..TICKS_FOR_SYNC - 1 /\ turbo \in BOOLEAN
  BY Constants DEF Control, IInv, TypeOK
<1>2. /\ now' = now /\ clock' = clock /\ due' = due /\ begin' = begin
      /\ tick_count' = tick_count /\ turbo' = turbo
  BY DEF Control
<1>3. passed' = 0 \/ passed' = Huge
  BY DEF Control
<1>4. wait' \in Nat /\ wait' >= SECOND + least /\ wait' >= SECOND
  <2>1. PICK late \in LATE : wait' = SECOND + late
    BY DEF Control
  <2>2. late \in Nat /\ late >= least
    BY Constants DEF Room
  <2>3. SECOND \in Nat
    BY Constants
  <2>. QED  BY <2>1, <2>2, <2>3
<1>5. \/ slow' = FALSE /\ trouble' = trouble
      \/ slow' = TRUE /\ trouble' = trouble + 1 /\ trouble < MaxTrouble
  BY DEF Control, Troubled
<1>6. /\ clock_adjust' \in Int /\ clock_adjust' <= clock_adjust + GRANULARITY
      /\ clock_adjust' > clock_adjust => ~turbo /\ passed < CLOCK_SPEED
  BY <1>1, Constants, HugeIsMore DEF Adjusted
<1>7. TypeOK'
  <2>1. emulation_speed' \in 0..Huge
    BY <1>1 DEF Control
  <2>2. passed' \in 0..Huge
    BY <1>3, HugeIsMore
  <2>3. beyond' \in BOOLEAN
    BY DEF Control, IInv, TypeOK
  <2>4. trouble' \in 0..MaxTrouble
    BY <1>1, <1>5, Constants
  <2>5. slow' \in BOOLEAN
    BY <1>5
  <2>. QED  BY <1>2, <1>4, <1>6, <2>1, <2>2, <2>3, <2>4, <2>5 DEF IInv, TypeOK
<1>8. Dues'
  BY <1>2 DEF IInv, Dues
<1>9. ~turbo => Ending'
  <2>1. Span(TICKS_FOR_SYNC - 1 - tick_count) <= Span(TICKS_FOR_SYNC - 1)
    BY <1>1, Constants, SpanGrows
  <2>2. Span(TICKS_FOR_SYNC - 1 - tick_count) \in Int /\ Span(TICKS_FOR_SYNC - 1) \in Int
    BY <1>1, Constants, Spans
  <2>3. CASE clock = "cycle"
    BY <1>1, <1>2, <1>4, <2>1, <2>2, <2>3, Constants DEF IInv, Dues, Ending
  <2>4. CASE clock # "cycle"
    <3>1. due <= SECOND + SECOND + OVERSLEEP
      BY <2>4 DEF IInv, Dues
    <3>2. SECOND \in Nat /\ OVERSLEEP \in Nat /\ due \in Nat
      BY <1>1, Constants
    <3>3. ASSUME NEW s \in Nat, NEW o \in Nat, NEW d \in Nat, NEW w \in Nat,
                 d <= s + s + o, w >= s
          PROVE  d <= w + s + o
      BY <3>3
    <3>4. due <= wait' + SECOND + OVERSLEEP
      BY <1>4, <3>1, <3>2, <3>3
    <3>. QED  BY <1>2, <2>4, <3>4 DEF Ending
  <2>. QED  BY <2>3, <2>4
<1>10. clock = "sleep" /\ due <= SECOND + OVERSLEEP => Even'
  <2>1. SECOND \in Nat /\ OVERSLEEP \in Nat /\ due \in Nat
    BY <1>1, Constants
  <2>2. ASSUME NEW s \in Nat, NEW o \in Nat, NEW d \in Nat, NEW w \in Nat, d <= s + o, w >= s
        PROVE  d <= w + o
    BY <2>2
  <2>3. due <= SECOND + OVERSLEEP => due <= wait' + OVERSLEEP
    BY <1>4, <2>1, <2>2
  <2>. QED  BY <1>2, <2>3 DEF Even
<1>11. Even => Even'
  <2>1. clock = "cycle" \/ clock = "sleep"
    BY DEF IInv, TypeOK
  <2>. QED  BY <1>2, <1>10, <2>1 DEF Even
<1>12. ~Ended
  BY <1>1, Constants DEF Ended
<1>13. Ending /\ clock = "cycle" => Ended'
  <2>. SUFFICES ASSUME Ending, clock = "cycle" PROVE Ended'
    OBVIOUS
  <2>. DEFINE n == TICKS_FOR_SYNC - 1 - tick_count
  <2>1. n \in Nat /\ Span(n) \in Int /\ Span(0) = 0 /\ Span(1) = FAST
    BY <1>1, Constants, Spans
  <2>2. due + Span(n) <= 0
    BY <1>1 DEF Ending
  <2>3. n = 0
    <3>1. n >= 1 => Span(1) <= Span(n)
      BY <2>1, SpanGrows
    <3>2. 0 <= Span(n)
      BY <2>1, SpanGrows
    <3>. HIDE DEF n
    <3>. QED  BY <1>1, <2>1, <2>2, <3>1, Constants
  <2>4. due = 0
    <3>. HIDE DEF n
    <3>. QED  BY <1>1, <2>1, <2>2, <2>3
  <2>5. tick_count + 1 = TICKS_FOR_SYNC
    BY <1>1, <2>3, Constants
  <2>. QED  BY <1>2, <1>4, <2>4, <2>5, Constants DEF Ended
<1>14. Even /\ Owes(0, steady)' => OnCourse(least)'
  <2>. SUFFICES ASSUME Even, Owes(0, steady)', passed' = 0 PROVE OnCourse(least)'
    BY <1>3, HugeIsMore, Constants DEF OnCourse
  <2>1. /\ Rest' \in Int /\ Rest' > OVERSLEEP /\ Rest \in Int /\ Rest' >= Rest - GRANULARITY
    <3>1. Span(TICKS_FOR_SYNC) \in Int
      BY Constants, Spans
    <3>2. trouble' \in 0..MaxTrouble /\ Credit(trouble') \in Nat
      BY <1>7, Constants, Credits DEF TypeOK
    <3>3. clock_adjust' < steady + GRANULARITY + Credit(trouble')
      BY <1>6, <3>2, Constants DEF Owes
    <3>4. clock_adjust' + Span(TICKS_FOR_SYNC) < BUDGET
      BY <1>6, <3>2, <3>3, CreditFits
    <3>. QED  BY <1>1, <1>6, <3>1, <3>4, Constants DEF Rest
  <2>2. Ahead' + TICKS_FOR_SYNC * GRANULARITY \in Nat
    <3>1. CASE clock = "cycle"
      <4>1. Rest' * (TICKS_FOR_SYNC - tick_count) \in Nat
        <5>1. Rest' \in Nat /\ TICKS_FOR_SYNC - tick_count \in Nat
          BY <1>1, <2>1, Constants
        <5>. QED  BY <5>1, Product
      <4>2. TICKS_FOR_SYNC * (FAST - due) \in Nat
        <5>1. FAST - due \in Nat
          BY <1>1, <3>1, Constants DEF Even
        <5>. QED  BY <5>1, Constants, Product
      <4>3. TICKS_FOR_SYNC * GRANULARITY \in Nat
        BY Constants, Product
      <4>. QED  BY <1>2, <3>1, <4>1, <4>2, <4>3 DEF Ahead
    <3>2. CASE clock # "cycle"
      <4>1. Rest' - due + GRANULARITY \in Nat
        <5>1. due <= Rest \/ due <= OVERSLEEP
          BY <1>1, <3>2, Constants DEF Even
        <5>2. ASSUME NEW r \in Int, NEW s \in Int, NEW d \in Nat,
                     s > OVERSLEEP, s >= r - GRANULARITY, d <= r \/ d <= OVERSLEEP
              PROVE  s - d + GRANULARITY \in Nat
          <6>1. s + GRANULARITY \in Int /\ d \in Int /\ d <= s + GRANULARITY
            BY <5>2, Constants
          <6>2. (s + GRANULARITY) - d \in Nat
            BY <6>1, Difference
          <6>. QED  BY <5>2, <6>2, Constants
        <5>. QED  BY <1>1, <2>1, <5>1, <5>2
      <4>2. TICKS_FOR_SYNC * (Rest' - due + GRANULARITY) \in Nat
        BY <4>1, Constants, Product
      <4>3. TICKS_FOR_SYNC * (Rest' - due + GRANULARITY)
              = TICKS_FOR_SYNC * (Rest' - due) + TICKS_FOR_SYNC * GRANULARITY
        BY <1>1, <2>1, Constants
      <4>. QED  BY <1>2, <3>2, <4>2, <4>3 DEF Ahead
    <3>. QED  BY <3>1, <3>2
  <2>3. TICKS_FOR_SYNC * wait' >= TICKS_FOR_SYNC * (SECOND + least)
    <3>1. wait' - (SECOND + least) \in Nat
      <4>1. wait' \in Int /\ SECOND + least \in Int /\ SECOND + least <= wait'
        BY <1>4, Constants
      <4>. QED  BY <4>1, Difference
    <3>2. TICKS_FOR_SYNC * (wait' - (SECOND + least)) \in Nat
      BY <3>1, Constants, Product
    <3>3. TICKS_FOR_SYNC * (wait' - (SECOND + least))
            = TICKS_FOR_SYNC * wait' - TICKS_FOR_SYNC * (SECOND + least)
      BY <1>4, Constants
    <3>4. TICKS_FOR_SYNC * wait' \in Int /\ TICKS_FOR_SYNC * (SECOND + least) \in Int
      BY <1>4, Constants
    <3>. QED  BY <3>2, <3>3, <3>4
  <2>4. TICKS_FOR_SYNC * (SECOND + least - GRANULARITY)
          = TICKS_FOR_SYNC * (SECOND + least) - TICKS_FOR_SYNC * GRANULARITY
    BY Constants
  <2>5. passed' * (BUDGET + OVERSLEEP - clock_adjust') = 0
    <3>1. BUDGET + OVERSLEEP - clock_adjust' \in Int
      BY <1>6, Constants
    <3>2. \A x \in Int : 0 * x = 0
      OBVIOUS
    <3>. QED  BY <3>1, <3>2
  <2>6. /\ TICKS_FOR_SYNC * wait' \in Int /\ TICKS_FOR_SYNC * (SECOND + least) \in Int
        /\ TICKS_FOR_SYNC * GRANULARITY \in Int
    BY <1>4, Constants
  <2>7. Ahead' \in Int
    <3>1. /\ Rest' * (TICKS_FOR_SYNC - tick_count) \in Int
          /\ TICKS_FOR_SYNC * (FAST - due) \in Int /\ TICKS_FOR_SYNC * (Rest' - due) \in Int
      BY <1>1, <2>1, Constants
    <3>. QED  BY <1>2, <3>1 DEF Ahead
  <2>8. passed' * (BUDGET + OVERSLEEP - clock_adjust') + Ahead' + TICKS_FOR_SYNC * wait'
          >= TICKS_FOR_SYNC * (SECOND + least - GRANULARITY)
    <3>1. ASSUME NEW p \in Int, NEW a \in Int, NEW w \in Int, NEW q \in Int, NEW x \in Int,
                 NEW t \in Int, p = 0, a + t \in Nat, w >= q, x = q - t
          PROVE  p + a + w >= x
      BY <3>1
    <3>2. passed' * (BUDGET + OVERSLEEP - clock_adjust') \in Int
      BY <2>5
    <3>3. TICKS_FOR_SYNC * (SECOND + least - GRANULARITY) \in Int
      BY <2>4, <2>6
    <3>. QED  BY <2>2, <2>3, <2>4, <2>5, <2>6, <2>7, <3>1, <3>2, <3>3
  <2>. QED  BY <2>8 DEF OnCourse
<1>15. OnCourse(least) /\ passed < CLOCK_SPEED => clock_adjust < steady
  BY <1>1, SlowWhenSmall
<1>16. CASE slow' = TRUE
  <2>1. Credit(trouble) \in Nat /\ Credit(trouble') = Credit(trouble) + 3 * GRANULARITY
    BY <1>1, <1>5, <1>16, Credits
  <2>2. clock_adjust' < steady + GRANULARITY + Credit(trouble)
    BY <1>1, <1>6, <1>15, <2>1, Constants DEF IInv, Debts, Owes
  <2>3. Owes(3, steady)'
    BY <1>6, <2>1, <2>2, Constants DEF Owes
  <2>. QED  BY <1>7, <1>8, <2>3 DEF IInv, Debts
<1>17. CASE slow' = FALSE
  <2>1. trouble' = trouble /\ (Quiet' <=> ~turbo) /\ Credit(trouble) \in Nat
    BY <1>1, <1>2, <1>5, <1>17, Credits DEF Quiet
  <2>2. CASE Owes(3, steady)
    <3>1. Owes(3, steady)' \/ (~turbo /\ Owes(2, steady)')
      BY <1>1, <1>6, <2>1, <2>2, Constants DEF Owes
    <3>. QED  BY <1>7, <1>8, <1>9, <2>1, <3>1 DEF IInv, Debts
  <2>3. CASE Quiet /\ Owes(2, steady) /\ Ending
    <3>1. Owes(1, steady)' /\ Quiet'
      BY <1>1, <1>6, <2>1, <2>3, Constants DEF Owes, Quiet
    <3>2. clock = "sleep" => due <= SECOND + OVERSLEEP
      BY <1>1, <2>3, Constants DEF Ending
    <3>3. Even' \/ Ended'
      BY <1>10, <1>13, <2>3, <3>2 DEF IInv, TypeOK
    <3>. QED  BY <1>7, <1>8, <3>1, <3>3 DEF IInv, Debts
  <2>4. CASE Quiet /\ Owes(1, steady) /\ Even
    <3>1. Owes(0, steady)' /\ Quiet'
      BY <1>1, <1>6, <2>1, <2>4, Constants DEF Owes, Quiet
    <3>. QED  BY <1>7, <1>8, <1>11, <1>14, <2>4, <3>1 DEF IInv, Debts
  <2>5. CASE Quiet /\ Owes(0, steady) /\ Even /\ OnCourse(least)
    <3>1. Owes(0, steady)' /\ Quiet'
      BY <1>1, <1>6, <1>15, <2>1, <2>5, Constants DEF Owes, Quiet
    <3>. QED  BY <1>7, <1>8, <1>11, <1>14, <2>5, <3>1 DEF IInv, Debts
  <2>. QED  BY <1>12, <2>2, <2>3, <2>4, <2>5 DEF IInv, Debts
<1>. QED  BY <1>5, <1>16, <1>17

LEMMA TurboKeeps ==
  ASSUME NEW steady \in Nat, NEW least \in Nat, Room(steady, least), IInv(steady, least), Turbo
  PROVE  IInv(steady, least)'
<1>1. /\ clock' = clock /\ due' = due /\ tick_count' = tick_count /\ clock_adjust' = clock_adjust
      /\ clock_adjust \in Int /\ trouble \in Nat /\ slow' = slow
      /\ trouble' = trouble \/ trouble' = trouble + 1
  BY Constants DEF Turbo, Troubled, IInv, TypeOK
<1>2. TypeOK'
  BY Constants DEF Turbo, Troubled, IInv, TypeOK
<1>3. Dues'
  BY <1>1 DEF IInv, Dues
<1>4. Owes(3, steady)'
  <2>1. CASE turbo
    <3>1. trouble' = trouble /\ Owes(3, steady)
      BY <2>1 DEF Turbo, IInv, Debts, Quiet
    <3>. QED  BY <1>1, <3>1 DEF Owes
  <2>2. CASE ~turbo
    <3>1. trouble' = trouble + 1
      BY <2>2 DEF Turbo, Troubled
    <3>2. Credit(trouble) \in Nat /\ Credit(trouble') = Credit(trouble) + 3 * GRANULARITY
      BY <1>1, <3>1, Credits
    <3>3. clock_adjust < steady + GRANULARITY + Credit(trouble)
      BY <1>1, <3>2, Constants DEF IInv, Debts, Owes
    <3>. QED  BY <1>1, <3>2, <3>3, Constants DEF Owes
  <2>. QED  BY <2>1, <2>2
<1>. QED  BY <1>2, <1>3, <1>4 DEF IInv, Debts

LEMMA LoadKeeps ==
  ASSUME NEW steady \in Nat, NEW least \in Nat, Room(steady, least), IInv(steady, least), Load
  PROVE  IInv(steady, least)'
<1>1. /\ clock' = clock /\ due' = due /\ clock_adjust' = clock_adjust
      /\ clock_adjust \in Int /\ trouble \in Nat /\ trouble' = trouble + 1
  BY Constants DEF Load, Troubled, IInv, TypeOK
<1>2. TypeOK'
  BY Constants, HugeIsMore DEF Load, Troubled, IInv, TypeOK
<1>3. Dues'
  BY <1>1 DEF IInv, Dues
<1>4. Owes(3, steady)'
  <2>1. Credit(trouble) \in Nat /\ Credit(trouble') = Credit(trouble) + 3 * GRANULARITY
    BY <1>1, Credits
  <2>2. clock_adjust < steady + GRANULARITY + Credit(trouble)
    BY <1>1, <2>1, Constants DEF IInv, Debts, Owes
  <2>. QED  BY <1>1, <2>1, <2>2, Constants DEF Owes
<1>. QED  BY <1>2, <1>3, <1>4 DEF IInv, Debts

LEMMA StutterKeeps ==
  ASSUME NEW steady \in Nat, NEW least \in Nat, IInv(steady, least), UNCHANGED vars
  PROVE  IInv(steady, least)'
BY DEF IInv, TypeOK, Dues, Debts, Owes, Quiet, Ending, Ended, Even, OnCourse, Ahead, Rest, vars

LEMMA InitStarts ==
  ASSUME NEW steady \in Nat \ {0}, NEW least \in Nat, Init
  PROVE  IInv(steady, least)
<1>1. Span(1) = FAST /\ Span(0 + 1) = FAST
  BY Spans
<1>2. TypeOK
  <2>1. now \in 0..SECOND - 1 /\ begin \in 0..SECOND - 1
    BY DEF Init
  <2>2. 0 \in 0..Huge /\ 0 \in 0..MaxTrouble /\ 0 \in 0..TICKS_FOR_SYNC - 1
    BY Constants, HugeIsMore
  <2>3. SECOND \in Nat /\ FAST \in Nat /\ 0 \in Int
    BY Constants
  <2>. QED  BY <2>1, <2>2, <2>3 DEF Init, TypeOK
<1>3. Dues
  <2>1. TICKS_FOR_SYNC - 1 \in Int /\ (TICKS_FOR_SYNC - 1) + 1 = TICKS_FOR_SYNC
    BY Constants
  <2>2. Span(TICKS_FOR_SYNC) = Span(TICKS_FOR_SYNC - 1) + FAST
    BY <2>1, Spans
  <2>3. Span(TICKS_FOR_SYNC - 1) \in Int
    BY <2>1, Spans
  <2>. QED  BY <2>2, <2>3, Constants DEF Init, Dues
<1>4. Quiet /\ Owes(1, steady)
  BY Credits, Constants DEF Init, Quiet, Owes
<1>5. Even
  BY <1>1, <1>2, Constants DEF Init, TypeOK, Even
<1>. QED  BY <1>2, <1>3, <1>4, <1>5 DEF IInv, Debts

(***************************************************************************)
(* At every point of a behaviour the correction is at most one step above  *)
(* steady, and three for every bad second so far, less those that may      *)
(* still come; and an undisturbed second that is not owed one is on course *)
(* for CLOCK_SPEED cycles (clock_run in clock.c, main_loop in apple1.c).   *)
(***************************************************************************)
THEOREM CorrectionBounded ==
  ASSUME NEW steady \in Nat \ {0}, NEW least \in Nat, Room(steady, least)
  PROVE  Spec => []IInv(steady, least)
<1>1. Init => IInv(steady, least)
  BY InitStarts
<1>2. IInv(steady, least) /\ [Next]_vars => IInv(steady, least)'
  BY AdvanceKeeps, CycleKeeps, SyncKeeps, WakeKeeps, ControlKeeps, TurboKeeps, LoadKeeps,
     StutterKeeps DEF Next, Run
<1>. QED  BY <1>1, <1>2, PTL DEF Spec

(***************************************************************************)
(* The clock thread goes on sleeping between batches: clock_adjust never   *)
(* takes the whole of what a batch leaves (clock_run, main_loop), for all  *)
(* speeds, batch sizes, granularities and slow cycles for which there is   *)
(* room.                                                                   *)
(***************************************************************************)
THEOREM ClockPaced ==
  ASSUME NEW steady \in Nat \ {0}, NEW least \in Nat, Room(steady, least)
  PROVE  Spec => []Paced
<1>1. IInv(steady, least) => Paced
  <2>. SUFFICES ASSUME IInv(steady, least) PROVE Paced
    OBVIOUS
  <2>1. clock_adjust + FAST * TICKS_FOR_SYNC < BUDGET
    BY RestIsLeft DEF Span
  <2>. QED  BY <2>1 DEF IInv, Paced
<1>. QED  BY <1>1, CorrectionBounded, PTL
=============================================================================
