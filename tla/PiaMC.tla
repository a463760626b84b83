------------------------------- MODULE PiaMC -------------------------------
(***************************************************************************)
(* Pia with two kinds of program: one that does any access to one side in  *)
(* any cycle, and one that echoes the keyboard on the display the way a    *)
(* monitor does.  No ROM is in the repository (README.md, "ROMs are not    *)
(* provided"): the monitor follows the protocol that pia6821.h states for  *)
(* the registers' high bits.                                               *)
(***************************************************************************)
EXTENDS Pia, SequencesExt

CONSTANT MaxTyped    \* characters typed to the monitor

VARIABLES
  program,    \* where the program is
  typed,      \* what the keys that the monitor's user has typed look like
  shown       \* what the monitor's user sees

mcvars == <<vars, program, typed, shown>>

MCKeys == {10, 97, 123, TILDE_KEY, ESC_KEY}    \* return a { ` escape

(* The two sides share nothing but the buses: a program is free on one.    *)
(* Control words 0 and 4 select the direction and the data register.       *)
Bus == [
  keyboard |-> [RW : {TRUE}, addr : {"KBD", "KBDCR", "elsewhere"}, data : {0}]
               \cup [RW : {FALSE}, addr : {"KBD", "KBDCR"}, data : {0, 4}],
  screen   |-> [RW : {TRUE}, addr : {"DSP", "DSPCR", "elsewhere"}, data : {0}]
               \cup [RW : {FALSE}, addr : {"DSP", "DSPCR"}, data : {0, 4, 13, 193}]]

Free == DOMAIN Bus

Write(r, d) == [RW |-> FALSE, addr |-> r, data |-> d]
Read(r)     == [RW |-> TRUE, addr |-> r, data |-> 0]

MCAccesses == UNION {Bus[p] : p \in Free} \cup [RW : {TRUE}, addr : Address, data : {0}]
                  \cup [RW : {FALSE}, addr : {"KBDCR", "DSPCR"}, data : {167}]
                  \cup [RW : {FALSE}, addr : {"DSP"}, data : Byte]

(* One bus cycle of the program; to is where it goes on. *)
Does(a, to) == CpuCycle(a) /\ program' = to

AnyProgram == program \in Free /\ \E a \in Bus[program] : Does(a, program)

Monitor ==
  \/ program = "kbdcr" /\ Does(Write("KBDCR", 167), "dspcr")
  \/ program = "dspcr" /\ Does(Write("DSPCR", 167), "ask")
  \/ program = "ask" /\ Does(Read("KBDCR"), "poll")
  \/ program = "poll" /\ bus.data < 128 /\ Does(Read("KBDCR"), "poll")
  \/ program = "poll" /\ bus.data >= 128 /\ Does(Read("KBD"), "echo")
  \/ program = "echo" /\ Does(Write("DSP", bus.data), "wait")
  \/ program = "wait" /\ Does(Read("DSP"), "drain")
  \/ program = "drain" /\ bus.data >= 128 /\ Does(Read("DSP"), "drain")
  \/ program = "drain" /\ bus.data < 128 /\ Does(Read("KBDCR"), "poll")

MCInit ==
  /\ Init
  /\ program \in Free \cup {"kbdcr"}
  /\ typed = <<>> /\ shown = <<>>

(* The character that a key looks like on the screen: 0 if there is none, *)
(* for a key without translation or a control character.                  *)
Echo(key) == apple_to_ascii(ascii_to_apple(key))

(* The text, with the character c if the monitor's user is at the screen.  *)
With(text, c) == IF program \in Free \/ c = 0 THEN text ELSE Append(text, c)

(* The monitor's user types at most MaxTyped characters, and none before   *)
(* the monitor has set up the registers: that would lower the ready bit.   *)
MCTypes ==
  /\ program \notin Free => Len(typed) < MaxTyped /\ program \notin {"kbdcr", "dspcr"}
  /\ InputTypes
  /\ typed' = With(typed, Echo(pressed_key))
  /\ UNCHANGED <<program, shown>>

MCDisplay ==
  /\ Display
  /\ shown' = With(shown, Printed)
  /\ UNCHANGED <<program, typed>>

(* With the keyboard out of the way, the cursor is all that keys change. *)
MCRead ==
  /\ InputRead
  /\ program = "screen" => pressed_key' = TILDE_KEY
  /\ UNCHANGED <<program, typed, shown>>

Others ==
  /\ InputReady \/ InputNothing \/ InputClears \/ InputCommands
     \/ TestReady \/ Latch \/ ClearReady \/ BusRead \/ BusWrite
  /\ UNCHANGED <<program, typed, shown>>

MCProgram == (AnyProgram \/ Monitor) /\ UNCHANGED <<typed, shown>>

MCNext == MCTypes \/ MCRead \/ MCDisplay \/ Others \/ MCProgram

MCSpec == MCInit /\ [][MCNext]_mcvars

(* Both threads run; whether anything is typed is up to the user. *)
MCFairSpec ==
  /\ MCSpec
  /\ WF_mcvars(MCProgram \/ MCDisplay
               \/ ((TestReady \/ Latch \/ ClearReady \/ BusRead \/ BusWrite)
                   /\ UNCHANGED <<program, typed, shown>>))

----------------------------------------------------------------------------
(***************************************************************************)
(* A monitor that polls the ready bit, reads the key and waits for the     *)
(* display shows what was typed, in order, each character once             *)
(* (clock_pia, process_peripheral_A and B, the two tables).                *)
(***************************************************************************)
EchoInOrder == IsPrefix(shown, typed)

(***************************************************************************)
(* Everything that was typed before a key without translation is shown at  *)
(* last, with no fairness of the input thread at all: a key that has       *)
(* reached data_ready cannot be lost between the threads.                  *)
(***************************************************************************)
KeysShown ==
  \A n \in 1..MaxTyped : (Len(typed) >= n) ~> (Len(shown) >= n)
=============================================================================
