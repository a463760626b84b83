---------------------------- MODULE Checkpoint ----------------------------
(***************************************************************************)
(* What F6, F7 and the debugger promise: a machine that runs, is saved as  *)
(* it stands between two steps, and is taken back to what was saved.       *)
(* Nothing else touches it but the debugger's set.  A save that fails may  *)
(* cost the checkpoint; a load that fails changes nothing.                 *)
(***************************************************************************)
CONSTANTS
  Regs,           \* what the processor's registers may hold
  Byte, Address,
  Ram,            \* the addresses of RAM
  NoCheckpoint

VARIABLES R, addr_bus, data_bus, RW, mem, checkpoint

machine == <<R, addr_bus, data_bus, RW, mem>>
vars == <<R, addr_bus, data_bus, RW, mem, checkpoint>>

Init ==
  /\ R \in Regs /\ addr_bus \in Address /\ data_bus \in Byte /\ RW \in BOOLEAN
  /\ mem \in [Ram -> Byte]
  /\ checkpoint = NoCheckpoint

(* The processor's half of a cycle. *)
Run ==
  /\ R' \in Regs /\ addr_bus' \in Address /\ RW' \in BOOLEAN
  /\ data_bus' \in Byte /\ (RW' => data_bus' = data_bus)
  /\ UNCHANGED <<mem, checkpoint>>

(* The chips' half: what is no RAM may answer anything, even a write. *)
Answers ==
  /\ RW \/ addr_bus \notin Ram
  /\ data_bus' \in IF addr_bus \in Ram THEN {mem[addr_bus]} ELSE Byte
  /\ UNCHANGED <<R, addr_bus, RW, mem, checkpoint>>

Writes ==
  /\ ~RW /\ addr_bus \in Ram
  /\ mem' = [mem EXCEPT ![addr_bus] = data_bus]
  /\ UNCHANGED <<R, addr_bus, data_bus, RW, checkpoint>>

Save ==
  /\ checkpoint' = [R |-> R, addr_bus |-> addr_bus, data_bus |-> data_bus, RW |-> RW,
                    mem |-> mem]
  /\ UNCHANGED machine

Forget == checkpoint' = NoCheckpoint /\ UNCHANGED machine

Load ==
  /\ checkpoint # NoCheckpoint
  /\ R' = checkpoint.R /\ mem' = checkpoint.mem
  /\ addr_bus' = checkpoint.addr_bus /\ data_bus' = checkpoint.data_bus
  /\ RW' = checkpoint.RW
  /\ UNCHANGED checkpoint

SetRegister ==
  /\ R' \in Regs
  /\ UNCHANGED <<addr_bus, data_bus, RW, mem, checkpoint>>

SetByte ==
  /\ \E a \in Ram, v \in Byte : mem' = [mem EXCEPT ![a] = v]
  /\ UNCHANGED <<R, addr_bus, data_bus, RW, checkpoint>>

Next ==
  \/ Run \/ Answers \/ Writes
  \/ Save \/ Forget \/ Load
  \/ SetRegister \/ SetByte

Spec == Init /\ [][Next]_vars
=============================================================================
