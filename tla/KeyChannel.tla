---------------------------- MODULE KeyChannel ----------------------------
(***************************************************************************)
(* What the keyboard interface promises to the program that runs on the    *)
(* Apple I: the keys that were typed, in the order they were typed, each   *)
(* once.  The channel holds at most Capacity keys; a key is lost or        *)
(* changed only by the program's own access to the interface; one key      *)
(* that has no translation jams the channel for good.                      *)
(***************************************************************************)
EXTENDS Naturals, Sequences

CONSTANTS Char, Capacity

VARIABLES
  queue,      \* keys typed and not taken yet
  jammed,     \* a key without translation is at the end of the queue
  request,    \* the program's access that is under way
  received    \* the last key that the program took

vars == <<queue, jammed, request, received>>

Requests == {"none", "take", "drop", "replace"}

Init ==
  /\ queue = <<>> /\ jammed = FALSE /\ request = "none" /\ received = 0

HasRoom == ~jammed /\ Len(queue) < Capacity

Send ==
  /\ HasRoom
  /\ \E c \in Char : queue' = Append(queue, c)
  /\ UNCHANGED <<jammed, request, received>>

Jam ==
  /\ HasRoom
  /\ jammed' = TRUE
  /\ UNCHANGED <<queue, request, received>>

Ask ==
  /\ request = "none"
  /\ request' \in Requests \ {"none"}
  /\ UNCHANGED <<queue, jammed, received>>

Served == request # "none" /\ request' = "none" /\ UNCHANGED jammed

Take ==
  /\ request = "take" /\ queue # <<>>
  /\ received' = Head(queue)
  /\ queue' = Tail(queue)
  /\ Served

Drop ==
  /\ request = "drop" /\ queue # <<>>
  /\ queue' = Tail(queue)
  /\ UNCHANGED received
  /\ Served

Replace ==
  /\ request = "replace" /\ queue # <<>>
  /\ \E c \in Char : queue' = [queue EXCEPT ![1] = c]
  /\ UNCHANGED received
  /\ Served

(* There is no key, or the only key has just been typed. *)
Miss ==
  /\ Len(queue) < Capacity
  /\ UNCHANGED <<queue, received>>
  /\ Served

Next == Send \/ Jam \/ Ask \/ Take \/ Drop \/ Replace \/ Miss

Spec == Init /\ [][Next]_vars
=============================================================================
