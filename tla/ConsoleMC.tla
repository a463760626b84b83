----------------------------- MODULE ConsoleMC -----------------------------
(***************************************************************************)
(* Console with one byte of RAM, of ROM, and of the PIA each.              *)
(***************************************************************************)
EXTENDS Console

MCRomData == [a \in Rom |-> 1]
=============================================================================
