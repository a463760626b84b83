----------------------------- MODULE StartupMC -----------------------------
(***************************************************************************)
(* Startup in sixteen addresses: user RAM up to 0..5, the PIA at 6 and 7,  *)
(* extra RAM at 9 and 10, the ROM at 12..15 with the vector in it.  Files  *)
(* are empty, as long as a memory or a byte longer.                        *)
(***************************************************************************)
EXTENDS Startup

MCErrorAlloc == -4
MCErrorRead  == -7
MCErrorOpen  == -8
=============================================================================
