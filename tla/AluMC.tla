------------------------------- MODULE AluMC -------------------------------
(* Every accumulator, operands around every boundary, every carry and mode.*)
EXTENDS AluCheck

AllBytes == Byte

(* All low digits with both signs and all high digits. *)
Chosen == {0, 1, 5, 9, 10, 15, 16, 25, 64, 80, 89, 99, 127, 128, 129, 136, 144,
           153, 154, 192, 240, 249, 254, 255}

Flags == {{}, {CF}, {DF}, {CF, DF}, {VF, IF_}, {CF, VF, IF_}, {DF, VF}, {CF, DF, VF}}
=============================================================================
