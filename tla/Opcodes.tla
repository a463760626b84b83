------------------------------ MODULE Opcodes ------------------------------
(***************************************************************************)
(* The decode table of m6502_opcodes.c.  Each of the 151 handlers do_00 to *)
(* do_FE follows one of a few shapes, fixed by the operation it performs   *)
(* and by the get_arg_* function it calls; the table gives that pair, and  *)
(* Microcode.tla gives the shapes their cycles.  An opcode that has no     *)
(* handler runs do_XX.                                                     *)
(*                                                                         *)
(* Operation names are the .name of the Opcode structs.  Addressing modes: *)
(*   impl, acc, imm         no operand, the accumulator, #operand          *)
(*   zpg, zpg_x, zpg_y      get_arg_zero_page, get_arg_zero_page_index     *)
(*   abs, abs_x, abs_y      get_arg_absolute, get_arg_absolute_index       *)
(*   x_ind, ind_y           get_arg_index_indirect, get_arg_indirect_index *)
(*   rel, ind               branch, JMP through a pointer                  *)
(***************************************************************************)
EXTENDS Integers

XX == <<"XX", "impl">>

Row0 == <<
  <<"BRK", "impl">>, <<"ORA", "x_ind">>, XX, XX, XX, <<"ORA", "zpg">>,
  <<"ASL", "zpg">>, XX, <<"PHP", "impl">>, <<"ORA", "imm">>,
  <<"ASL", "acc">>, XX, XX, <<"ORA", "abs">>, <<"ASL", "abs">>, XX >>

Row1 == <<
  <<"BPL", "rel">>, <<"ORA", "ind_y">>, XX, XX, XX, <<"ORA", "zpg_x">>,
  <<"ASL", "zpg_x">>, XX, <<"CLC", "impl">>, <<"ORA", "abs_y">>, XX, XX, XX,
  <<"ORA", "abs_x">>, <<"ASL", "abs_x">>, XX >>

Row2 == <<
  <<"JSR", "abs">>, <<"AND", "x_ind">>, XX, XX, <<"BIT", "zpg">>,
  <<"AND", "zpg">>, <<"ROL", "zpg">>, XX, <<"PLP", "impl">>,
  <<"AND", "imm">>, <<"ROL", "acc">>, XX, <<"BIT", "abs">>, <<"AND", "abs">>,
  <<"ROL", "abs">>, XX >>

Row3 == <<
  <<"BMI", "rel">>, <<"AND", "ind_y">>, XX, XX, XX, <<"AND", "zpg_x">>,
  <<"ROL", "zpg_x">>, XX, <<"SEC", "impl">>, <<"AND", "abs_y">>, XX, XX, XX,
  <<"AND", "abs_x">>, <<"ROL", "abs_x">>, XX >>

Row4 == <<
  <<"RTI", "impl">>, <<"EOR", "x_ind">>, XX, XX, XX, <<"EOR", "zpg">>,
  <<"LSR", "zpg">>, XX, <<"PHA", "impl">>, <<"EOR", "imm">>,
  <<"LSR", "acc">>, XX, <<"JMP", "abs">>, <<"EOR", "abs">>, <<"LSR", "abs">>,
  XX >>

Row5 == <<
  <<"BVC", "rel">>, <<"EOR", "ind_y">>, XX, XX, XX, <<"EOR", "zpg_x">>,
  <<"LSR", "zpg_x">>, XX, <<"CLI", "impl">>, <<"EOR", "abs_y">>, XX, XX, XX,
  <<"EOR", "abs_x">>, <<"LSR", "abs_x">>, XX >>

Row6 == <<
  <<"RTS", "impl">>, <<"ADC", "x_ind">>, XX, XX, XX, <<"ADC", "zpg">>,
  <<"ROR", "zpg">>, XX, <<"PLA", "impl">>, <<"ADC", "imm">>,
  <<"ROR", "acc">>, XX, <<"JMP", "ind">>, <<"ADC", "abs">>, <<"ROR", "abs">>,
  XX >>

Row7 == <<
  <<"BVS", "rel">>, <<"ADC", "ind_y">>, XX, XX, XX, <<"ADC", "zpg_x">>,
  <<"ROR", "zpg_x">>, XX, <<"SEI", "impl">>, <<"ADC", "abs_y">>, XX, XX, XX,
  <<"ADC", "abs_x">>, <<"ROR", "abs_x">>, XX >>

Row8 == <<
  XX, <<"STA", "x_ind">>, XX, XX, <<"STY", "zpg">>, <<"STA", "zpg">>,
  <<"STX", "zpg">>, XX, <<"DEY", "impl">>, XX, <<"TXA", "impl">>, XX,
  <<"STY", "abs">>, <<"STA", "abs">>, <<"STX", "abs">>, XX >>

Row9 == <<
  <<"BCC", "rel">>, <<"STA", "ind_y">>, XX, XX, <<"STY", "zpg_x">>,
  <<"STA", "zpg_x">>, <<"STX", "zpg_y">>, XX, <<"TYA", "impl">>,
  <<"STA", "abs_y">>, <<"TXS", "impl">>, XX, XX, <<"STA", "abs_x">>, XX, XX >>

RowA == <<
  <<"LDY", "imm">>, <<"LDA", "x_ind">>, <<"LDX", "imm">>, XX,
  <<"LDY", "zpg">>, <<"LDA", "zpg">>, <<"LDX", "zpg">>, XX,
  <<"TAY", "impl">>, <<"LDA", "imm">>, <<"TAX", "impl">>, XX,
  <<"LDY", "abs">>, <<"LDA", "abs">>, <<"LDX", "abs">>, XX >>

RowB == <<
  <<"BCS", "rel">>, <<"LDA", "ind_y">>, XX, XX, <<"LDY", "zpg_x">>,
  <<"LDA", "zpg_x">>, <<"LDX", "zpg_y">>, XX, <<"CLV", "impl">>,
  <<"LDA", "abs_y">>, <<"TSX", "impl">>, XX, <<"LDY", "abs_x">>,
  <<"LDA", "abs_x">>, <<"LDX", "abs_y">>, XX >>

RowC == <<
  <<"CPY", "imm">>, <<"CMP", "x_ind">>, XX, XX, <<"CPY", "zpg">>,
  <<"CMP", "zpg">>, <<"DEC", "zpg">>, XX, <<"INY", "impl">>,
  <<"CMP", "imm">>, <<"DEX", "impl">>, XX, <<"CPY", "abs">>,
  <<"CMP", "abs">>, <<"DEC", "abs">>, XX >>

RowD == <<
  <<"BNE", "rel">>, <<"CMP", "ind_y">>, XX, XX, XX, <<"CMP", "zpg_x">>,
  <<"DEC", "zpg_x">>, XX, <<"CLD", "impl">>, <<"CMP", "abs_y">>, XX, XX, XX,
  <<"CMP", "abs_x">>, <<"DEC", "abs_x">>, XX >>

RowE == <<
  <<"CPX", "imm">>, <<"SBC", "x_ind">>, XX, XX, <<"CPX", "zpg">>,
  <<"SBC", "zpg">>, <<"INC", "zpg">>, XX, <<"INX", "impl">>,
  <<"SBC", "imm">>, <<"NOP", "impl">>, XX, <<"CPX", "abs">>,
  <<"SBC", "abs">>, <<"INC", "abs">>, XX >>

RowF == <<
  <<"BEQ", "rel">>, <<"SBC", "ind_y">>, XX, XX, XX, <<"SBC", "zpg_x">>,
  <<"INC", "zpg_x">>, XX, <<"SED", "impl">>, <<"SBC", "abs_y">>, XX, XX, XX,
  <<"SBC", "abs_x">>, <<"INC", "abs_x">>, XX >>

opcodes ==
  LET rows == << Row0, Row1, Row2, Row3, Row4, Row5, Row6, Row7,
                 Row8, Row9, RowA, RowB, RowC, RowD, RowE, RowF >>
  IN  [code \in 0..255 |-> rows[(code \div 16) + 1][(code % 16) + 1]]

(* A defect: STA is not marked as an operation that writes. *)
WriteOpsNoSTA == {"ASL", "ROL", "LSR", "ROR", "INC", "DEC"}

(***************************************************************************)
(* The operations whose Opcode structs have .write = true.  STX and STY    *)
(* write too but are not marked; they have no indexed absolute mode, the   *)
(* only place where the mark is read.                                      *)
(***************************************************************************)
WriteOps == {"ASL", "ROL", "LSR", "ROR", "INC", "DEC", "STA"}
=============================================================================
