---------------------------- MODULE MCInterpreter ----------------------------
(***************************************************************************)
(* Programs for the dispatch loop, each reaching a different way out of    *)
(* Run, with a stack limit of 2 so that overflow is a few pushes away.     *)
(***************************************************************************)
EXTENDS Interpreter

MCCodes == {
  \* JUMPDEST; PUSH1 0; JUMP: a loop that only gas ends.
  << JUMPDEST, PUSH1, 0, JUMP >>,
  \* PUSH1 1; JUMPDEST; DUP1; PUSH1 2; JUMPI: a conditional loop.
  << PUSH1, 1, JUMPDEST, DUP1, PUSH1, 2, JUMPI >>,
  \* JUMPDEST; GAS; PUSH1 0; JUMPI: loops while GAS is non-zero.
  << JUMPDEST, GAS, PUSH1, 0, JUMPI >>,
  \* PUSH1 0x5b; PUSH1 1; JUMP: a jump into the PUSH1 immediate 0x5b.
  << PUSH1, JUMPDEST, PUSH1, 1, JUMP >>,
  \* PUSH1 3; JUMP; PUSH1 0; ISZERO; STOP: a jump to an instruction that is
  \* not a JUMPDEST.
  << PUSH1, 3, JUMP, PUSH1, 0, ISZERO, STOP >>,
  \* JUMPDEST; PC; PUSH1 0; JUMP: the stack grows until it overflows.
  << JUMPDEST, PC, PUSH1, 0, JUMP >>,
  \* PUSH1 9; JUMP past the end; POP on an empty stack; an undefined byte;
  \* a PUSH2 cut short by the end of the code.
  << PUSH1, 9, JUMP >>, << POP >>, << 12 >>, << PUSH1 + 1, 1 >> }
=============================================================================
