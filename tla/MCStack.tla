------------------------------ MODULE MCStack ------------------------------
(***************************************************************************)
(* The operand stack and arithmetic handlers at a 12-bit word (3 bytes of *)
(* 4 bits) with a 6-bit Go int, so that every operand the handlers treat  *)
(* specially is a word: 0, the shift width, the most negative word, -1,   *)
(* and byte indices beyond what an int holds.                             *)
(***************************************************************************)
EXTENDS Stack

\* 0, 1, 3, the word width 12, 2^11 (the most negative word) and 2^12 - 1 (-1).
MCPushes == {0, 1, 3, 12, 2048, 4095}

\* Byte indices for BYTE: in range, just past it, and 65 = 2^6 + 1.
MCBytePushes == {1, 3, 65, 2048}

MCArithOps == {"ADD", "MUL", "SUB", "DIV", "SDIV", "MOD", "SMOD", "EXP",
               "ADDMOD", "MULMOD", "SIGNEXTEND", "LT", "GT", "SLT", "SGT",
               "EQ", "ISZERO", "AND", "OR", "XOR", "NOT", "SHL", "SHR", "SAR"}
=============================================================================
