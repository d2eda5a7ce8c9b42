------------------------------ MODULE EvmStack ------------------------------
(***************************************************************************)
(* What the interpreter's stack machine promises: the EVM's definition of  *)
(* PUSH, POP, DUPn, SWAPn and the word-arithmetic opcodes over unsigned    *)
(* words, written from that definition and not from the code.  Every      *)
(* exceptional halt (too few operands, more than StackLimit words, an      *)
(* opcode not yet introduced) is one outcome, "exception", after which     *)
(* the frame holds nothing.  Stack.tla implements this specification.     *)
(***************************************************************************)
EXTENDS Integers, Sequences

LOCAL INSTANCE FiniteSetsExt

CONSTANTS ByteBits, WordBytes, StackLimit, Rev, Pushes, Ops, DupMax

VARIABLES stack, status

WordBits == ByteBits * WordBytes
TT == 2^WordBits
TTM1 == TT - 1
Word == 0 .. TTM1

Bit(x, i) == (x \div 2^i) % 2
AbsInt(x) == IF x < 0 THEN -x ELSE x
SignOf(x) == IF x > 0 THEN 1 ELSE IF x < 0 THEN -1 ELSE 0

(***************************************************************************)
(* The opcodes over the integers: unsigned words, their two's complement   *)
(* reading, and division that truncates toward zero.                       *)
(***************************************************************************)
Signed(x) == IF x < TT \div 2 THEN x ELSE x - TT
Unsigned(n) == n % TT
Truncate(n, d) == SignOf(n) * SignOf(d) * (AbsInt(n) \div AbsInt(d))
RECURSIVE Power(_, _)
Power(a, e) == IF e = 0 THEN 1
               ELSE LET h == Power(a, e \div 2)
                    IN (((h * h) % TT) * (IF e % 2 = 1 THEN a ELSE 1)) % TT
BitwiseRef(a, b, f) ==
  MapThenSumSet(LAMBDA i : 2^i * f[Bit(a, i), Bit(b, i)], 0 .. WordBits - 1)
AndTable == [p \in {0, 1} \X {0, 1} |-> p[1] * p[2]]
OrTable == [p \in {0, 1} \X {0, 1} |-> IF p[1] + p[2] > 0 THEN 1 ELSE 0]
XorTable == [p \in {0, 1} \X {0, 1} |-> (p[1] + p[2]) % 2]
Flag(b) == IF b THEN 1 ELSE 0
SignExtendRef(b, x) ==
  IF b >= WordBytes - 1 THEN x
  ELSE LET t == ByteBits * (b + 1) - 1
       IN (x % 2^(t + 1)) + Bit(x, t) * (TT - 2^(t + 1))

Reference(op, a, b, c) ==
  CASE op = "ADD" -> Unsigned(a + b)
    [] op = "MUL" -> Unsigned(a * b)
    [] op = "SUB" -> Unsigned(a - b)
    [] op = "DIV" -> IF b = 0 THEN 0 ELSE a \div b
    [] op = "SDIV" -> IF b = 0 THEN 0 ELSE Unsigned(Truncate(Signed(a), Signed(b)))
    [] op = "MOD" -> IF b = 0 THEN 0 ELSE a % b
    [] op = "SMOD" -> IF b = 0 THEN 0
                      ELSE Unsigned(SignOf(Signed(a)) * (AbsInt(Signed(a)) % AbsInt(Signed(b))))
    [] op = "ADDMOD" -> IF c = 0 THEN 0 ELSE (a + b) % c
    [] op = "MULMOD" -> IF c = 0 THEN 0 ELSE (a * b) % c
    [] op = "EXP" -> Power(a, b)
    [] op = "SIGNEXTEND" -> SignExtendRef(a, b)
    [] op = "LT" -> Flag(a < b)
    [] op = "GT" -> Flag(a > b)
    [] op = "SLT" -> Flag(Signed(a) < Signed(b))
    [] op = "SGT" -> Flag(Signed(a) > Signed(b))
    [] op = "EQ" -> Flag(a = b)
    [] op = "ISZERO" -> Flag(a = 0)
    [] op = "AND" -> BitwiseRef(a, b, AndTable)
    [] op = "OR" -> BitwiseRef(a, b, OrTable)
    [] op = "XOR" -> BitwiseRef(a, b, XorTable)
    [] op = "NOT" -> TTM1 - a
    [] op = "BYTE" -> IF a >= WordBytes THEN 0
                      ELSE (b \div 2^(ByteBits * (WordBytes - 1 - a))) % 2^ByteBits
    [] op = "SHL" -> IF a >= WordBits THEN 0 ELSE (b * 2^a) % TT
    [] op = "SHR" -> IF a >= WordBits THEN 0 ELSE b \div 2^a
    [] op = "SAR" -> IF a >= WordBits THEN (IF Signed(b) < 0 THEN TTM1 ELSE 0)
                     ELSE Unsigned(Signed(b) \div 2^a)

\* The operands each opcode takes, and whether the revision defines it
\* (the shifts came with Constantinople, revision 5).
Operands(op) == CASE op \in {"ISZERO", "NOT"} -> 1
                  [] op \in {"ADDMOD", "MULMOD"} -> 3
                  [] OTHER -> 2
Defined(op) == op \in {"SHL", "SHR", "SAR"} => Rev >= 5

-----------------------------------------------------------------------------
Init == stack = << >> /\ status = "running"

Peek(n) == stack[Len(stack) - n + 1]
Rest(n) == SubSeq(stack, 1, Len(stack) - n)

Throw == status' = "exception" /\ stack' = << >>

\* An instruction that needs `need` words and leaves s; too few words, or
\* more than StackLimit after it, is an exceptional halt.
Exec(need, s) ==
  /\ status = "running"
  /\ IF Len(stack) < need \/ Len(s) > StackLimit THEN Throw
     ELSE stack' = s /\ UNCHANGED status

PushWord(v) == Exec(0, Append(stack, v))
PopWord == Exec(1, IF stack = << >> THEN stack ELSE Rest(1))
DupWord(n) == Exec(n, IF Len(stack) < n THEN stack ELSE Append(stack, Peek(n)))
SwapWord(n) ==
  Exec(n + 1, IF Len(stack) < n + 1 THEN stack
              ELSE [stack EXCEPT ![Len(stack)] = Peek(n + 1),
                                 ![Len(stack) - n] = Peek(1)])
Compute(op) ==
  LET k == Operands(op)
      arg(i) == IF i <= k /\ i <= Len(stack) THEN Peek(i) ELSE 0
  IN IF ~Defined(op) THEN status = "running" /\ Throw
     ELSE Exec(k, IF Len(stack) < k THEN stack
                  ELSE Append(Rest(k), Reference(op, arg(1), arg(2), arg(3))))

Next ==
  \/ \E v \in Pushes : PushWord(v)
  \/ PopWord
  \/ \E n \in 1 .. DupMax : DupWord(n) \/ SwapWord(n)
  \/ \E op \in Ops : Compute(op)

Spec == Init /\ [][Next]_<<stack, status>>
=============================================================================
