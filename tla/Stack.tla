------------------------------- MODULE Stack -------------------------------
(***************************************************************************)
(* The operand stack of the interpreter (evm/state.go: push1, pop, top,    *)
(* peekAt, swap and the two stack checks of the dispatch loop in Run) and  *)
(* the word-arithmetic opcode handlers of part_002 that work on it.        *)
(*                                                                         *)
(* The code computes on math/big integers and truncates to 256 bits with   *)
(* toU256.  Here a word has WordBytes bytes of ByteBits bits (32 bytes of  *)
(* 8 bits in the code), and the Go int/int64/uint that the code converts   *)
(* operands to has IntBits bits (64 in the code).  Every handler is        *)
(* translated with those widths in place of 256, 32, 8 and 64, so each     *)
(* truncation and wrap-around of the code happens here at the smaller      *)
(* width.  The machine is shown to implement EvmStack, the EVM's          *)
(* definition of these opcodes, written from that definition.              *)
(***************************************************************************)
EXTENDS Integers, Sequences

LOCAL INSTANCE Bitwise

CONSTANTS
  ByteBits,     \* bits of a byte (8)
  WordBytes,    \* bytes of a word, wordSize (32)
  IntBits,      \* bits of the Go int64/uint operands are converted to (64)
  StackLimit,   \* stackSize (1024)
  Rev,          \* the revision, as the index of evmc.Revision
  Pushes,       \* the words PUSH may push
  Ops,          \* the arithmetic opcodes the code may use
  DupMax,       \* DUP1..DUPn and SWAP1..SWAPn
  MaxSteps      \* bound on executed opcodes

Constantinople == 5

\* state.isRevision: the frame's revision is rev or later.
IsRevision(r) == r <= Rev

WordBits == ByteBits * WordBytes
TT == 2^WordBits                \* tt256
TTM1 == TT - 1                  \* tt256m1
Word == 0 .. TTM1

ASSUME ByteBits \in Nat \ {0} /\ WordBytes \in Nat \ {0} /\ IntBits < WordBits
ASSUME Pushes \subseteq Word

\* Bit i of a non-negative integer, x.Bit(i).
Bit(x, i) == (x \div 2^i) % 2
AbsInt(x) == IF x < 0 THEN -x ELSE x
SignOf(x) == IF x > 0 THEN 1 ELSE IF x < 0 THEN -1 ELSE 0

(***************************************************************************)
(* toU256 and to256 (part_002): the two conversions between the unsigned   *)
(* word and the signed integer it stands for.  x.And(x, tt256m1) on a      *)
(* negative big.Int works on its infinite two's complement, which is x     *)
(* modulo 2^256.                                                           *)
(***************************************************************************)
ToU256(x) == IF x < 0 \/ x >= TT THEN x % TT ELSE x
To256(x) == IF x >= TT \div 2 THEN x - TT ELSE x

\* x.Int64() keeps the low 64 bits of |x| as an int64.
ToInt(x) == LET low == x % 2^IntBits
            IN IF low >= 2^(IntBits - 1) THEN low - 2^IntBits ELSE low
\* uint(n) of an int: two's complement, modulo 2^64.
ToUint(n) == n % 2^IntBits
\* y.Rsh(y, s) of a non-negative word.
Rsh(y, s) == IF s >= WordBits THEN 0 ELSE y \div 2^s

OpAdd(a, b) == ToU256(a + b)
OpMul(a, b) == ToU256(a * b)
OpSub(a, b) == ToU256(a - b)
OpDiv(a, b) == IF b = 0 THEN 0 ELSE ToU256(a \div b)
OpSDivSignOfA(a0, b0) ==
  LET a == To256(a0)  b == To256(b0)
  IN IF b = 0 THEN 0
     ELSE LET q == AbsInt(a) \div AbsInt(b)
          IN ToU256(IF SignOf(a) < 0 THEN -q ELSE q)
OpSDiv(a0, b0) ==
  LET a == To256(a0)  b == To256(b0)
  IN IF b = 0 THEN 0
     ELSE LET q == AbsInt(a) \div AbsInt(b)
          IN ToU256(IF SignOf(a) # SignOf(b) THEN -q ELSE q)
OpMod(a, b) == IF b = 0 THEN 0 ELSE ToU256(a % b)
OpSMod(a0, b0) ==
  LET a == To256(a0)  b == To256(b0)
  IN IF b = 0 THEN 0
     ELSE LET r == AbsInt(a) % AbsInt(b)
          IN ToU256(IF SignOf(a) < 0 THEN -r ELSE r)

(***************************************************************************)
(* opExp: square-and-multiply over the machine words of y.Bits(), IntBits  *)
(* bits each.  Every bit of every word is visited, so x is squared         *)
(* IntBits times per word even after the remaining bits are zero.          *)
(***************************************************************************)
RECURSIVE ExpLoop(_, _, _, _)
ExpLoop(z, x, d, n) ==
  IF n = 0 THEN z
  ELSE ExpLoop(IF d % 2 = 1 THEN ToU256(z * x) ELSE z,
               ToU256(x * x), d \div 2, n - 1)
BitLen(y) == IF y = 0 THEN 0 ELSE CHOOSE n \in 1 .. WordBits : y < 2^n /\ y >= 2^(n - 1)
\* len(y.Bits()): the number of machine words holding y.
NumWords(y) == (BitLen(y) + IntBits - 1) \div IntBits
OpExp(x, y) == ExpLoop(1, x, y, NumWords(y) * IntBits)

OpAddMod(a, b, z) == IF z = 0 THEN 0 ELSE ToU256((a + b) % z)
OpMulMod(a, b, z) == IF z = 0 THEN 0 ELSE ToU256((a * b) % z)
OpAnd(a, b) == a & b
OpOr(a, b) == a | b
OpXor(a, b) == a ^^ b

(***************************************************************************)
(* opByte: the index is converted with x.Int64() before it is compared     *)
(* with 31, and (31 - indx) * 8 is computed as an int64 and converted to   *)
(* uint for the shift.                                                     *)
(***************************************************************************)
OpByte(x, y) ==
  LET indx == ToInt(x)
  IN IF indx > WordBytes - 1 THEN 0
     ELSE LET sh == ToUint((WordBytes - 1 - indx) * ByteBits)
          IN Rsh(y, sh) % 2^ByteBits

OpNot(a) == ToU256(-a - 1)
OpIsZero(a) == IF a = 0 THEN 1 ELSE 0
OpEq(a, b) == IF a = b THEN 1 ELSE 0
OpLt(a, b) == IF a < b THEN 1 ELSE 0
OpGt(a, b) == IF a > b THEN 1 ELSE 0
OpSlt(a, b) == IF To256(a) < To256(b) THEN 1 ELSE 0
OpSgt(a, b) == IF To256(a) > To256(b) THEN 1 ELSE 0

(***************************************************************************)
(* opSignExtension: nothing happens when ext > wordSize; otherwise the bit *)
(* ext*8+7 is the sign bit, the bits above it are set to it (x | ^mask,    *)
(* which is negative) or cleared, and toU256 truncates.                    *)
(***************************************************************************)
OpSignExtension(ext, x) ==
  IF ext > WordBytes THEN x
  ELSE LET bit == ext * ByteBits + ByteBits - 1
       IN ToU256(IF Bit(x, bit) = 1 THEN (x % 2^bit) - 2^bit ELSE x % 2^bit)

\* equalOrOverflowsUint256: shift.BitLen() > 8, that is shift >= 256.
EqualOrOverflowsUint256(s) == s >= WordBits
OpShl(s, v) == IF EqualOrOverflowsUint256(s) THEN 0 ELSE ToU256(v * 2^s)
OpShr(s, v) == IF EqualOrOverflowsUint256(s) THEN 0 ELSE ToU256(v \div 2^s)
OpSar(s, v0) ==
  LET v == To256(v0)
  IN IF EqualOrOverflowsUint256(s) THEN (IF v >= 0 THEN 0 ELSE TTM1)
     ELSE ToU256(v \div 2^s)

(***************************************************************************)
(* The handler of each arithmetic opcode, applied to the operands in the   *)
(* order it pops them: a is the top of the stack, b the next, c the third. *)
(***************************************************************************)
Handler(op, a, b, c) ==
  CASE op = "ADD" -> OpAdd(a, b)        [] op = "MUL" -> OpMul(a, b)
    [] op = "SUB" -> OpSub(a, b)        [] op = "DIV" -> OpDiv(a, b)
    [] op = "SDIV" -> OpSDiv(a, b)      [] op = "MOD" -> OpMod(a, b)
    [] op = "SMOD" -> OpSMod(a, b)      [] op = "EXP" -> OpExp(a, b)
    [] op = "ADDMOD" -> OpAddMod(a, b, c)
    [] op = "MULMOD" -> OpMulMod(a, b, c)
    [] op = "SIGNEXTEND" -> OpSignExtension(a, b)
    [] op = "LT" -> OpLt(a, b)          [] op = "GT" -> OpGt(a, b)
    [] op = "SLT" -> OpSlt(a, b)        [] op = "SGT" -> OpSgt(a, b)
    [] op = "EQ" -> OpEq(a, b)          [] op = "ISZERO" -> OpIsZero(a)
    [] op = "AND" -> OpAnd(a, b)        [] op = "OR" -> OpOr(a, b)
    [] op = "XOR" -> OpXor(a, b)        [] op = "NOT" -> OpNot(a)
    [] op = "BYTE" -> OpByte(a, b)      [] op = "SHL" -> OpShl(a, b)
    [] op = "SHR" -> OpShr(a, b)        [] op = "SAR" -> OpSar(a, b)

\* The shift opcodes exit with errOpCodeNotFound before Constantinople.
Gated == {"SHL", "SHR", "SAR"}

\* dispatchTable[op].stack: the operands the dispatch loop requires.
Arity(op) == CASE op \in {"ISZERO", "NOT"} -> 1
               [] op \in {"ADDMOD", "MULMOD"} -> 3
               [] OTHER -> 2

-----------------------------------------------------------------------------
VARIABLES
  stack,    \* c.stack[0 : c.sp], the top at the end
  status,   \* "running", or why Run stopped
  steps     \* opcodes executed

vars == <<stack, status, steps>>

Statuses == {"running", "underflow", "overflow", "notfound", "panic"}

Init ==
  /\ stack = << >>
  /\ status = "running"
  /\ steps = 0

Top(n) == stack[Len(stack) - n + 1]        \* peekAt(n)
Below(n) == SubSeq(stack, 1, Len(stack) - n)

\* The loop before the handler: the stack-depth check against the table.
StackCheckOffByOne(need) == Len(stack) + 1 < need
StackCheck(need) == Len(stack) < need

\* The loop after the handler: if c.sp > stackSize, exit errStackOverflow.
OverflowCheck(s) == Len(s) > StackLimit

\* One iteration of Run: stack check, handler, overflow check.
Step(need, s, st) ==
  /\ status = "running"
  /\ steps < MaxSteps
  /\ steps' = steps + 1
  /\ IF StackCheck(need)
       THEN /\ status' = "underflow"
            /\ UNCHANGED stack
       ELSE /\ stack' = s
            /\ status' = IF st = "running" /\ OverflowCheck(s) THEN "overflow" ELSE st

\* push1: the big.Int above sp if the slice has one, else a new one; every
\* caller sets it, so the stack grows by the value set.
Push1(s, v) == Append(s, v)

\* stackAtLeast(n).
StackAtLeast(n) == Len(stack) >= n

\* swap(n): exchange the top with the element n below it.
SwapTop(s, n) == [s EXCEPT ![Len(s)] = s[Len(s) - n], ![Len(s) - n] = s[Len(s)]]

\* opPush: push1 and set it from the code bytes.
Push(v) == Step(0, Push1(stack, v), "running")

\* opPop: pop() of an empty stack returns nil, which opPop discards.
Pop == Step(1, IF stack = << >> THEN stack ELSE Below(1), "running")

\* opDup(n): stackAtLeast(n), then push1().Set(peekAt(n)).
Dup(n) ==
  Step(n, IF ~StackAtLeast(n) THEN stack ELSE Push1(stack, Top(n)),
       IF ~StackAtLeast(n) THEN "underflow" ELSE "running")

\* opSwap(n): stackAtLeast(n+1), then swap the top with the (n+1)-th.
Swap(n) ==
  Step(n + 1,
       IF ~StackAtLeast(n + 1) THEN stack
       ELSE SwapTop(stack, n),
       IF ~StackAtLeast(n + 1) THEN "underflow" ELSE "running")

(***************************************************************************)
(* An arithmetic opcode: pop its operands and leave the result on top.  A  *)
(* pop from an empty stack returns nil and the handler dereferences it.    *)
(***************************************************************************)
Arith(op) ==
  LET k == Arity(op)
      args == [i \in 1 .. 3 |-> IF i <= k /\ i <= Len(stack) THEN Top(i) ELSE 0]
  IN CASE op \in Gated /\ ~IsRevision(Constantinople) -> Step(k, stack, "notfound")
       [] Len(stack) < k -> Step(k, stack, "panic")
       [] OTHER -> Step(k, Append(Below(k), Handler(op, args[1], args[2], args[3])),
                        "running")

Next ==
  \/ \E v \in Pushes : Push(v)
  \/ Pop
  \/ \E n \in 1 .. DupMax : Dup(n) \/ Swap(n)
  \/ \E op \in Ops : Arith(op)

Spec == Init /\ [][Next]_vars

-----------------------------------------------------------------------------
(* Properties *)

(***************************************************************************)
(* The refinement mapping: a running frame's stack is the abstract stack; *)
(* the three errors Run returns for a bad stack or opcode are the EVM's    *)
(* exceptional halt, after which the frame's stack is gone.  A panic has   *)
(* no abstract counterpart.                                                *)
(***************************************************************************)
AbsStatus == IF status \in {"underflow", "overflow", "notfound"} THEN "exception"
             ELSE status
AbsStack == IF status = "running" THEN stack ELSE << >>

EVM == INSTANCE EvmStack WITH stack <- AbsStack, status <- AbsStatus

(***************************************************************************)
(* The dispatch loop of Run, with its two stack checks and the handlers    *)
(* opPush, opPop, opDup, opSwap and opAdd .. opSar (with toU256, to256 and *)
(* the Int64/uint conversions they make), implements the EVM's stack       *)
(* machine: every step leaves the word the EVM's definition gives, halts   *)
(* exceptionally exactly where the definition does, and never panics.     *)
(***************************************************************************)
ImplementsEvmStack == EVM!Spec

=============================================================================
