----------------------------- MODULE Interpreter -----------------------------
(***************************************************************************)
(* The dispatch loop of state.Run (evm/state.go) over the bytes of a       *)
(* program: the instruction pointer, the gas counter and the control-flow  *)
(* handlers of part_002 (STOP, JUMP, JUMPI, JUMPDEST, PUSHn, PC, GAS) with *)
(* the few stack handlers a loop needs (POP, DUP1, ISZERO).  The jump      *)
(* bitmap is not under src/; it is modelled from the specification, which *)
(* marks every byte that is not the immediate of a PUSH.                   *)
(*                                                                         *)
(* Nothing bounds the number of steps but the gas, as in the code.         *)
(***************************************************************************)
EXTENDS Integers, Sequences

LOCAL INSTANCE SequencesExt

CONSTANTS
  Codes,        \* the programs a frame may run, as sequences of bytes
  Gases,        \* the gas a frame may start with
  StackLimit    \* stackSize (1024)

\* Opcode bytes.
STOP == 0
ISZERO == 21
POP == 80
JUMP == 86
JUMPI == 87
PC == 88
GAS == 90
JUMPDEST == 91
PUSH1 == 96
PUSH32 == 127
DUP1 == 128

\* dispatchTable: the opcodes that have a handler, the stack depth the loop
\* checks before it, and the base gas it charges.
Defined == {STOP, ISZERO, POP, JUMP, JUMPI, PC, GAS, JUMPDEST, DUP1}
           \cup (PUSH1 .. PUSH32)
MinStack(op) == CASE op \in {ISZERO, POP, JUMP} -> 1
                  [] op = JUMPI -> 2
                  [] OTHER -> 0
BaseGas(op) == CASE op = STOP -> 0
                 [] op = JUMPDEST -> 1
                 [] op \in {POP, PC, GAS} -> 2
                 [] op = JUMP -> 8
                 [] op = JUMPI -> 10
                 [] OTHER -> 3

IsPush(b) == b \in PUSH1 .. PUSH32
ImmLen(b) == IF IsPush(b) THEN b - PUSH1 + 1 ELSE 0

\* bitmap.setCode: scan the code once and mark every byte that does not lie
\* in the immediate of a preceding PUSHn.
RECURSIVE Marked(_, _)
Marked(c, i) == IF i >= Len(c) THEN {}
                ELSE {i} \cup Marked(c, i + 1 + ImmLen(c[i + 1]))

\* v.SetBytes(bs): the big-endian number of a byte string.
SetBytes(bs) == FoldLeft(LAMBDA acc, b : acc * 256 + b, 0, bs)

-----------------------------------------------------------------------------
VARIABLES
  code,     \* c.code
  ip,       \* c.ip
  stack,    \* c.stack[0 : c.sp], the top at the end
  gas,      \* c.gas
  status    \* "running", "stopped" after halt, or the error of exit

vars == <<code, ip, stack, gas, status>>

Byte(i) == code[i + 1]
Top == stack[Len(stack)]
Popped(n) == SubSeq(stack, 1, Len(stack) - n)

Init ==
  /\ code \in Codes
  /\ gas \in Gases
  /\ ip = 0
  /\ stack = << >>
  /\ status = "running"

\* validJumpdest: a destination of 63 bits or more, or past the code, is
\* invalid; otherwise the bitmap decides.  No code is 2^62 bytes long, so
\* d < len(c.code) implies the bit-length test.
ValidJumpdest(d) == d < Len(code) /\ d \in Marked(code, 0)

(***************************************************************************)
(* The handlers, as the frame they leave: its stack, its ip before the    *)
(* loop's ip++, and "running" or the error they exit with.                *)
(***************************************************************************)
Frame(s, i, st) == [stack |-> s, ip |-> i, status |-> st]

\* opPush(n): the n bytes after ip; past the end of the code, the bytes
\* that are left followed by n zero bytes.
OpPushOffByOne(n) ==
  LET imm == IF ip + 1 + n > Len(code)
             THEN SubSeq(code, ip + 2, Len(code)) \o [k \in 1 .. n |-> 0]
             ELSE SubSeq(code, ip + 2, ip + 1 + n)
  IN Frame(Append(stack, SetBytes(imm)), ip + n - 1, "running")
OpPush(n) ==
  LET imm == IF ip + 1 + n > Len(code)
             THEN SubSeq(code, ip + 2, Len(code)) \o [k \in 1 .. n |-> 0]
             ELSE SubSeq(code, ip + 2, ip + 1 + n)
  IN Frame(Append(stack, SetBytes(imm)), ip + n, "running")

\* opJump and opJumpi: ip = dest - 1, so that the loop's ip++ lands on dest.
OpJump ==
  IF ValidJumpdest(Top) THEN Frame(Popped(1), Top - 1, "running")
  ELSE Frame(Popped(1), ip, "invalidjump")
OpJumpi ==
  LET dest == Top  cond == stack[Len(stack) - 1]
  IN CASE cond = 0 -> Frame(Popped(2), ip, "running")
       [] ValidJumpdest(dest) -> Frame(Popped(2), dest - 1, "running")
       [] OTHER -> Frame(Popped(2), ip, "invalidjump")

\* opDup(1) checks stackAtLeast(1) itself.
OpDup1 ==
  IF Len(stack) < 1 THEN Frame(stack, ip, "underflow")
  ELSE Frame(Append(stack, Top), ip, "running")

OpStop == Frame(stack, ip, "stopped")
OpJumpDest == Frame(stack, ip, "running")
OpPop == Frame(Popped(1), ip, "running")
OpIsZero == Frame(Append(Popped(1), IF Top = 0 THEN 1 ELSE 0), ip, "running")
OpPc == Frame(Append(stack, ip), ip, "running")
OpGas(g) == Frame(Append(stack, g), ip, "running")

\* inst.inst(c): the handler of dispatchTable[op], g being c.gas after the
\* base charge.
Handler(op, g) ==
  CASE op = STOP -> OpStop          [] op = JUMPDEST -> OpJumpDest
    [] IsPush(op) -> OpPush(ImmLen(op))
    [] op = POP -> OpPop            [] op = DUP1 -> OpDup1
    [] op = ISZERO -> OpIsZero      [] op = JUMP -> OpJump
    [] op = JUMPI -> OpJumpi        [] op = PC -> OpPc
    [] op = GAS -> OpGas(g)

\* consumeGas: too little gas exits errOutOfGas and leaves c.gas alone.
ConsumeGasUnchecked(g) == TRUE
ConsumeGas(g) == gas >= g
ChargeNothing(g) == gas
Charge(g) == gas - g

(***************************************************************************)
(* One iteration of the loop of Run.                                       *)
(***************************************************************************)
Halt ==
  /\ status = "running"
  /\ ip >= Len(code)
  /\ status' = "stopped"
  /\ UNCHANGED <<code, ip, stack, gas>>

Fail(err) ==
  /\ status' = err
  /\ UNCHANGED <<code, ip, stack, gas>>

Execute ==
  /\ status = "running"
  /\ ip < Len(code)
  /\ LET op == Byte(ip) IN
     CASE op \notin Defined -> Fail("notfound")
       [] Len(stack) < MinStack(op) -> Fail("underflow")
       [] ~ConsumeGas(BaseGas(op)) -> Fail("outofgas")
       [] OTHER ->
            LET f == Handler(op, Charge(BaseGas(op)))
            IN /\ gas' = Charge(BaseGas(op))
               /\ stack' = f.stack
               /\ ip' = f.ip + 1
               /\ status' = IF Len(f.stack) > StackLimit THEN "overflow" ELSE f.status
               /\ UNCHANGED code

Next == Halt \/ Execute

\* Run is a plain loop in one goroutine: while the frame runs, it steps.
Spec == Init /\ [][Next]_vars /\ WF_vars(Next)

-----------------------------------------------------------------------------
(* Properties *)

Statuses == {"running", "stopped", "notfound", "underflow", "overflow",
             "outofgas", "invalidjump"}

TypeOK ==
  /\ code \in Codes
  /\ ip \in Nat
  /\ stack \in Seq(Nat)
  /\ gas \in Nat
  /\ status \in Statuses

(***************************************************************************)
(* PUSHn's ip += n and the jumps of JUMP/JUMPI keep the loop on            *)
(* instruction boundaries: a running frame never executes a byte of a      *)
(* PUSH immediate as an opcode.                                            *)
(***************************************************************************)
OnInstructionBoundary ==
  status = "running" => ip >= Len(code) \/ ip \in Marked(code, 0)

(***************************************************************************)
(* Every frame stops: each opcode Run executes without stopping charges   *)
(* base gas, so gas alone ends even a program that loops forever.          *)
(***************************************************************************)
Terminates == <>(status # "running")

(***************************************************************************)
(* A JUMP or JUMPI that jumps lands on a JUMPDEST byte (spec §4.D, §4.G    *)
(* and property 5: a jump succeeds iff its destination is a JUMPDEST not   *)
(* inside a PUSH immediate).  validJumpdest consults only the bitmap.      *)
(***************************************************************************)
Jumps ==
  /\ status = "running"
  /\ ip < Len(code)
  /\ \/ Byte(ip) = JUMP
     \/ Byte(ip) = JUMPI /\ stack[Len(stack) - 1] # 0
  /\ status' = "running"

JumpsOnlyToJumpdest == [][Jumps => Byte(ip') = JUMPDEST]_vars

=============================================================================
