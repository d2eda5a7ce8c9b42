----------------------------- MODULE Transition -----------------------------
(***************************************************************************)
(* The transition driver of go-evm (Transition in part_007) together with  *)
(* the host side of nested calls and the host-visible part of the          *)
(* interpreter (evm/state.go and the opcode handlers of part_002).         *)
(*                                                                         *)
(* A transaction is Write(msg): preCheck, Apply (top-level applyCall or    *)
(* applyCreate), postCheck and CleanDeleteObjects.  Execution is a stack   *)
(* of interpreter frames.  The top frame executes one opcode per step; the *)
(* opcodes modelled are those that reach the overlay or the call stack     *)
(* (SSTORE, LOGn, SELFDESTRUCT, the CALL family, CREATE/CREATE2, RETURN,   *)
(* REVERT, STOP) and an exceptional halt standing for every other error    *)
(* exit of the dispatch loop.  Which opcode comes next is a free choice:   *)
(* EVM code can branch on anything, so every sequence is some program.     *)
(* A frame that has halted is popped by Return, which runs the rest of the *)
(* synchronous call chain: EVM.Run's epilogue, applyCall/applyCreate after *)
(* run, and the caller's opcode after Host.Call (or, for the top frame,    *)
(* the end of Apply, postCheck and CleanDeleteObjects).                    *)
(*                                                                         *)
(* Gas is a uint64 in the code; here it is kept modulo GasMod, the stand-  *)
(* in for 2^64, so that the wrap-arounds of the code are reproduced.       *)
(***************************************************************************)
EXTENDS StateTest, FiniteSets, Precompiled

LOCAL INSTANCE Functions
LOCAL INSTANCE FiniteSetsExt

CONSTANTS
  Coinbase,         \* TxContext.Coinbase
  Messages,         \* the messages Write may be given
  NoAddr,           \* Message.To = nil: a contract creation
  CreateAddress(_, _),   \* createAddress(sender, nonce)
  CreateAddress2(_, _),  \* createAddress2(sender, salt, initcode)
  Salts,            \* CREATE2 salts
  CallTargets,      \* addresses the CALL family and SELFDESTRUCT may name
  CallValues,       \* values a CALL or CREATE may transfer
  GasArgs,          \* the gas operand of a CALL: a number or BigWord
  BigWord,          \* a stack word that does not fit in uint64
  InitLens,         \* lengths of CREATE init code
  RetLens,          \* lengths of RETURN/REVERT data
  GasMod,           \* 2^64
  CallDepthLimit,   \* 1024
  MaxCodeSize,      \* spuriousDragonMaxCodeSize (24576)
  MaxSteps,         \* bound on the opcodes executed per transaction
  MaxTxs            \* bound on the number of Write calls

ASSUME Coinbase \in Addrs /\ CallTargets \subseteq Addrs
ASSUME MaxSteps \in Nat /\ MaxTxs \in Nat /\ CallDepthLimit \in Nat

VARIABLES
  live,       \* txn.txn: the live overlay
  snapshots,  \* txn.snapshots: the frozen overlays, index id + 1
  frames,     \* the interpreter frames, the running one last
  phase,      \* "idle" between Write calls, "run" inside one
  msg,        \* the message being written
  txGas,      \* msg.Gas after preCheck: the gas bought minus intrinsic
  stipends,   \* history: the call stipends granted in this transaction
  outcome,    \* result of the last Write: "none", "rejected", "success", "failure"
  txs,        \* number of Write calls so far
  steps       \* opcodes executed in this transaction

vars == <<live, snapshots, frames, phase, msg, txGas, stipends, outcome,
          txs, steps>>

U64(x) == x % GasMod

(* int64(x) of a uint64 x, as the code converts gasLeft. *)
ToInt64(x) == IF x >= GasMod \div 2 THEN x - GasMod ELSE x

Top == frames[Len(frames)]

SetTop(f) == [frames EXCEPT ![Len(frames)] = f]

(***************************************************************************)
(* Transaction intrinsic gas (TransactionGasCost) with its overflow        *)
(* checks against MaxUint64.                                               *)
(***************************************************************************)
TransactionGasCost(m, isHomestead, isIstanbul) ==
  LET base == IF m.to = NoAddr /\ isHomestead THEN 53000 ELSE 21000
      nz   == IF isIstanbul THEN 16 ELSE 68
      c1   == base + m.nonzeros * nz
  IN IF m.zeros + m.nonzeros = 0 THEN [err |-> FALSE, cost |-> base]
     ELSE IF (GasMod - 1 - base) \div nz < m.nonzeros THEN [err |-> TRUE, cost |-> 0]
     ELSE IF (GasMod - 1 - c1) \div 4 < m.zeros THEN [err |-> TRUE, cost |-> 0]
     ELSE [err |-> FALSE, cost |-> c1 + m.zeros * 4]

IntrinsicGas(m) ==
  TransactionGasCost(m, IsRevision(Homestead), IsRevision(Istanbul))

(***************************************************************************)
(* preCheck: nonce, upfront gas payment, intrinsic gas, value.  Returns    *)
(* whether it failed, the overlay it leaves and msg.Gas after it.          *)
(***************************************************************************)
PreCheck(m) ==
  LET sub     == SubBalance(live, m.from, m.price * m.gas)
      ig      == IntrinsicGas(m)
      gasLeft == U64(m.gas - ig.cost)
  IN IF GetNonce(live, m.from) # m.nonce THEN [err |-> TRUE, txn |-> live, gas |-> m.gas]
     ELSE IF sub.err THEN [err |-> TRUE, txn |-> live, gas |-> m.gas]
     ELSE IF ig.err \/ gasLeft > m.gas
          THEN [err |-> TRUE, txn |-> sub.txn, gas |-> m.gas]
     ELSE IF GetBalance(sub.txn, m.from) < m.value
          THEN [err |-> TRUE, txn |-> sub.txn, gas |-> m.gas]
     ELSE [err |-> FALSE, txn |-> sub.txn, gas |-> gasLeft]

(* transfer: SubBalance then AddBalance. *)
Transfer(o, from, to, amount) ==
  LET s == SubBalance(o, from, amount)
  IN IF s.err THEN [err |-> TRUE, txn |-> o]
     ELSE [err |-> FALSE, txn |-> AddBalance(s.txn, to, amount)]

(* The Selfdestruct host call: refund on the first suicide, move the balance. *)
Selfdestruct(o, a, b) ==
  LET o1 == IF ~HasSuicided(o, a) THEN AddRefund(o, 24000) ELSE o
  IN Suicide(AddBalance(o1, b, GetBalance(o1, a)), a).txn

(* hasCodeOrNonce: the CREATE collision test. *)
HasCodeOrNonce(o, a) ==
  GetNonce(o, a) # 0 \/ GetCodeHash(o, a) \notin {"empty", "zero"}

(***************************************************************************)
(* A new interpreter frame (EVM.Run before its loop).  pre is the overlay  *)
(* the caller had when it made the call; it is kept for the properties.    *)
(***************************************************************************)
(* Seeded fault for mutation analysis: the child's depth counted twice. *)
NewFrameDepthTwice(c, code, snap, pre) ==
  [kind |-> c.kind, addr |-> c.addr, caller |-> c.caller, value |-> c.value,
   gas |-> c.gas, depth |-> c.depth + 1, static |-> c.static, code |-> code,
   snap |-> snap, halted |-> "running", ret |-> 0,
   mem |-> 0, lastGasCost |-> 0, pre |-> pre]

NewFrame(c, code, snap, pre) ==
  [kind |-> c.kind, addr |-> c.addr, caller |-> c.caller, value |-> c.value,
   gas |-> c.gas, depth |-> c.depth, static |-> c.static, code |-> code,
   snap |-> snap, halted |-> "running", ret |-> 0,
   mem |-> 0, lastGasCost |-> 0, pre |-> pre]

NoFrame == [kind |-> "none"]

(***************************************************************************)
(* applyCall up to run(c): snapshot, touch, transfer on CALL, and the new  *)
(* frame running the code at the code address.  An early error returns     *)
(* the call's whole gas without reverting.  At a precompiled code address  *)
(* run(c) returns runPrecompiled's result at once: the frame is born       *)
(* halted with it, and Return ends applyCall as for any frame.             *)
(***************************************************************************)
PrecompileFrame(f, r) ==
  [f EXCEPT !.halted = IF r.err = "none" THEN "stop" ELSE "error",
            !.gas = r.gasLeft, !.ret = r.ret]

EnterCall(o, snaps, c) ==
  LET o1 == TouchAccount(o, c.addr)
      t  == IF c.kind = "Call" THEN Transfer(o1, c.caller, c.addr, c.value)
            ELSE [err |-> FALSE, txn |-> o1]
      f  == NewFrame(c, GetCode(t.txn, c.codeAddr), Len(snaps), o)
  IN IF t.err
     THEN [txn |-> t.txn, snaps |-> Snapshot(snaps, o), frame |-> NoFrame,
           res |-> [ret |-> 0, gasLeft |-> c.gas, err |-> "error"]]
     ELSE [txn |-> t.txn, snaps |-> Snapshot(snaps, o), res |-> NoFrame,
           frame |-> IF IsPrecompiled(c.codeAddr, Rev)
                     THEN PrecompileFrame(f, RunPrecompiled(c.codeAddr, c.input, c.gas, Rev))
                     ELSE f]

(***************************************************************************)
(* applyCreate up to run(c): address, caller nonce, collision, snapshot,   *)
(* account creation (Spurious Dragon), value transfer, the init frame.     *)
(***************************************************************************)
EnterCreate(o, snaps, c) ==
  LET address == IF c.kind = "Create" THEN CreateAddress(c.caller, GetNonce(o, c.caller))
                 ELSE CreateAddress2(c.caller, c.salt)
      o1 == IncrNonce(o, c.caller)
      o2 == IF IsRevision(SpuriousDragon)
            THEN IncrNonce(CreateAccount(o1, address), address) ELSE o1
      t  == Transfer(o2, c.caller, address, c.value)
      cc == [c EXCEPT !.addr = address]
  IN IF HasCodeOrNonce(o1, address)
     THEN [txn |-> o1, snaps |-> snaps, frame |-> NoFrame,
           res |-> [ret |-> 0, gasLeft |-> 0, err |-> "error"]]
     ELSE IF t.err
     THEN [txn |-> t.txn, snaps |-> Snapshot(snaps, o1), frame |-> NoFrame,
           res |-> [ret |-> 0, gasLeft |-> c.gas, err |-> "error"]]
     ELSE [txn |-> t.txn, snaps |-> Snapshot(snaps, o1),
           frame |-> NewFrame(cc, c.init, Len(snaps), o), res |-> NoFrame]

(***************************************************************************)
(* The end of Apply and postCheck, run when the top-level call or create   *)
(* returns res; gas is msg.Gas as preCheck left it.                        *)
(***************************************************************************)
(* Seeded fault for mutation analysis: the coinbase is paid the gas used *)
(* before the refund is taken off.                                       *)
PostCheckCoinbaseFull(m, gas, res, o) ==
  LET lg       == Logs(o).txn
      msgGas   == U64(gas + IntrinsicGas(m).cost)
      gasUsed  == U64(msgGas - res.gasLeft)
      maxRef   == gasUsed \div 2
      refund   == IF GetRefund(lg) < 0 \/ GetRefund(lg) > maxRef THEN maxRef ELSE GetRefund(lg)
      o1       == AddBalance(lg, m.from, U64(res.gasLeft + refund) * m.price)
  IN AddBalance(o1, Coinbase, gasUsed * m.price)

PostCheck(m, gas, res, o) ==
  LET lg       == Logs(o).txn
      msgGas   == U64(gas + IntrinsicGas(m).cost)
      gasUsed  == U64(msgGas - res.gasLeft)
      maxRef   == gasUsed \div 2
      \* a negative counter is a wrapped uint64, larger than any maxRefund
      refund   == IF GetRefund(lg) < 0 \/ GetRefund(lg) > maxRef THEN maxRef ELSE GetRefund(lg)
      o1       == AddBalance(lg, m.from, U64(res.gasLeft + refund) * m.price)
  IN AddBalance(o1, Coinbase, U64(gasUsed - refund) * m.price)

(* Write after applyImpl: CleanDeleteObjects as the revision asks. *)
WriteEnd(m, gas, res, o) ==
  CleanDeleteObjects(PostCheck(m, gas, res, o),
                     IF IsRevision(Byzantium) THEN TRUE
                     ELSE IsRevision(SpuriousDragon))

Outcome(res) == IF res.err = "none" THEN "success" ELSE "failure"

(***************************************************************************)
(* Host.Call returned res to the frame below the top: opCall/opCreate      *)
(* credit the gas left (c.gas += uint64(gasLeft)).                         *)
(***************************************************************************)
Resume(fs, res) == [fs EXCEPT ![Len(fs)].gas = U64(@ + res.gasLeft)]

(* The caller of a call or create that ended with res and overlay o. *)
Deliver(res, o) ==
  IF Len(frames) = 1
  THEN /\ live' = WriteEnd(msg, txGas, res, o)
       /\ phase' = "idle"
       /\ outcome' = Outcome(res)
       /\ frames' = <<>>
  ELSE /\ live' = o
       /\ frames' = Resume(SubSeq(frames, 1, Len(frames) - 1), res)
       /\ UNCHANGED <<phase, outcome>>

(***************************************************************************)
(* Write(msg) when preCheck fails: the error is returned to the caller.    *)
(***************************************************************************)
RejectWrite(m) ==
  /\ phase = "idle" /\ txs < MaxTxs
  /\ PreCheck(m).err
  /\ live' = PreCheck(m).txn
  /\ outcome' = "rejected"
  /\ txs' = txs + 1
  /\ UNCHANGED <<snapshots, frames, phase, msg, txGas, stipends, steps>>

(***************************************************************************)
(* Write(msg) when preCheck passes: Apply starts the top-level create, or  *)
(* increments the sender nonce and starts the top-level call.  A call or   *)
(* create that ends before running code finishes the Write at once.        *)
(***************************************************************************)
StartWrite(m) ==
  LET pc  == PreCheck(m)
      c   == [kind |-> IF m.to = NoAddr THEN "Create" ELSE "Call",
              addr |-> m.to, caller |-> m.from, codeAddr |-> m.to,
              value |-> m.value, gas |-> pc.gas, depth |-> 0, static |-> FALSE,
              salt |-> CHOOSE s \in Salts : TRUE,
              init |-> m.zeros + m.nonzeros, input |-> m.zeros + m.nonzeros]
      e   == IF m.to = NoAddr THEN EnterCreate(pc.txn, snapshots, c)
             ELSE EnterCall(IncrNonce(pc.txn, m.from), snapshots, c)
  IN /\ phase = "idle" /\ txs < MaxTxs
     /\ ~pc.err
     /\ txs' = txs + 1
     /\ msg' = m
     /\ txGas' = pc.gas
     /\ stipends' = 0
     /\ steps' = 0
     /\ snapshots' = e.snaps
     /\ IF e.frame = NoFrame
        THEN /\ live' = WriteEnd(m, pc.gas, e.res, e.txn)
             /\ frames' = <<>>
             /\ outcome' = Outcome(e.res)
             /\ UNCHANGED phase
        ELSE /\ live' = e.txn
             /\ frames' = <<e.frame>>
             /\ phase' = "run"
             /\ outcome' = "none"

(***************************************************************************)
(* The interpreter.  The top frame runs one opcode per step.  A step first *)
(* pays the dispatch table's base gas; an exit with an error leaves the    *)
(* frame halted with "error", and EVM.Run then reports no gas left.        *)
(***************************************************************************)
(* Base gas of the dispatch table (not under src/; values of the spec). *)
BaseGas(op) ==
  CASE op \in {"CREATE", "CREATE2"} -> 32000
    [] op = "LOG"                   -> 375
    [] OTHER                        -> 0

Halt(f, how) == [f EXCEPT !.halted = how]

(* Seeded fault for mutation analysis: the check without the charge. *)
ConsumeGasNoCharge(f, g) ==
  IF f.gas < g THEN Halt(f, "error") ELSE f

(* consumeGas: out of gas exits the frame with an error. *)
ConsumeGas(f, g) ==
  IF f.gas < g THEN Halt(f, "error") ELSE [f EXCEPT !.gas = @ - g]

(***************************************************************************)
(* checkMemory(0, size): expand memory to whole words and charge the       *)
(* difference of 3w + w^2/512 to the last charge.                          *)
(***************************************************************************)
MemCost(w) == 3 * w + (w * w) \div 512

CheckMemory(f, size) ==
  LET w == (size + 31) \div 32
  IN IF size = 0 \/ f.mem >= size THEN f
     ELSE ConsumeGas([f EXCEPT !.lastGasCost = MemCost(w), !.mem = w * 32],
                     U64(MemCost(w) - f.lastGasCost))

Running == phase = "run" /\ Top.halted = "running"

(* The dispatch loop before a handler: the frame after the base gas of *)
(* op, and the exit when that gas is missing.                           *)
Dispatch(op) == ConsumeGas(Top, BaseGas(op))

\* state.inStaticCall: the frame runs under a STATICCALL.
InStaticCall(f) == f.static

OutOfBaseGas(f) ==
  frames' = SetTop(f) /\ UNCHANGED <<live, snapshots, stipends>>

(* The frame continues with f and the overlay becomes o. *)
Continue(f, o) == frames' = SetTop(f) /\ live' = o

(***************************************************************************)
(* opSStore: write protection, the EIP-1706 stipend check, SetStorage, and *)
(* the charge that depends on the status SetStorage returned.              *)
(***************************************************************************)
SStoreCost(status) ==
  LET legacy == ~IsRevision(Istanbul)
                /\ (IsRevision(Petersburg) \/ ~IsRevision(Constantinople))
  IN CASE status \in {"Unchanged", "ModifiedAgain"} ->
            IF IsRevision(Istanbul) THEN 800 ELSE IF legacy THEN 5000 ELSE 200
       [] status = "Added" -> 20000
       [] OTHER            -> 5000

OpSStore(k, v) ==
  /\ Running /\ steps < MaxSteps
  /\ steps' = steps + 1
  /\ LET f == Dispatch("SSTORE") IN
        IF f.halted = "error" THEN OutOfBaseGas(f)
        ELSE IF InStaticCall(f) \/ (IsRevision(Istanbul) /\ f.gas <= 2300)
       THEN Continue(Halt(f, "error"), live)
       ELSE LET r == SetStorage(live, f.addr, k, v)
            IN Continue(ConsumeGas(f, SStoreCost(r.status)), r.txn)
  /\ UNCHANGED <<snapshots, phase, msg, txGas, stipends, outcome, txs>>

(***************************************************************************)
(* opLog with n topics and empty data: write protection, EmitLog, and only *)
(* then the charge for the topics.                                         *)
(***************************************************************************)
(* Seeded fault for mutation analysis: LOG without write protection. *)
OpLogUnprotected(n) ==
  /\ Running /\ steps < MaxSteps
  /\ steps' = steps + 1
  /\ LET f == Dispatch("LOG") IN
        IF f.halted = "error" THEN OutOfBaseGas(f)
        ELSE  Continue(ConsumeGas(f, n * 375), EmitLog(live, f.addr))
  /\ UNCHANGED <<snapshots, phase, msg, txGas, stipends, outcome, txs>>

OpLog(n) ==
  /\ Running /\ steps < MaxSteps
  /\ steps' = steps + 1
  /\ LET f == Dispatch("LOG") IN
        IF f.halted = "error" THEN OutOfBaseGas(f)
        ELSE IF InStaticCall(f) THEN Continue(Halt(f, "error"), live)
       ELSE Continue(ConsumeGas(f, n * 375), EmitLog(live, f.addr))
  /\ UNCHANGED <<snapshots, phase, msg, txGas, stipends, outcome, txs>>

(***************************************************************************)
(* opSelfDestruct to beneficiary b: write protection, the revision's       *)
(* charge, the host's Selfdestruct, and halt.                              *)
(***************************************************************************)
SelfDestructGas(f, b) ==
  IF ~IsRevision(TangerineWhistle) THEN 0
  ELSE IF (Rev = TangerineWhistle \/ GetBalance(live, f.addr) # 0)
          /\ ~AccountExists(live, b)
       THEN 30000 ELSE 5000

OpSelfDestruct(b) ==
  /\ Running
  /\ LET f == Dispatch("SELFDESTRUCT") IN
        IF f.halted = "error" THEN OutOfBaseGas(f)
        ELSE IF InStaticCall(f) THEN Continue(Halt(f, "error"), live)
       ELSE LET g == ConsumeGas(f, SelfDestructGas(f, b))
            IN IF g.halted = "error" THEN Continue(g, live)
               ELSE Continue(Halt([g EXCEPT !.ret = 0], "stop"),
                             Selfdestruct(live, f.addr, b))
  /\ UNCHANGED <<snapshots, phase, msg, txGas, stipends, outcome, txs, steps>>

(***************************************************************************)
(* opHalt (RETURN, REVERT) with len bytes of memory at offset 0, opStop    *)
(* (also the loop's exit at the end of the code), and an exceptional exit  *)
(* standing for every other error of the loop and of the other handlers.   *)
(***************************************************************************)
OpReturn(op, len) ==
  /\ Running /\ Top.code > 0
  /\ LET f == Dispatch(op) IN
        IF f.halted = "error" THEN OutOfBaseGas(f)
        ELSE IF op = "REVERT" /\ ~IsRevision(Byzantium)
       THEN Continue(Halt(f, "error"), live)
       ELSE LET g == CheckMemory(f, len)
            IN Continue(IF g.halted = "error" THEN g
                        ELSE Halt([g EXCEPT !.ret = len],
                                  IF op = "REVERT" THEN "revert" ELSE "stop"),
                        live)
  /\ UNCHANGED <<snapshots, phase, msg, txGas, stipends, outcome, txs, steps>>

OpStop ==
  /\ Running
  /\ frames' = SetTop(Halt(Top, "stop"))
  /\ UNCHANGED <<live, snapshots, phase, msg, txGas, stipends, outcome, txs, steps>>

OpFail ==
  /\ Running /\ Top.code > 0
  /\ frames' = SetTop(Halt(Top, "error"))
  /\ UNCHANGED <<live, snapshots, phase, msg, txGas, stipends, outcome, txs, steps>>

(***************************************************************************)
(* Host.Call made by the top frame f with contract c, forwarding gas: the  *)
(* child frame is pushed, or, when applyCall/applyCreate ends before       *)
(* running code, its result is credited to f at once.                      *)
(***************************************************************************)
HostCall(f, c) ==
  LET e == IF c.kind \in {"Create", "Create2"}
           THEN EnterCreate(live, snapshots, c)
           ELSE EnterCall(live, snapshots, c)
  IN /\ snapshots' = e.snaps
     /\ live' = e.txn
     /\ frames' = IF e.frame = NoFrame
                  THEN SetTop([f EXCEPT !.gas = U64(@ + e.res.gasLeft)])
                  ELSE Append(SetTop(f), e.frame)

(***************************************************************************)
(* opCall for op in CALL, CALLCODE, DELEGATECALL, STATICCALL with gas      *)
(* operand gasArg, address to, value (CALL and CALLCODE only), empty input *)
(* and retLen bytes of return window at offset 0.                          *)
(***************************************************************************)
CallKind(op) ==
  CASE op = "CALLCODE" -> "CallCode"
    [] op = "DELEGATECALL" -> "DelegateCall"
    [] OTHER -> "Call"

CallGasCost(op, to, value) ==
  (IF IsRevision(TangerineWhistle) THEN 700 ELSE 40)
  + (IF op = "CALL" /\ (value # 0 \/ Rev < SpuriousDragon) /\ ~AccountExists(live, to)
     THEN 25000 ELSE 0)
  + (IF value # 0 THEN 9000 ELSE 0)

(* The gas given to the callee: capped at all but 1/64 from Tangerine     *)
(* Whistle, where c.gas - gasCost is a uint64 subtraction.                *)
CalleeGas(f, gasCost, gasArg) ==
  LET avail == U64(f.gas - gasCost)
      cap   == avail - avail \div 64
  IN IF gasArg = BigWord \/ cap < gasArg THEN cap ELSE gasArg

OpCall(op, to, value, gasArg, retLen) ==
  /\ Running /\ steps < MaxSteps
  /\ value = 0 \/ op \in {"CALL", "CALLCODE"}
  /\ steps' = steps + 1
  /\ LET f == Dispatch(op) IN
        IF f.halted = "error" THEN OutOfBaseGas(f)
        ELSE LET m       == CheckMemory(f, retLen)
           gasCost == CallGasCost(op, to, value)
           gas     == IF IsRevision(TangerineWhistle)
                      THEN CalleeGas(m, gasCost, gasArg) ELSE gasArg
           g       == ConsumeGas(m, U64(gasCost + gas))
           given   == IF value # 0 THEN U64(gas + 2300) ELSE gas
           c       == [kind |-> CallKind(op),
                       addr |-> IF op \in {"CALLCODE", "DELEGATECALL"}
                                THEN f.addr ELSE to,
                       caller |-> IF op = "DELEGATECALL" THEN f.caller ELSE f.addr,
                       value |-> IF op = "DELEGATECALL" THEN f.value ELSE value,
                       gas |-> given, depth |-> f.depth + 1,
                       static |-> op = "STATICCALL" \/ f.static,
                       codeAddr |-> to, input |-> 0]
       IN IF \/ op = "CALL" /\ InStaticCall(f) /\ value # 0
             \/ op = "DELEGATECALL" /\ ~IsRevision(Homestead)
             \/ op = "STATICCALL" /\ ~IsRevision(Byzantium)
             \/ m.halted = "error"
             \/ ~IsRevision(TangerineWhistle) /\ gasArg = BigWord
          THEN /\ Continue(Halt(m, "error"), live)
               /\ UNCHANGED <<snapshots, stipends>>
          ELSE IF g.halted = "error"
          THEN Continue(g, live) /\ UNCHANGED <<snapshots, stipends>>
          ELSE /\ stipends' = stipends + (given - gas)
               /\ IF GetBalance(live, f.addr) < value \/ f.depth >= CallDepthLimit
                  THEN /\ Continue([g EXCEPT !.gas = U64(@ + given)], live)
                       /\ UNCHANGED snapshots
                  ELSE HostCall(g, c)
  /\ UNCHANGED <<phase, msg, txGas, outcome, txs>>

(***************************************************************************)
(* opCreate for CREATE and CREATE2 with value, salt and initLen bytes of   *)
(* init code from memory at offset 0.                                      *)
(***************************************************************************)
OpCreate(op, value, salt, initLen) ==
  /\ Running /\ steps < MaxSteps
  /\ salt = CHOOSE s \in Salts : TRUE \/ op = "CREATE2"
  /\ steps' = steps + 1
  /\ LET f == Dispatch(op) IN
        IF f.halted = "error" THEN OutOfBaseGas(f)
        ELSE LET m   == CheckMemory(f, initLen)
           s   == IF op = "CREATE2"
                  THEN ConsumeGas(m, ((initLen + 31) \div 32) * 6) ELSE m
           gas == IF IsRevision(TangerineWhistle) \/ op = "CREATE2"
                  THEN s.gas - s.gas \div 64 ELSE s.gas
           g   == [s EXCEPT !.gas = @ - gas]
           c   == [kind |-> IF op = "CREATE" THEN "Create" ELSE "Create2",
                   caller |-> f.addr, value |-> value, gas |-> gas,
                   depth |-> f.depth + 1, static |-> FALSE, salt |-> salt,
                   init |-> initLen, addr |-> NoAddr, codeAddr |-> NoAddr]
       IN IF \/ InStaticCall(f)
             \/ op = "CREATE2" /\ ~IsRevision(Constantinople)
             \/ m.halted = "error"
          THEN Continue(Halt(m, "error"), live) /\ UNCHANGED snapshots
          ELSE IF GetBalance(live, f.addr) < value
          THEN Continue(m, live) /\ UNCHANGED snapshots
          ELSE IF s.halted = "error"
          THEN Continue(s, live) /\ UNCHANGED snapshots
          ELSE IF f.depth >= CallDepthLimit
          THEN Continue(s, live) /\ UNCHANGED snapshots
          ELSE HostCall(g, c)
  /\ UNCHANGED <<phase, msg, txGas, stipends, outcome, txs>>

(***************************************************************************)
(* Return: the top frame has halted.  EVM.Run reports its result (no gas   *)
(* left on an error other than revert); applyCall reverts to its snapshot  *)
(* on any error; applyCreate reverts on an error, rejects code over the    *)
(* size limit (Spurious Dragon), charges 200 gas per byte of code, and     *)
(* stores it.  The result goes to the caller's opcode, or ends the Write.  *)
(***************************************************************************)
RunResult(f) ==
  [ret     |-> f.ret,
   gasLeft |-> IF f.halted = "error" THEN 0 ELSE f.gas,
   err     |-> CASE f.halted = "stop" -> "none"
                 [] f.halted = "revert" -> "revert"
                 [] OTHER -> "error"]

Reverted(f) == snapshots[f.snap + 1]

(* applyCall after run: the result and the overlay it leaves. *)
(* Seeded fault for mutation analysis: applyCall without RevertToSnapshot. *)
FinishCallNoRevert(f, r) ==
  IF r.err = "none" THEN [res |-> r, txn |-> live]
  ELSE [res |-> [r EXCEPT !.ret = IF r.err = "revert" THEN @ ELSE 0], txn |-> live]

FinishCall(f, r) ==
  IF r.err = "none" THEN [res |-> r, txn |-> live]
  ELSE [res |-> [r EXCEPT !.ret = IF r.err = "revert" THEN @ ELSE 0],
        txn |-> Reverted(f)]

(* applyCreate after run. *)
FinishCreate(f, r) ==
  LET cost == r.ret * 200
  IN IF r.err # "none" THEN FinishCall(f, r)
     ELSE IF IsRevision(SpuriousDragon) /\ r.ret > MaxCodeSize
     THEN [res |-> [ret |-> 0, gasLeft |-> 0, err |-> "error"], txn |-> Reverted(f)]
     ELSE IF ToInt64(r.gasLeft) < cost
     THEN IF IsRevision(Homestead)
          THEN [res |-> [ret |-> 0, gasLeft |-> 0, err |-> "error"],
                txn |-> Reverted(f)]
          ELSE [res |-> [ret |-> 0, gasLeft |-> r.gasLeft, err |-> "error"],
                txn |-> live]
     ELSE [res |-> [ret |-> 0, gasLeft |-> U64(r.gasLeft - cost), err |-> "none"],
           txn |-> SetCode(live, f.addr, r.ret)]

(* applyCall or applyCreate, as Callx dispatches, after run(c). *)
Effect(f) ==
  IF f.kind \in {"Create", "Create2"}
  THEN FinishCreate(f, RunResult(f)) ELSE FinishCall(f, RunResult(f))

Return ==
  /\ phase = "run" /\ Top.halted # "running"
  /\ Deliver(Effect(Top).res, Effect(Top).txn)
  /\ UNCHANGED <<snapshots, msg, txGas, stipends, txs, steps>>

(***************************************************************************)
(* The specification.  Init is a Transition made by NewTransition over a   *)
(* fresh Txn on the backend snapshot.                                      *)
(***************************************************************************)
CallOps == {"CALL", "CALLCODE", "DELEGATECALL", "STATICCALL"}

Init ==
  /\ live = EmptyOverlay
  /\ snapshots = <<>>
  /\ frames = <<>>
  /\ phase = "idle"
  /\ msg = CHOOSE m \in Messages : TRUE
  /\ txGas = 0
  /\ stipends = 0
  /\ outcome = "none"
  /\ txs = 0
  /\ steps = 0

Next ==
  \/ \E m \in Messages : RejectWrite(m) \/ StartWrite(m)
  \/ \E k \in Keys, v \in Vals : OpSStore(k, v)
  \/ \E n \in {0, 1} : OpLog(n)
  \/ \E b \in CallTargets : OpSelfDestruct(b)
  \/ \E op \in CallOps, to \in CallTargets, v \in CallValues, g \in GasArgs,
        len \in RetLens : OpCall(op, to, v, g, len)
  \/ \E op \in {"CREATE", "CREATE2"}, v \in CallValues, s \in Salts,
        len \in InitLens : OpCreate(op, v, s, len)
  \/ \E op \in {"RETURN", "REVERT"}, len \in RetLens : OpReturn(op, len)
  \/ OpStop
  \/ OpFail
  \/ Return

Spec == Init /\ [][Next]_vars

(***************************************************************************)
(* Properties.                                                             *)
(***************************************************************************)
Halts == {"running", "stop", "revert", "error"}

TypeOK ==
  /\ phase \in {"idle", "run"}
  /\ outcome \in {"none", "rejected", "success", "failure"}
  /\ txs \in 0..MaxTxs /\ steps \in 0..MaxSteps
  /\ live.refund \in Int /\ live.logs \in Seq(Addrs)
  /\ \A a \in Addrs : live.obj[a] = NoObject \/ live.obj[a].storage \in [Keys -> Vals \cup {Unset}]
  /\ \A i \in DOMAIN frames :
       /\ frames[i].halted \in Halts /\ frames[i].gas \in 0..(GasMod - 1)
       /\ frames[i].depth = i - 1
       /\ frames[i].snap \in 0..(Len(snapshots) - 1)
  /\ phase = "idle" <=> frames = <<>>

(* The gas held by the frames of the running transaction. *)
FrameGas == SumFunction([i \in DOMAIN frames |-> frames[i].gas])

(***************************************************************************)
(* Gas conservation in opCall/opCreate and the Host.Call chain: the frames *)
(* of a transaction together never hold more gas than preCheck granted     *)
(* plus the 2300 stipends that value-bearing calls added.                  *)
(***************************************************************************)
NoGasMinting == phase = "run" => FrameGas <= txGas + stipends

(* Ether held by every account of an overlay. *)
TotalBalance(o) == MapThenSumSet(LAMBDA a : GetBalance(o, a), Addrs)

InitialEther ==
  MapThenSumSet(LAMBDA a : IF BackendAccount[a] = NoAccount THEN 0
                           ELSE BackendAccount[a].balance, Addrs)

(***************************************************************************)
(* transfer, Selfdestruct, preCheck's upfront payment and postCheck's      *)
(* payments to the sender and the coinbase never create ether: the         *)
(* balances, plus the upfront gas payment held while a Write runs, never   *)
(* exceed the ether of the backend.                                        *)
(***************************************************************************)
NoEtherCreated ==
  TotalBalance(live) + (IF phase = "run" THEN msg.price * msg.gas ELSE 0)
    <= InitialEther

(***************************************************************************)
(* The EIP-2200 refund counter of SetStorage (AddRefund of a negative      *)
(* dirty adjustment, a uint64 in the code) never goes below zero.          *)
(***************************************************************************)
RefundNeverWraps == live.refund >= 0

(* What a contract can observe of an overlay: touches are not observable. *)
Observable(o) ==
  [bal  |-> [a \in Addrs |-> GetBalance(o, a)],
   non  |-> [a \in Addrs |-> GetNonce(o, a)],
   code |-> [a \in Addrs |-> GetCode(o, a)],
   st   |-> [a \in Addrs |-> [k \in Keys |-> GetState(o, a, k)]],
   sd   |-> [a \in Addrs |-> HasSuicided(o, a)],
   refund |-> o.refund, logs |-> o.logs]

(***************************************************************************)
(* Static purity (the write protection of opSStore, opLog, opSelfDestruct, *)
(* opCreate and value-bearing opCall): while a static frame runs, the      *)
(* overlay is observably what it was when its caller made the call.        *)
(***************************************************************************)
StaticPurity ==
  \A i \in DOMAIN frames :
    frames[i].static => Observable(live) = Observable(frames[i].pre)

(* The overlay a failed call or create must leave: the caller's, with the *)
(* creator's nonce incremented for a create.                               *)
Before(f) ==
  IF f.kind \in {"Create", "Create2"} THEN IncrNonce(f.pre, f.caller) ELSE f.pre

(***************************************************************************)
(* applyCall/applyCreate: a nested call or create that reports failure to  *)
(* its caller's opcode leaves no trace in the overlay.                     *)
(***************************************************************************)
FailedCallLeavesNoTrace ==
  [][phase = "run" /\ Top.halted # "running" /\ Len(frames) > 1
     /\ Effect(Top).res.err # "none"
     => live' = Before(Top)]_vars

(***************************************************************************)
(* preCheck: a Write that preCheck rejects changes no state.               *)
(***************************************************************************)
RejectedWriteLeavesStateUnchanged ==
  [][outcome' = "rejected" /\ txs' = txs + 1 => live' = live]_vars

(* The state the overlay reads: every account getStateObject finds, with   *)
(* GetState of every key.                                                  *)
View(o) ==
  [a \in Addrs |->
     IF GetStateObject(o, a) = NoObject THEN NoAccount
     ELSE [nonce |-> GetNonce(o, a), balance |-> GetBalance(o, a),
           code |-> GetCode(o, a), storage |-> [k \in Keys |-> GetState(o, a, k)]]]

(***************************************************************************)
(* Transition.Commit between Writes: the post state the conformance test   *)
(* builds from the committed Objects over the pre state (computeRoot,      *)
(* itrie.Commit) is the state the overlay itself reads.  Deleted storage   *)
(* entries, DirtyCode and the Deleted flag of CleanDeleteObjects must all  *)
(* reach the Objects for this to hold.                                     *)
(***************************************************************************)
CommitMatchesOverlay == phase = "idle" => ComputeRoot(Commit(live)) = View(live)

=============================================================================
