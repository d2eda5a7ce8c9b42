# TLA+ models of go-evm

This directory holds TLA+ models of the go-evm execution engine in `src/`. It
also holds the TLC configurations that check the models.

## 1. The system

go-evm executes Ethereum transactions against a read-only backend `Snapshot`.

| Part | Source | State it keeps | Operations |
|---|---|---|---|
| Txn overlay | `src/txn.go` | A persistent radix tree: address → state object (nonce, balance, code, storage tree, suicide/deleted flags), plus a log list and a refund counter. An append-only array of frozen trees (snapshots). | Snapshot/RevertToSnapshot, Get/Add/SubBalance, IncrNonce, Get/SetCode, Get/SetState, SetStorage (EIP-2200 classification and refunds), GetCommittedState, Suicide, CreateAccount, TouchAccount, Logs, Add/SubRefund, CleanDeleteObjects, Commit |
| Transition driver and host | `src/unnamed/part_007` | The Txn and the configuration (revision, block context) | Write → applyImpl → preCheck, Apply (applyCall / applyCreate), postCheck; then CleanDeleteObjects. It also acts as the interpreter's host: Call/Callx, Selfdestruct and the getters. |
| Interpreter | `src/evm/state.go`, `src/unnamed/part_001` (EVM.Run) | One pooled `state` per frame: gas (uint64), memory, stack, return data, ip, stop/err | The dispatch loop (stack-depth check, base gas, handler, overflow check), push1/pop/peekAt/swap, consumeGas, checkMemory, halt/exit |
| Opcode handlers | `src/unnamed/part_002` | — | Arithmetic, memory, environment, SSTORE, LOGn, SELFDESTRUCT, the CALL family, CREATE/CREATE2, RETURN/REVERT/STOP |
| Precompiles | `src/unnamed/part_004`, `src/precompiled/`, `src/unnamed/part_001` 1–128 | The registration map `precompiledContracts` | `isPrecompiled` (revision gating), `runPrecompiled` (gas check, Run), each contract's Gas and Run |
| Address derivation | `src/address.go` | — | createAddress (RLP + Keccak), createAddress2 |
| Config, types | `src/unnamed/part_003`, `part_005` | — | Options, stateObject.Copy/Empty, Contract, Message |
| Trie, RLP, tests | `src/unnamed/part_006`, `src/tests/` | — | State-root hashing, test fixtures, the test Snapshot |

### How the parts interact

1. `Write` runs `preCheck`, which takes the upfront gas payment.
2. `Apply` then starts the top-level call or create.
3. The call or create snapshots the overlay and moves value.
4. It runs the code through `EVM.Run`.
5. Each CALL or CREATE opcode calls back into the host (`Host.Call`). This recurses into `applyCall`/`applyCreate` one depth deeper.
6. On an error the host reverts to the snapshot it took.
7. `postCheck` pays the sender and the coinbase, with the refund capped at half the gas used.
8. `CleanDeleteObjects` marks suicided objects, and empty ones from Spurious Dragon on, as deleted. It also drops the refund counter.

### What makes it hard

- **Gas crosses frames.** It is uint64 arithmetic with wrap-around: c.gas − gasCost, gasCost + gas, and the int64 conversions of gasLeft.
- **EIP-2200 metering is stateful.** Its refund counter is a uint64 that can be decremented. It needs the slot value as of the start of the transaction.
- **One overlay is shared by every frame.** Each frame's effects must disappear when it fails. Some effects happen before their gas is charged: a LOG is emitted, or a slot written, before the charge.
- **Write protection is inherited.** It must hold through nested calls below a STATICCALL.
- **Behaviour depends on the revision.** It differs from Frontier to Istanbul.

### Correctness properties

- Gas is conserved: the frames never hold more gas than was bought, plus the stipends.
- Ether is conserved.
- The refund counter never wraps.
- Static frames change nothing observable.
- The stack machine implements the EVM's definition of its opcodes (a refinement).
- The interpreter never executes PUSH data as code, jumps only to JUMPDEST, and always stops.
- No frame sees the memory or return data of an earlier frame on the same pooled state. The memory cost paid is the cost of the memory's size. Nothing panics.
- A failed call leaves no trace.
- A rejected transaction changes nothing.
- The Objects `Commit` emits, merged over the pre state as the conformance test does, give exactly the state the overlay reads.

## 2. Modules

| Module | Models | State (VARIABLES) |
|---|---|---|
| `Txn.tla` | The Txn overlay (`src/txn.go`) as a value: a record `[obj, refund, logs]`. Every method is an operator from an overlay to the new overlay, or to a record of the result and the new overlay. The tree is persistent, so a snapshot is simply an overlay value kept in a sequence. `Commit` maps each state object to its Object: account fields, Root, DirtyCode, Deleted, and the storage entries (0 is a Deleted entry). | none (operators only) |
| `StateTest.tla` | The post state the conformance test hashes: `computeRoot` (tests/state_test.go) merges the committed Objects over the fixture's pre accounts, and `itrie.Commit` removes Deleted accounts. The hashing itself is left out. `Transition` extends it. | none (operators only) |
| `Transition.tla` | The driver, the host and the host-reaching part of the interpreter. | `live` (txn.txn), `snapshots`, `frames` (one record per EVM.Run: gas, depth, static, code length, halt status, return length, memory size, lastGasCost, the snapshot id, and the caller's overlay `pre`, kept for the properties), `phase`, `msg`, `txGas`, `stipends` (history), `outcome`, `txs`, `steps` |
| `Precompiled.tla` | `precompiledContracts`, `isPrecompiled`, `runPrecompiled`, `baseGasCalc`, and the Gas and Run of each contract under `src/`, one operator per contract (Ecrecover, Sha256h, Ripemd160h, Identity, Bn256Add, Bn256Mul, Bn256Pairing), reached through `Contract`, the lookup in the registration map. Input is a number of zero bytes; Run gives the length of its output or an error. Ecrecover's checks are operators over byte sequences: `Get` (zero padding to 128 bytes), the v word, and `ValidateSignatureValues` with `TrimLeftZeros` and `BytesCompare` (`bytes.Compare`). `Transition` extends it. | none (operators only) |
| `MCTransition.tla` | A small world for TLC, with the message sets of the runs. | — |
| `Stack.tla` | The operand stack (`push1`, `pop`, `peekAt`, `swap` in `evm/state.go`), the stack-depth and overflow checks of `Run`, PUSH/POP/DUPn/SWAPn, and every arithmetic, comparison, bitwise and shift handler of part_002 with `toU256`, `to256` and the `Int64()`/`uint` conversions. It instantiates `EvmStack` with a refinement mapping. | `stack` (`c.stack[0:c.sp]`), `status` (running, or the error `exit` set), `steps` |
| `EvmStack.tla` | The abstract specification: the EVM's definition of PUSH, POP, DUPn, SWAPn and the arithmetic opcodes over unsigned words, written from that definition and not from the code. Every exceptional halt is one outcome, `"exception"`. | `stack`, `status` |
| `MCStack.tla` | The widths and operand sets for TLC. | — |
| `Interpreter.tla` | The dispatch loop of `Run` over the bytes of a program: `ip`, `gas`, opcode lookup, stack check, `consumeGas`, handler, overflow check, `ip++`. The handlers are opStop, opJump, opJumpi, opJumpDest, opPush(n), opPc, opGas, opPop, opDup(1) and opIsZero. `validJumpdest` is in the model. The bitmap and the dispatch table are modelled from spec §4.D and §4.G, because they are not under `src/`. | `code`, `ip`, `stack`, `gas`, `status` |
| `MCInterpreter.tla` | Ten programs, each reaching a different way out of `Run`. | — |
| `Memory.tla` | The memory of a pooled `state` (`checkMemory`, `extendByteSlice`, `reset`), MLOAD/MSTORE/MSTORE8, CALLDATACOPY/CODECOPY/EXTCODECOPY (`setBytes`), RETURNDATACOPY, the memory and return-data part of CALL, RETURN, STOP, and the reuse of the state by the next `EVM.Run`. | `mem` (the non-zero bytes), `memLen`, `memCap` (len and cap of `c.memory`), `gas`, `lastGasCost`, `returnData`, `status`, `steps`, and two history variables, `written` and `seen` |
| `MCMemory.tla` | Scaled widths, offsets, data and handler sets for TLC. | — |

### Actions of Transition

| Action | Code |
|---|---|
| `RejectWrite(m)` | `applyImpl` when `preCheck` fails |
| `StartWrite(m)` | `preCheck` passes, then `Apply` up to `run(c)` |

At a precompiled code address, `run(c)` returns `runPrecompiled`'s result at once. `EnterCall` pushes a frame that is already halted with that result (`PrecompileFrame`), and `Return` ends `applyCall` as for any frame. The only step `Return` adds to `runPrecompiled` is EVM.Run's "no gas on error", and `runPrecompiled` already returns 0 gas on error, so nothing changes.
| `OpSStore`, `OpLog`, `OpSelfDestruct`, `OpCall`, `OpCreate`, `OpReturn` (RETURN/REVERT) | The handlers of those opcodes, each preceded by the dispatch loop's base gas (`Exec`) |
| `OpStop` | STOP, or the end of the code |
| `OpFail` | Every other error exit of the loop |
| `Return` | The rest of the synchronous chain once a frame has halted: EVM.Run's epilogue, `applyCall`/`applyCreate` after `run`, then either the caller's opcode after `Host.Call` or, for the top frame, the end of `Apply`, `postCheck` and `Write`'s `CleanDeleteObjects` |

Which opcode runs next is a free choice: EVM code can branch on anything, so every sequence is some program. Arithmetic, stack and jump opcodes do not touch the overlay or the call stack, so they are left out.

### Actions of Stack

| Action | Code |
|---|---|
| `Push(v)` | `opPush`: `push1` set from the code bytes; the bytes are a choice from `Pushes` |
| `Pop` | `opPop`; `pop()` of an empty stack returns nil, which opPop discards |
| `Dup(n)`, `Swap(n)` | `opDup`, `opSwap`, with their own `stackAtLeast` checks |
| `Arith(op)` | One arithmetic handler. `Step` wraps every action in the loop's depth check before the handler and its overflow check after it. |

The refinement mapping sends a running frame's stack to the abstract stack. It sends the three errors `underflow`, `overflow` and `notfound` to `"exception"`, with an empty stack. A `"panic"` (a handler dereferencing the nil of an empty `pop`) has no image, so it violates the refinement.

Word width in `Stack`: a word is `WordBytes` bytes of `ByteBits` bits, and the Go int has `IntBits` bits. The code has 32 bytes of 8 bits and a 64-bit int. The MC uses 3 bytes of 4 bits (12-bit words) and a 6-bit int. TLC integers are 32-bit, and a 12-bit word keeps every product the handlers form (MUL, MULMOD, EXP, SHL) below 2^31. Each handler is translated with these widths in place of 256, 32, 8 and 64. The model keeps the same relations as the code: an int is narrower than a word, so byte indices that do not fit in an int exist, and the shift width is a word value. `equalOrOverflowsUint256` (`BitLen() > 8`) is `shift >= WordBits`, which it is at 256. The dynamic gas of EXP is left out; gas is the business of `Transition`.

### Actions of Interpreter

| Action | Code |
|---|---|
| `Halt` | `Run`: `ip >= codeSize`, then `halt()` |
| `Execute` | One iteration of `Run`'s loop: `dispatchTable[op]` missing (`notfound`), `sp < inst.stack` (`underflow`), `consumeGas` (`outofgas`), `inst.inst(c)`, `sp > stackSize` (`overflow`), `ip++`. The handler is a `Frame` record: its stack, ip and exit status. |

### Actions of Memory

| Action | Code |
|---|---|
| `MLoad`, `MStore`, `MStore8` | The handlers, each after `checkMemory` |
| `CallDataCopy`, `CodeCopy`, `ExtCodeCopy` | `CopyIn`: checkMemory, copy gas, extra gas (EXTCODECOPY), `setBytes` |
| `ReturnDataCopy` | opReturnDataCopy, including its `c.memory[off:]` slice |
| `Call` | The memory side of the CALL family: two checkMemory calls, then `copy(c.memory[off:off+size], returnData)` |
| `Halt` | RETURN: checkMemory, then `c.ret` |
| `Stop` | STOP |
| `Reuse` | `releaseState` (`reset`) and the next `acquireState`, `resetReturnData`, `s.gas =` of `EVM.Run` |

In each action, `Exec(name)` is the dispatch loop's entry to the handler.

Memory scaling: a word is `WordSize` = 4 bytes (32 in the code). `U64` = 2^16 stands for 2^64. `MaxMemArg` = 2^10 − 4 stands for checkMemory's bound 0xffffffffe0. The relations the code relies on are kept:
- the bound is below U64, and both are multiples of the word size;
- `w*w` of the largest accepted size exceeds U64, as `2^36 * 2^36` exceeds 2^64 in the code.

`mem` keeps only non-zero bytes. `memCap` follows Go's `append`: it grows to exactly the length needed, or to twice the old capacity, whichever the runtime picks (a free choice, `grow`).

### Data abstraction

- Code is its length.
- A code hash is "zero", "empty" or "code".
- Storage values are small naturals; 0 is the zero hash.
- The storage root is "backend" or "empty", which decides what GetCommittedState reads.
- The refund counter is an integer; a negative value is the uint64 it would wrap to.
- Gas is kept modulo `GasMod`.
- In `Transition`, memory windows start at offset 0 (`Memory` models arbitrary offsets).
- In `Transition`, the input of an opcode call is empty, and the input of a message is its data length in zero bytes. On zero bytes Ecrecover returns nothing (v wraps to 229), the bn256 points are the point at infinity, and Pairing accepts a multiple of 192 bytes.

## 3. Runs

| Run | cfg | Expect | What it checks |
|---|---|---|---|
| istanbul | `MCTransition.cfg` | pass | TypeOK, NoGasMinting, NoEtherCreated, RefundNeverWraps, StaticPurity, CommitMatchesOverlay, FailedCallLeavesNoTrace under Istanbul |
| two_writes_refund | `MCTransitionTwoWrites.cfg` | violation | RefundNeverWraps when one Transition executes two Writes |
| precheck_reject | `MCTransitionReject.cfg` | violation | RejectedWriteLeavesStateUnchanged |
| call_gas_wrap | `MCTransitionCallGasWrap.cfg` | violation | NoGasMinting with a CALL gas operand near 2^64 under Homestead |
| frontier_deposit | `MCTransitionFrontierDeposit.cfg` | violation | FailedCallLeavesNoTrace for a CREATE whose code deposit fails under Frontier |
| stack_arith | `MCStack.cfg` | pass | ImplementsEvmStack: every step of the stack machine is a step of `EvmStack`. Each handler other than BYTE leaves the word the EVM defines, on operands that are pushed or computed by earlier handlers. These include the most negative word, -1, the shift width and zero divisors. The frame halts exceptionally exactly where the EVM does, and never panics. |
| byte_index_truncation | `MCStackByte.cfg` | violation | ImplementsEvmStack for BYTE |
| interpreter | `MCInterpreter.cfg` | pass | TypeOK. OnInstructionBoundary: a running frame's ip is always an instruction start and never inside PUSH data. Terminates: every frame stops, under weak fairness. |
| interpreter_jump | `MCInterpreterJump.cfg` | violation | JumpsOnlyToJumpdest: a JUMP or JUMPI that jumps lands on a JUMPDEST byte |
| memory | `MCMemory.cfg` | pass | TypeOK. NoStaleState: memory bytes and return data come only from writes and calls of the current frame, even on a reused pooled state. MemoryPaidFor: lastGasCost is the cost of the memory's size, and the gas used covers it. |
| memory_slice_panic | `MCMemoryPanic.cfg` | violation | NoPanic with RETURNDATACOPY and CALL |
| memory_cost_wrap | `MCMemoryCostWrap.cfg` | violation | MemoryPaidFor for an MSTORE at the largest offset checkMemory accepts |

Two earlier passing runs were retired to make room for the interpreter runs:
- `homestead` checked NoGasMinting and NoEtherCreated before Tangerine Whistle with ordinary gas operands. The same properties and mutants are checked under Istanbul.
- `constantinople` checked RefundNeverWraps under EIP-1283 metering without the 2300-gas check.

The Constantinople SSTORE path is no longer checked by any run.

### What the violations show

- **two_writes_refund.** `SetStorage` takes "original" from `GetCommittedState`, which reads the backend and not the slot as the current Write found it.
  1. Write 1 deletes slot 1 of B.
  2. Write 2 re-creates it and takes the "recreate slot" branch.
  3. `SubRefund(15000)` wraps the counter.
  4. `postCheck` then caps the wrapped value to the maximum refund.

  This holds whenever a Transition receives more than one Write. The tests only ever send one.
- **precheck_reject.** `preCheck` deducts the upfront gas cost before the intrinsic-gas and value checks, and never restores it. The spec says pre-check errors make no state change.
- **call_gas_wrap.** Before Tangerine Whistle, `gasCost = gasCost + gas` (part_002:1213) overflows, so the caller pays a few dozen gas and the callee receives nearly 2^64.
- **frontier_deposit.** `applyCreate` returns an error without reverting when the deposit cannot be paid before Homestead. The new account and its value stay while the caller sees failure. The spec says such a creation succeeds with empty code.
- **byte_index_truncation.** `opByte` converts the index with `x.Int64()` (part_002:206), which keeps only the low 64 bits, before comparing it with 31. BYTE(2^64 + 1, y) therefore returns byte 1 of y instead of 0. TLC's trace is BYTE(65, 65) = 4 at the 6-bit int, where `EvmStack` gives 0. An index whose low bits form a negative int64 also passes the check, and `(31 - indx) * 8` wraps to a small shift. BYTE is left out of `stack_arith` for this reason.
- **interpreter_jump.** `validJumpdest` (state.go:109) checks the bit length, the code length and the bitmap bit, never the byte at the destination. Spec §4.D builds a bitmap with the bit of every byte outside a PUSH immediate set, and requires the destination byte to be 0x5B. With that bitmap, `PUSH1 3; JUMP` jumps to a PUSH1 and runs on. The bitmap's code is not in `src/`. Either it marks only JUMPDEST bytes, contrary to §4.D, or the 0x5B check is missing.
- **memory_slice_panic.** Both panics come from `checkMemory`, which returns at once for size 0 and so never bounds the offset. RETURNDATACOPY(memOffset 1, dataOffset 0, length 0) on an empty memory slices `c.memory[1:]` (part_002:804) and panics. TLC shows this trace. A CALL with retSize 0 at retOffset 5, whose callee returns data, slices `c.memory[5:5]` past the capacity (part_002:1271). TLC reaches it when `Handlers` is `{"CALL"}` alone. There is no `recover` in `src/`, so the process dies.
- **memory_cost_wrap.** `newCost := uint64(3*w + w*w/512)` (state.go:281) with `w` up to 2^35 (offset and size each up to 0xffffffffe0): `w*w` wraps the uint64. The scaled trace is an MSTORE at 1020, where lastGasCost becomes 768 instead of 896. In the code this needs about 2·10^11 gas, far above a block's gas; geth bounds the size lower (0x1FFFFFFFE0) for this reason.

### Bounds and why they are enough

- **Accounts.** A pays, B is a contract with code and a populated slot, C and D are the CREATE and CREATE2 targets, CB is the coinbase. C is an empty pre account (nonce 0, no code) whose slot 1 holds 2, as in the collision fixtures: a CREATE there passes the collision check, and its old storage must be gone from the committed state. P8 is the bn256 pairing precompile. CallTargets {B, C, P8} gives calls to code, to a fresh address, to a precompile, and to itself (B → B), which is needed for static re-entry.
- **Storage.** Keys {1}, Vals {0, 1, 2}: three values are the fewest that reach every SetStorage branch (added, deleted, modified, modified again, reset to the original, recreate).
- **Depth and steps.** CallDepthLimit 2 reaches the depth refusal. MaxSteps 3 opcodes per transaction allows call → write → revert, or two writes and a halt.
- **Lengths.** RetLens {1, 2} with MaxCodeSize 1 reach both the code deposit and the size limit.
- **Values and gas operands.** CallValues {0, 1}. GasArgs {BigWord} uses the 63/64 cap from Tangerine Whistle on. A CALL of P8 with value 0 then gets more than the pairing's 45000 and succeeds. With value 1 it pays the new-account and value charges (34000) first, so the pairing runs out of gas, and the value sent before it must be reverted. Under Homestead, {3000} uses the operand as given.
- **GasMod = 2^24.** With it, 1/64 of a wrapped `c.gas − gasCost` is still far above any gas in the model, as it is for 2^64 in the code.
- **Transactions.** MaxTxs is 1 in the passing runs, because the code's tests use one Write per Transition. The two-Writes run shows why more is unsafe.
- **Deadlock.** Checking is off in every cfg. The driver really stops once no message is left to write (`MaxTxs`); that is the end of a block, not a deadlock. The Stack and Memory runs stop when a frame exits with an error or reaches MaxSteps. The Interpreter runs stop when the frame stops, as Run's loop does.

- **Interpreter.** Ten programs and Gases {30, 100}. Together they reach:
  - every exit of `Run`: halt at the end of the code, STOP, notfound, underflow (POP on an empty stack), overflow (StackLimit 2), outofgas, and invalidjump (into PUSH data, and past the code);
  - the taken and untaken branches of JUMPI;
  - a PUSH2 cut short by the end of the code.

  Three of the programs loop until gas runs out; 100 gas is five to eight iterations. No step bound is needed, because gas ends every run.
- **Memory.** Offsets {0, 5, 2000, 70000}:
  - 0 and 5 are inside the memory, or just past it;
  - 2000 is past the bound `MaxMemArg`;
  - 70000 is past `U64`, where `IsUint64` fails.

  DataOffsets {0, 1, 70000} and Lengths {0, 6} give zero-length copies, copies that span a word boundary, and reads past the data. RetDatas {<<>>, <<1>>, <<2,1>>}. MaxSteps 5 allows two frames on one pooled state, each with two memory operations.
- **Stack.** Pushes {0, 1, 3, 12, 2048, 4095}: zero, one, a small odd number, the shift width, the most negative word and -1. Five steps let a handler take an operand computed by an earlier handler. StackLimit 3 is reached by four pushes. The shift opcodes before Constantinople (`errOpCodeNotFound`) are translated, but no run sets an earlier revision.

### Mutants

Each property of each passing run has a mutant: a seeded fault defined next to the operator it replaces. The check substitutes it and TLC must then find the property violated.

| Mutant | Breaks |
|---|---|
| Frame depth counted twice | TypeOK |
| consumeGas that checks without charging | NoGasMinting |
| Coinbase paid the gas used before the refund is taken off | NoEtherCreated |
| First deletion without its refund | RefundNeverWraps |
| LOG without write protection | StaticPurity |
| applyCall without RevertToSnapshot | FailedCallLeavesNoTrace |
| runPrecompiled without its `gas < gasCost` test | TypeOK (gas left goes negative) |
| Commit that skips storage entries set to zero instead of marking them Deleted | CommitMatchesOverlay |
| SDIV taking the sign of the dividend alone, as SMOD does | ImplementsEvmStack |
| consumeGas without its check | TypeOK (Interpreter) |
| opPush advancing ip by n − 1 | OnInstructionBoundary |
| consumeGas that does not subtract | Terminates |
| Word count rounded down instead of up | TypeOK (Memory) |
| `reset` that does not zero the memory | NoStaleState |
| checkMemory that does not record lastGasCost | MemoryPaidFor |

The loop's stack-depth check off by one (`StackCheckOffByOne`) is also killed by ImplementsEvmStack, through the panic it allows.

## 4. Fairness

`Interpreter` assumes weak fairness of `Next`. `Run` is a plain loop in one goroutine: nothing blocks it, and while the frame runs, an iteration is enabled. The liveness property `Terminates` does not follow from a step bound, because the module has none. It follows from gas: every opcode that does not stop the frame charges at least 1 base gas. The Transition, Stack and Memory modules check only safety and action properties, and assume no fairness.

## 5. Not modelled, and the plan

Not modelled:

- **The cryptography of the precompiles.** It is abstracted to output length or error on zero-byte input. ModExp and Blake2f are registered, but their code is not under `src/`. Cheatcodes come from the configuration and are left out. The revision gating is modelled, but only run at Istanbul.
- **CREATE over old storage before Spurious Dragon.** `applyCreate` calls `CreateAccount` only from Spurious Dragon (part_007:338), so under Frontier a contract created at C keeps reading slot 1 = 2, while the DirtyCode of its code makes the committed state drop it. CommitMatchesOverlay fails for this with the Frontier constants and `MCMessages`. The twelve runs are taken by the other findings, so it is recorded as a hazard and not as a run.
- **Ecrecover on real signatures.** `validateSignatureValues` (base.go:126) compares the trimmed r and s with `secp256k1N` using `bytes.Compare`. That orders bytes, not numbers. A value with a leading zero byte, followed by sixteen or more 0xff bytes, is below the curve order but compares above it, so Ecrecover returns nil for a valid signature. Evaluating `ValidateSignatureValues(0, r, <<1>>)` with r = 2^248 - 1 gives FALSE, while r = N and r = 0 are rejected as they should be. The transaction model passes zero bytes to precompiles, and the runs are taken, so this is a hazard and not a run.
- **The memory expansion of SHA3, LOG and CREATE.** They use the same `checkMemory`. In `Transition`, LOG and CREATE keep a memory size but not its bytes.
- **The rest of the dispatch table.** Only the opcodes of `Interpreter`, `Stack` and `Memory` have their table entries, taken from the spec.
- **Hashing, RLP and the trie.** This includes `createAddress` and `createAddress2` (address.go). They are Keccak over RLP, so the MC module gives them as a small deterministic table.
- **Code nothing reaches.** `EmptyState` (state_empty.go) is never constructed. `SetBalance`, `SetNonce`, `AddSealingReward` and `GetAccount` of `Txn` are never called by the driver. `GetCodeSize` is called only by EXTCODESIZE, whose read is not modelled.
- **The read-only host getters.** They are used only inside the operators.

Planned next, in order:

1. **Composition.** The interpreter loop driving the Memory and Stack handlers in one frame.
