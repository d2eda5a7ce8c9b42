------------------------------- MODULE Memory -------------------------------
(***************************************************************************)
(* The memory of one interpreter frame (evm/state.go: checkMemory,         *)
(* extendByteSlice, get2, reset) and the handlers that write or expand it  *)
(* (part_002: MLOAD, MSTORE, MSTORE8, CALLDATACOPY, CODECOPY, EXTCODECOPY, *)
(* RETURNDATACOPY, the memory side of the CALL family, RETURN/REVERT).     *)
(*                                                                         *)
(* A state is pooled (acquireState/releaseState): the byte slice keeps its *)
(* backing array across frames, and reset zeroes it before it is reused.   *)
(* The backing array is kept sparse, as the function from the indices of   *)
(* its non-zero bytes to their values; memLen and memCap are len and cap.  *)
(*                                                                         *)
(* uint64 is U64 (2^64 in the code), 0xffffffffe0 is MaxMemArg and the     *)
(* word is WordSize bytes (32); the MC scales them down together so that   *)
(* the relations between them in the code still hold.                      *)
(***************************************************************************)
EXTENDS Integers, Sequences, FiniteSets

CONSTANTS
  WordSize,     \* wordSize, 32
  U64,          \* 2^64
  MaxMemArg,    \* 0xffffffffe0, the largest offset or size checkMemory takes
  Gas0,         \* the gas a frame starts with
  Rev,          \* the revision, as the index of evmc.Revision
  Input,        \* c.Input, a sequence of bytes
  Code,         \* c.code
  ExtCode,      \* host.GetCode of the EXTCODECOPY address
  Offsets,      \* memory offsets the code may pass
  DataOffsets,  \* offsets into call data, code and return data
  Lengths,      \* lengths the code may pass
  Vals,         \* bytes MSTORE/MSTORE8 may store
  RetDatas,     \* the return data a callee may produce
  Handlers,     \* the handlers the code may use
  MaxSteps      \* bound on executed handlers

TangerineWhistle == 2
Byzantium == 4

\* state.isRevision: the frame's revision is rev or later.
IsRevision(r) == r <= Rev
CopyGas == 3      \* copyGas

VARIABLES
  mem,          \* the backing array of c.memory: index -> non-zero byte
  memLen,       \* len(c.memory)
  memCap,       \* cap(c.memory)
  gas,          \* c.gas
  lastGasCost,  \* c.lastGasCost: the memory cost paid so far
  returnData,   \* c.returnData
  status,       \* "running", or how the frame ended
  written,      \* indices written by the current frame (history)
  seen,         \* return data received by the current frame (history)
  steps

vars == <<mem, memLen, memCap, gas, lastGasCost, returnData, status, written, seen, steps>>

Range(o, n) == {o + j : j \in 0 .. n - 1}
MinOf(a, b) == IF a < b THEN a ELSE b
MaxOf(a, b) == IF a > b THEN a ELSE b

\* copy(c.memory[o:], bs): the bytes bs stored from index o.
Store(m, o, bs) ==
  LET d == (DOMAIN m \ Range(o, Len(bs))) \cup {o + j - 1 : j \in {j \in 1 .. Len(bs) : bs[j] # 0}}
  IN [i \in d |-> IF i \in Range(o, Len(bs)) THEN bs[i - o + 1] ELSE m[i]]

(***************************************************************************)
(* checkMemory(offset, size), as the record of the fields it leaves.  The  *)
(* cost is computed in uint64: w*w wraps, and so does newCost - last.      *)
(* extendByteSlice appends to the backing array when it is too short; the  *)
(* capacity append gives is the runtime's choice, at least the length      *)
(* asked for and at most double the old capacity (grow).                  *)
(***************************************************************************)
\* (n + 31) / 32: the words that hold n bytes.
WordsTruncated(n) == n \div WordSize
Words(n) == (n + WordSize - 1) \div WordSize

Frame == [ok |-> TRUE, err |-> "none", len |-> memLen, cap |-> memCap,
          gas |-> gas, lgc |-> lastGasCost]
Fail(f, err) == [f EXCEPT !.ok = FALSE, !.err = err]
CheckMemory(f, o, s, grow) ==
  IF s = 0 THEN f
  ELSE IF o >= U64 \/ s >= U64 THEN Fail(f, "gasuintoverflow")
  ELSE IF o > MaxMemArg \/ s > MaxMemArg THEN Fail(f, "gasuintoverflow")
  ELSE IF f.len >= o + s THEN f
  ELSE LET w == Words(o + s)
           newCost == (3 * w + ((w * w) % U64) \div 512) % U64
           cost == (newCost - f.lgc) % U64
       IN IF f.gas < cost THEN [Fail(f, "outofgas") EXCEPT !.lgc = newCost]
          ELSE [f EXCEPT !.len = w * WordSize,
                         !.cap = IF w * WordSize <= f.cap THEN f.cap
                                 ELSE IF grow THEN MaxOf(w * WordSize, 2 * f.cap)
                                 ELSE w * WordSize,
                         !.gas = f.gas - cost, !.lgc = newCost]

\* The frame fields a checkMemory result sets.
ApplyKeepLastCost(r) ==
  /\ memLen' = r.len
  /\ memCap' = r.cap
  /\ lastGasCost' = lastGasCost
Apply(r) ==
  /\ memLen' = r.len
  /\ memCap' = r.cap
  /\ lastGasCost' = r.lgc

\* consumeGas(n) with g left: the gas left, or -1 when it is not enough.
GasAfter(g, n) == IF g < 0 \/ g < n THEN -1 ELSE g - n
\* ((size + 31) / 32) * copyGas
CopyCost(l) == Words(l) * CopyGas

\* setBytes(dst, input, size, dataOffset): the bytes copied, zero-padded.
SetBytes(data, size, do) ==
  IF do >= U64 THEN [j \in 1 .. size |-> 0]
  ELSE LET begin == MinOf(do, Len(data))
           copySize == MinOf(size, Len(data) - begin)
       IN [j \in 1 .. size |-> IF j <= copySize THEN data[begin + j] ELSE 0]

WordBytes(v) == [j \in 1 .. WordSize |-> IF j = WordSize THEN v ELSE 0]

-----------------------------------------------------------------------------
Init ==
  /\ mem = [i \in {} |-> 0]
  /\ memLen = 0
  /\ memCap = 0
  /\ gas = Gas0
  /\ lastGasCost = 0
  /\ returnData = << >>
  /\ status = "running"
  /\ written = {}
  /\ seen = {}
  /\ steps = 0

\* One iteration of Run executing handler name.
Exec(name) ==
  /\ status = "running"
  /\ name \in Handlers
  /\ steps < MaxSteps
  /\ steps' = steps + 1

\* The handler stops the frame with err after r (c.exit).
Exit(r, g, err) ==
  /\ Apply(r)
  /\ gas' = g
  /\ status' = err
  /\ UNCHANGED <<mem, returnData, written, seen>>

\* The handler completes after r with g gas left, having stored bs at o.
Write(r, g, o, bs) ==
  /\ Apply(r)
  /\ gas' = g
  /\ mem' = Store(mem, o, bs)
  /\ written' = written \cup Range(o, Len(bs))
  /\ status' = "running"
  /\ UNCHANGED <<returnData, seen>>

\* opMload: get2(c.tmp, offset, wordSize), then push.
MLoad(o, grow) ==
  /\ Exec("MLOAD")
  /\ LET r == CheckMemory(Frame, o, WordSize, grow)
     IN IF ~r.ok THEN Exit(r, r.gas, r.err) ELSE Write(r, r.gas, o, << >>)

\* opMStore: checkMemory(offset, wordSize), then the 32 bytes of val.
MStore(o, v, grow) ==
  /\ Exec("MSTORE")
  /\ LET r == CheckMemory(Frame, o, WordSize, grow)
     IN IF ~r.ok THEN Exit(r, r.gas, r.err) ELSE Write(r, r.gas, o, WordBytes(v))

\* opMStore8: checkMemory(offset, one), then one byte.
MStore8(o, v, grow) ==
  /\ Exec("MSTORE8")
  /\ LET r == CheckMemory(Frame, o, 1, grow)
     IN IF ~r.ok THEN Exit(r, r.gas, r.err) ELSE Write(r, r.gas, o, <<v>>)

(***************************************************************************)
(* opCallDataCopy, opCodeCopy, opExtCodeCopy: checkMemory, the copy gas,   *)
(* for EXTCODECOPY the account-access gas, then setBytes when size # 0.    *)
(***************************************************************************)
CopyIn(data, extra, mo, do, l, grow) ==
  LET r == CheckMemory(Frame, mo, l, grow)
      g1 == GasAfter(r.gas, CopyCost(l))
      g2 == GasAfter(g1, extra)
  IN CASE ~r.ok -> Exit(r, r.gas, r.err)
       [] g1 < 0 -> Exit(r, r.gas, "outofgas")
       [] g2 < 0 -> Exit(r, g1, "outofgas")
       [] OTHER -> Write(r, g2, mo, IF l # 0 THEN SetBytes(data, l, do) ELSE << >>)

CallDataCopy(mo, do, l, grow) ==
  Exec("CALLDATACOPY") /\ CopyIn(Input, 0, mo, do, l, grow)
CodeCopy(mo, do, l, grow) ==
  Exec("CODECOPY") /\ CopyIn(Code, 0, mo, do, l, grow)
ExtCodeCopy(mo, do, l, grow) ==
  Exec("EXTCODECOPY")
  /\ CopyIn(ExtCode, IF IsRevision(TangerineWhistle) THEN 700 ELSE 20, mo, do, l, grow)

(***************************************************************************)
(* opReturnDataCopy.  After checkMemory and the copy gas, the end of the   *)
(* source range is checked against the return data, and then              *)
(* copy(c.memory[memOffset.Uint64():], data).  Slicing past len(c.memory)  *)
(* panics; checkMemory has bounded memOffset only when length # 0.         *)
(***************************************************************************)
ReturnDataCopy(mo, do, l, grow) ==
  /\ Exec("RETURNDATACOPY")
  /\ IF ~IsRevision(Byzantium)
       THEN /\ status' = "notfound"
            /\ UNCHANGED <<mem, memLen, memCap, gas, lastGasCost, returnData, written, seen>>
       ELSE LET r == CheckMemory(Frame, mo, l, grow)
                g1 == GasAfter(r.gas, CopyCost(l))
                end == do + l
                off == mo % U64
            IN CASE ~r.ok -> Exit(r, r.gas, r.err)
                 [] g1 < 0 -> Exit(r, r.gas, "outofgas")
                 [] end >= U64 \/ Len(returnData) < end ->
                      Exit(r, g1, "returndataoutofbounds")
                 [] off > r.len -> Exit(r, g1, "panic")
                 [] OTHER -> Write(r, g1, off, SubSeq(returnData, do + 1, end))

(***************************************************************************)
(* The memory side of opCall (CALL, CALLCODE, DELEGATECALL, STATICCALL):   *)
(* resetReturnData, get2 of the input range, checkMemory of the output     *)
(* range, the call (its gas and value are modelled in Transition; here the *)
(* callee returns any rd), then, when rd is not empty,                     *)
(* copy(c.memory[offset:offset+size], rd), which panics unless             *)
(* offset <= offset+size <= cap(c.memory); checkMemory has bounded the     *)
(* output range only when retSize # 0.                                     *)
(***************************************************************************)
Call(io, is, ro, rs, rd, grow) ==
  /\ Exec("CALL")
  /\ LET r1 == CheckMemory(Frame, io, is, grow)
         r2 == CheckMemory(r1, ro, rs, grow)
         off == ro % U64
         hi == (off + (rs % U64)) % U64
     IN CASE ~r1.ok -> Exit(r1, r1.gas, r1.err) /\ returnData' = << >>
          [] ~r2.ok -> Exit(r2, r2.gas, r2.err) /\ returnData' = << >>
          [] rd # << >> /\ (off > hi \/ hi > r2.cap) ->
               Exit(r2, r2.gas, "panic") /\ returnData' = << >>
          [] OTHER ->
               /\ Apply(r2)
               /\ gas' = r2.gas
               /\ mem' = Store(mem, off, SubSeq(rd, 1, MinOf(hi - off, Len(rd))))
               /\ written' = written \cup Range(off, MinOf(hi - off, Len(rd)))
               /\ returnData' = rd
               /\ seen' = seen \cup {rd}
               /\ status' = "running"

\* opHalt (RETURN, REVERT): c.ret from get2(offset, size), then halt.
Halt(o, s, grow) ==
  /\ Exec("RETURN")
  /\ LET r == CheckMemory(Frame, o, s, grow)
     IN IF ~r.ok THEN Exit(r, r.gas, r.err) ELSE Exit(r, r.gas, "halted")

\* Any other way the frame ends (STOP, the end of the code, another error).
Stop ==
  /\ Exec("STOP")
  /\ status' = "halted"
  /\ UNCHANGED <<mem, memLen, memCap, gas, lastGasCost, returnData, written, seen>>

(***************************************************************************)
(* EVM.Run returns: releaseState resets the state (the loop zeroing        *)
(* c.memory up to its length, then c.memory[:0]) and puts it in the pool;  *)
(* the next EVM.Run takes it with acquireState, resetReturnData and sets   *)
(* the gas.  The backing array, and its capacity, are kept.                *)
(***************************************************************************)
\* resetReturnData: c.returnData[:0].
ResetReturnData(d) == SubSeq(d, 1, 0)

ResetNoZero(m) == m
Reset(m) == [i \in {i \in DOMAIN m : i >= memLen} |-> m[i]]

Reuse ==
  /\ status # "running"
  /\ steps < MaxSteps
  /\ steps' = steps + 1
  /\ mem' = Reset(mem)
  /\ memLen' = 0
  /\ lastGasCost' = 0
  /\ gas' = Gas0
  /\ returnData' = ResetReturnData(returnData)
  /\ status' = "running"
  /\ written' = {}
  /\ seen' = {}
  /\ UNCHANGED memCap

Next ==
  \/ \E o \in Offsets, g \in BOOLEAN : MLoad(o, g)
  \/ \E o \in Offsets, v \in Vals, g \in BOOLEAN : MStore(o, v, g) \/ MStore8(o, v, g)
  \/ \E mo \in Offsets, do \in DataOffsets, l \in Lengths, g \in BOOLEAN :
       \/ CallDataCopy(mo, do, l, g)
       \/ CodeCopy(mo, do, l, g)
       \/ ExtCodeCopy(mo, do, l, g)
       \/ ReturnDataCopy(mo, do, l, g)
  \/ \E ro \in Offsets, rs \in Lengths, rd \in RetDatas, g \in BOOLEAN :
       Call(0, 0, ro, rs, rd, g)
  \/ \E o \in Offsets, l \in Lengths, g \in BOOLEAN : Halt(o, l, g)
  \/ Stop
  \/ Reuse

Spec == Init /\ [][Next]_vars

-----------------------------------------------------------------------------
(* Properties *)

Statuses == {"running", "halted", "outofgas", "gasuintoverflow", "notfound",
             "returndataoutofbounds", "panic"}

TypeOK ==
  /\ DOMAIN mem \subseteq 0 .. memCap - 1
  /\ memLen \in 0 .. memCap
  /\ memLen % WordSize = 0
  /\ gas \in 0 .. Gas0
  /\ status \in Statuses
  /\ steps \in 0 .. MaxSteps

(***************************************************************************)
(* A pooled state shows a frame nothing of an earlier frame: every non-    *)
(* zero byte of the backing array (which extendByteSlice re-exposes up to  *)
(* its capacity) was written by the current frame, and the return data is  *)
(* empty or what a call of the current frame returned.                     *)
(***************************************************************************)
NoStaleState ==
  /\ DOMAIN mem \subseteq written
  /\ returnData \in {<< >>} \cup seen

\* The memory cost the yellow paper defines for a memory of a words.
MemCostRef(a) == 3 * a + (a * a) \div 512

(***************************************************************************)
(* checkMemory charges for memory exactly once: while the frame runs, the  *)
(* memory cost it has paid (lastGasCost) is the cost of its current size,  *)
(* and the gas it has spent covers it.                                     *)
(***************************************************************************)
MemoryPaidFor ==
  status = "running" =>
    /\ lastGasCost = MemCostRef(memLen \div WordSize)
    /\ Gas0 - gas >= lastGasCost

(***************************************************************************)
(* No handler slices c.memory out of its bounds: a Go panic here takes the *)
(* whole process down, since nothing between EVM.Run and Transition.Write  *)
(* recovers.                                                               *)
(***************************************************************************)
NoPanic == status # "panic"

=============================================================================
