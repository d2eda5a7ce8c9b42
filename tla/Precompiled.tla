----------------------------- MODULE Precompiled -----------------------------
(***************************************************************************)
(* Precompile dispatch: the registration map precompiledContracts and       *)
(* runPrecompiled (part_004), Transition.isPrecompiled (part_007), and the *)
(* Gas and Run of the contracts under src/ (precompiled/base.go and the    *)
(* bn256 contracts of part_001).  ModExp and Blake2f are registered, but   *)
(* their code is not under src/, so no address of the model names them.    *)
(*                                                                         *)
(* Input is its length, and its bytes are zeros.  On such input the        *)
(* cryptographic kernels give a fixed answer, which is all Run tells its   *)
(* caller here: the length of its output, or an error.                     *)
(***************************************************************************)
EXTENDS Integers, Sequences

CONSTANT
  PrecompiledContracts  \* precompiledContracts: address -> contract, "none" if absent

LOCAL ByzantiumRev == 4
LOCAL IstanbulRev == 7

\* baseGasCalc(input, base, word).
BaseGasCalc(n, base, word) == base + ((n + 31) \div 32) * word

(***************************************************************************)
(* Each contract's Gas(input, rev) and Run(input) on n zero bytes, as      *)
(* [gas, err, len]: the cost, whether Run errs, and its output length.     *)
(***************************************************************************)
(***************************************************************************)
(* Ecrecover's checks on the 128 bytes it reads, over byte sequences.  The *)
(* curve order is secp256k1N as MustDecodeHex decodes it.                  *)
(***************************************************************************)
Secp256k1N ==
  <<255, 255, 255, 255, 255, 255, 255, 255, 255, 255, 255, 255, 255, 255, 255, 254,
    186, 174, 220, 230, 175, 72, 160, 59, 191, 210, 94, 140, 208, 54, 65, 65>>
One == <<1>>

\* trimLeftZeros: the range loop leaves i at the last index when no byte
\* is nonzero, so an all-zero b keeps its last byte.
TrimLeftZeros(b) ==
  LET nz == {i \in DOMAIN b : b[i] # 0}
      i  == IF nz = {} THEN Len(b) ELSE CHOOSE j \in nz : \A k \in nz : j <= k
  IN IF b = << >> THEN b ELSE SubSeq(b, i, Len(b))

\* bytes.Compare: lexicographic order, a proper prefix before the longer
\* sequence; it reads the bytes, not the numbers they spell.
RECURSIVE BytesCompare(_, _)
BytesCompare(a, b) ==
  CASE a = << >> /\ b = << >> -> 0
    [] a = << >> -> -1
    [] b = << >> -> 1
    [] Head(a) # Head(b) -> IF Head(a) < Head(b) THEN -1 ELSE 1
    [] OTHER -> BytesCompare(Tail(a), Tail(b))

\* validateSignatureValues(v, r, s): v at most 1, r and s trimmed and
\* compared with secp256k1N and one.
ValidateSignatureValues(v, r, s) ==
  LET InRange(x) == LET t == TrimLeftZeros(x)
                    IN ~(BytesCompare(t, Secp256k1N) >= 0 \/ BytesCompare(t, One) < 0)
  IN v <= 1 /\ InRange(r) /\ InRange(s)

\* Precompiled.get(input, size): the first size bytes, zero-padded.
Get(input, size) == [i \in 1 .. size |-> IF i <= Len(input) THEN input[i] ELSE 0]

(***************************************************************************)
(* Ecrecover.Run, as the length of its output: nil (0) unless bytes 32..62 *)
(* are zero, v = input[63] - 27 (a byte, so it wraps) and the signature    *)
(* values pass; recovers is whether wallet.Ecrecover succeeds, whose       *)
(* address leftPad makes 32 bytes.                                         *)
(***************************************************************************)
EcrecoverRun(input, recovers) ==
  LET in == Get(input, 128)
      v  == (in[64] - 27) % 256
  IN IF \E i \in 33 .. 63 : in[i] # 0 THEN 0
     ELSE IF ~ValidateSignatureValues(v, SubSeq(in, 65, 96), SubSeq(in, 97, 128)) THEN 0
     ELSE IF recovers THEN 32 ELSE 0

\* On n zero bytes v = 0 - 27 wraps to 229, so Run returns nil before it
\* recovers anything.
Ecrecover(n) ==
  [gas |-> 3000, err |-> FALSE, len |-> EcrecoverRun([i \in 1 .. n |-> 0], FALSE)]

Identity(n) == [gas |-> BaseGasCalc(n, 15, 3), err |-> FALSE, len |-> n]

Sha256h(n) == [gas |-> BaseGasCalc(n, 60, 12), err |-> FALSE, len |-> 32]

\* The 20-byte digest left-padded to 32 bytes.
Ripemd160h(n) == [gas |-> BaseGasCalc(n, 600, 120), err |-> FALSE, len |-> 32]

\* Zero bytes unmarshal to the point at infinity; the sum and the product
\* are marshalled as 64 bytes.
Bn256Add(n, rev) ==
  [gas |-> IF rev >= IstanbulRev THEN 150 ELSE 500, err |-> FALSE, len |-> 64]

Bn256Mul(n, rev) ==
  [gas |-> IF rev >= IstanbulRev THEN 6000 ELSE 40000, err |-> FALSE, len |-> 64]

\* "bad size" unless the length is a multiple of 192; the pairing of
\* points at infinity holds, so the output is trueBytes.
Bn256Pairing(n, rev) ==
  [gas |-> IF rev >= IstanbulRev THEN 45000 + 34000 * (n \div 192)
           ELSE 100000 + 80000 * (n \div 192),
   err |-> n % 192 # 0, len |-> 32]

\* precompiledContracts[a] through the contract interface.
Contract(a, n, rev) ==
  CASE PrecompiledContracts[a] = "Ecrecover" -> Ecrecover(n)
    [] PrecompiledContracts[a] = "Sha256h" -> Sha256h(n)
    [] PrecompiledContracts[a] = "Ripemd160h" -> Ripemd160h(n)
    [] PrecompiledContracts[a] = "Identity" -> Identity(n)
    [] PrecompiledContracts[a] = "Bn256Add" -> Bn256Add(n, rev)
    [] PrecompiledContracts[a] = "Bn256Mul" -> Bn256Mul(n, rev)
    [] PrecompiledContracts[a] = "Bn256Pairing" -> Bn256Pairing(n, rev)

\* Transition.isPrecompiled: registered, and the Byzantium and Istanbul
\* contracts only from their revisions on.
IsPrecompiled(a, rev) ==
  LET k == PrecompiledContracts[a]
  IN /\ k # "none"
     /\ k \in {"ModExp", "Bn256Add", "Bn256Mul", "Bn256Pairing"} => rev >= ByzantiumRev
     /\ k = "Blake2f" => rev >= IstanbulRev

(***************************************************************************)
(* runPrecompiled(codeAddress, input, gas, rev): too little gas, or an     *)
(* error of Run, returns no gas; otherwise Run's output and gas - cost.    *)
(***************************************************************************)
\* Seeded fault for mutation analysis: runPrecompiled without its gas check.
RunPrecompiledUnchecked(a, n, gas, rev) ==
  LET c == Contract(a, n, rev)
  IN IF c.err THEN [ret |-> 0, gasLeft |-> 0, err |-> "error"]
     ELSE [ret |-> c.len, gasLeft |-> gas - c.gas, err |-> "none"]

RunPrecompiled(a, n, gas, rev) ==
  LET c == Contract(a, n, rev)
  IN IF gas < c.gas \/ c.err
     THEN [ret |-> 0, gasLeft |-> 0, err |-> "error"]
     ELSE [ret |-> c.len, gasLeft |-> gas - c.gas, err |-> "none"]
=============================================================================
