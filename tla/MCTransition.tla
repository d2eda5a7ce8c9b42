---------------------------- MODULE MCTransition ----------------------------
(***************************************************************************)
(* A small world for the Transition model.  A is an externally owned      *)
(* account that pays for the messages, B a contract with one byte of code *)
(* and storage slot 1 set to 1, C and D the addresses CREATE and CREATE2  *)
(* derive, CB the coinbase, P8 the bn256 pairing precompile (address 8),  *)
(* with no account of its own.  Gas is kept modulo 2^24: the 1/64 of a    *)
(* wrapped c.gas - gasCost is then still far above any gas of the model,  *)
(* as 1/64 of a wrapped uint64 is in the code.                            *)
(***************************************************************************)
EXTENDS Transition

CONSTANTS A, B, C, D, CB, P8

MCAddrs == {A, B, C, D, CB, P8}

MCBackendAccount ==
  [a \in MCAddrs |->
     CASE a = A -> [nonce |-> 0, balance |-> 200000, code |-> 0]
       [] a = B -> [nonce |-> 1, balance |-> 1, code |-> 1]
       [] a = C -> [nonce |-> 0, balance |-> 0, code |-> 0]
       [] OTHER -> NoAccount]

MCBackendStorage ==
  [a \in MCAddrs |-> [k \in Keys |-> CASE a = B -> 1 [] a = C -> 2 [] OTHER -> 0]]

MCPrecompiledContracts ==
  [a \in MCAddrs |-> IF a = P8 THEN "Bn256Pairing" ELSE "none"]

MCCreateAddress(sender, nonce) == IF sender = A THEN C ELSE D

MCCreateAddress2(sender, salt) == D

MCGasMod == 2^24

(* The messages: a call of B, a creation with one byte of init code, *)
(* and a call with a nonce A does not have yet.                       *)
MCMessages ==
  {[from |-> A, to |-> B, value |-> 0, gas |-> 80000, price |-> 1,
    nonce |-> 0, zeros |-> 0, nonzeros |-> 0],
   [from |-> A, to |-> B, value |-> 0, gas |-> 80000, price |-> 1,
    nonce |-> 1, zeros |-> 0, nonzeros |-> 0],
   [from |-> A, to |-> NoAddr, value |-> 1, gas |-> 90000, price |-> 1,
    nonce |-> 0, zeros |-> 0, nonzeros |-> 1]}

(* Two calls of B in a row on one Transition, as Write allows. *)
MCTwoCalls ==
  {[from |-> A, to |-> B, value |-> 0, gas |-> 80000, price |-> 1,
    nonce |-> n, zeros |-> 0, nonzeros |-> 0] : n \in {0, 1}}

(* A message whose gas does not cover its intrinsic gas. *)
MCShortGas ==
  {[from |-> A, to |-> B, value |-> 0, gas |-> 20000, price |-> 1,
    nonce |-> 0, zeros |-> 0, nonzeros |-> 0]}

(* A CALL gas operand that fits in a uint64 but is close to its maximum. *)
MCHugeGasArgs == {MCGasMod - 10}

(* A call of B whose gas leaves a CREATE in B less than the code deposit. *)
MCTightCreate ==
  {[from |-> A, to |-> B, value |-> 0, gas |-> 53303, price |-> 1,
    nonce |-> 0, zeros |-> 0, nonzeros |-> 0]}

=============================================================================
