------------------------------ MODULE MCMemory ------------------------------
(***************************************************************************)
(* One pooled interpreter state at a 4-byte word with a 16-bit uint64.     *)
(* MaxMemArg is 2^10 - WordSize, the place 0xffffffffe0 = 2^40 - 32 has    *)
(* at 64 bits scaled to 16: so, as in the code, an offset and a size that  *)
(* both pass the check make a word count w whose square wraps the uint64.  *)
(***************************************************************************)
EXTENDS Memory

MCU64 == 2^16
MCMaxMemArg == 2^10 - 4

\* Memory offsets: 0, 5, one past MaxMemArg, and one that is not a uint64.
MCOffsets == {0, 5, 2000, 70000}
\* Data offsets: the start, inside the data, and one that is not a uint64.
MCDataOffsets == {0, 1, 70000}

\* The largest offset checkMemory takes, to reach the wrap of w*w.
MCWideOffsets == {MCMaxMemArg}

\* Call data of two bytes, code of one byte, another account's code of one.
MCInput == <<1, 2>>
MCCode == <<2>>
MCExtCode == <<1>>

MCRetDatas == {<< >>, <<1>>, <<2, 1>>}

MCHandlers == {"MLOAD", "MSTORE", "MSTORE8", "CALLDATACOPY", "CODECOPY",
               "EXTCODECOPY", "RETURNDATACOPY", "CALL", "RETURN", "STOP"}
\* The handlers of the violation runs.
MCSliceHandlers == {"RETURNDATACOPY", "CALL"}
MCMStoreOnly == {"MSTORE"}
MCOneByteRet == {<<1>>}
=============================================================================
