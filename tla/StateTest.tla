------------------------------ MODULE StateTest ------------------------------
(***************************************************************************)
(* The post state the conformance tests hash (tests/state_test.go,         *)
(* computeRoot, and tests/itrie/state.go, Commit): the pre accounts of the *)
(* fixture, with the Objects of Txn.Commit merged over them.  The trie and *)
(* its hashing are left out; the state they hash is a function from        *)
(* address to NoAccount or an account with its whole storage.              *)
(***************************************************************************)
EXTENDS Txn

\* computeRoot's pre data: every fixture account with its storage.  The
\* backend of the model is the fixture, as the test's wrapper makes it.
PreAccount(a) ==
  IF BackendAccount[a] = NoAccount THEN NoAccount
  ELSE [nonce |-> BackendAccount[a].nonce, balance |-> BackendAccount[a].balance,
        code |-> BackendAccount[a].code, storage |-> BackendStorage[a]]

(***************************************************************************)
(* The merge of a committed object: its nonce, balance and code hash       *)
(* replace the pre account's; DirtyCode drops the pre storage; the         *)
(* object's storage entries are appended, so they override.  Root is not   *)
(* read.                                                                   *)
(***************************************************************************)
PostAccount(a, raw) ==
  LET base == IF PreAccount(a) # NoAccount /\ ~raw.dirty
              THEN PreAccount(a).storage ELSE [k \in Keys |-> 0]
  IN [nonce |-> raw.nonce, balance |-> raw.balance, code |-> raw.code,
      storage |-> [k \in Keys |-> IF k \in DOMAIN raw.storage
                                  THEN raw.storage[k] ELSE base[k]]]

\* itrie.Commit: a Deleted object removes the account; every other one is
\* inserted with the storage it carries.
ComputeRoot(objs) ==
  [a \in Addrs |-> IF a \notin DOMAIN objs THEN PreAccount(a)
                   ELSE IF objs[a].deleted THEN NoAccount
                   ELSE PostAccount(a, objs[a])]

=============================================================================
