-------------------------------- MODULE Txn --------------------------------
(***************************************************************************)
(* The transactional state overlay of go-evm (txn.go, type Txn).           *)
(*                                                                         *)
(* The overlay is a persistent radix tree keyed by address that holds the  *)
(* state objects touched by the running transactions, plus two reserved    *)
(* keys for the log list and the refund counter.  Snapshot() freezes the   *)
(* tree and pushes it on an append-only array; RevertToSnapshot(id) makes  *)
(* the frozen tree with that index the live one.  Because the tree is      *)
(* persistent, an overlay is modelled as a value: a record holding the     *)
(* state objects, the refund counter and the log list.  Every method of    *)
(* Txn that the driver and the interpreter call is an operator from an     *)
(* overlay (and its arguments) to the new overlay, or to a record of the   *)
(* method's result and the new overlay.  Transition.tla composes them.     *)
(*                                                                         *)
(* Data abstraction: code is represented by its length (0 is the empty     *)
(* code, whose hash is EmptyCodeHash), a code hash by the tag "empty" or   *)
(* "code", the zero hash by "zero", balances and storage values by small   *)
(* naturals (0 is the zero hash).  The refund counter is a uint64 in the   *)
(* code; here it is an integer, and a negative value stands for the value  *)
(* the uint64 subtraction wraps to.                                        *)
(***************************************************************************)
EXTENDS Integers, Sequences

CONSTANTS
  Addrs,           \* account addresses
  Keys,            \* storage keys
  Vals,            \* storage values; 0 is the zero hash
  Rev,             \* the configured protocol revision (evmc numbering)
  BackendAccount,  \* Snapshot.GetAccount: address -> account record or NoAccount
  BackendStorage,  \* Snapshot.GetStorage under an account's own root
  NoAccount,       \* GetAccount returned nil
  NoObject,        \* no state object (absent from the overlay and backend)
  Unset            \* a storage key that the object's storage Txn does not hold

ASSUME 0 \in Vals
ASSUME Rev \in 0..7

(***************************************************************************)
(* Protocol revisions in evmc order; isRevision(r) is r <= Rev.            *)
(***************************************************************************)
Frontier == 0
Homestead == 1
TangerineWhistle == 2
SpuriousDragon == 3
Byzantium == 4
Constantinople == 5
Petersburg == 6
Istanbul == 7

IsRevision(r) == r <= Rev

(***************************************************************************)
(* The root of an account: "backend" for an account read from the          *)
(* Snapshot, "empty" (EmptyRootHash) for one the overlay created.          *)
(***************************************************************************)
BackendRead(a, root, k) ==
  IF root = "empty" THEN 0 ELSE BackendStorage[a][k]

(***************************************************************************)
(* A fresh state object: zero balance, EmptyCodeHash, EmptyRootHash.       *)
(***************************************************************************)
NewStateObject ==
  [nonce |-> 0, balance |-> 0, code |-> 0, root |-> "empty",
   storage |-> [k \in Keys |-> Unset],
   suicide |-> FALSE, deleted |-> FALSE, dirty |-> FALSE]

(* The empty overlay of NewTxn. *)
EmptyOverlay ==
  [obj |-> [a \in Addrs |-> NoObject], refund |-> 0, logs |-> <<>>]

\* Snapshot: CommitOnly freezes the overlay, appended to txn.snapshots; the
\* id it returns is the length before the append.
Snapshot(snaps, o) == Append(snaps, o)

(***************************************************************************)
(* getStateObject: the overlay first (a deleted object reads as absent),   *)
(* else the backend account, copied into a new object.                     *)
(***************************************************************************)
GetStateObject(o, a) ==
  IF o.obj[a] # NoObject
  THEN IF o.obj[a].deleted THEN NoObject ELSE o.obj[a]
  ELSE IF BackendAccount[a] = NoAccount THEN NoObject
  ELSE [NewStateObject EXCEPT !.nonce = BackendAccount[a].nonce,
                              !.balance = BackendAccount[a].balance,
                              !.code = BackendAccount[a].code,
                              !.root = "backend"]

(***************************************************************************)
(* upsertAccount: the object its callback is given (a new one if absent    *)
(* and create), and the insertion of the callback's result unless nil.     *)
(***************************************************************************)
UpsertAccount(o, a, create) ==
  IF GetStateObject(o, a) = NoObject /\ create THEN NewStateObject
  ELSE GetStateObject(o, a)

InsertObject(o, a, obj) ==
  IF obj = NoObject THEN o ELSE [o EXCEPT !.obj[a] = obj]

IsEmpty(obj) == obj.nonce = 0 /\ obj.balance = 0 /\ obj.code = 0

GetBalance(o, a) ==
  IF GetStateObject(o, a) = NoObject THEN 0 ELSE GetStateObject(o, a).balance

GetNonce(o, a) ==
  IF GetStateObject(o, a) = NoObject THEN 0 ELSE GetStateObject(o, a).nonce

GetCode(o, a) ==
  IF GetStateObject(o, a) = NoObject THEN 0 ELSE GetStateObject(o, a).code

IsEmptyAddr(o, a) ==
  GetStateObject(o, a) = NoObject \/ IsEmpty(GetStateObject(o, a))

(* GetCodeHash: the zero hash for an empty account. *)
GetCodeHash(o, a) ==
  IF IsEmptyAddr(o, a) THEN "zero"
  ELSE IF GetStateObject(o, a).code = 0 THEN "empty" ELSE "code"

AddBalance(o, a, v) ==
  LET obj == UpsertAccount(o, a, TRUE)
  IN InsertObject(o, a, [obj EXCEPT !.balance = @ + v])

(***************************************************************************)
(* SubBalance: a no-op for zero, errNotEnoughFunds when short.             *)
(***************************************************************************)
SubBalance(o, a, v) ==
  IF v = 0 THEN [err |-> FALSE, txn |-> o]
  ELSE IF GetBalance(o, a) < v THEN [err |-> TRUE, txn |-> o]
  ELSE [err |-> FALSE,
        txn |-> LET obj == UpsertAccount(o, a, TRUE)
                IN InsertObject(o, a, [obj EXCEPT !.balance = @ - v])]

IncrNonce(o, a) ==
  LET obj == UpsertAccount(o, a, TRUE)
  IN InsertObject(o, a, [obj EXCEPT !.nonce = @ + 1])

SetCode(o, a, len) ==
  LET obj == UpsertAccount(o, a, TRUE)
  IN InsertObject(o, a, [obj EXCEPT !.code = len, !.dirty = TRUE])

TouchAccount(o, a) == InsertObject(o, a, UpsertAccount(o, a, TRUE))

(* AccountExists: non-empty from Spurious Dragon, present before. *)
AccountExists(o, a) ==
  IF Rev >= SpuriousDragon THEN ~IsEmptyAddr(o, a)
  ELSE GetStateObject(o, a) # NoObject

EmitLog(o, a) == [o EXCEPT !.logs = Append(@, a)]

(* Logs: return the log list and delete the log key. *)
Logs(o) == [logs |-> o.logs, txn |-> [o EXCEPT !.logs = <<>>]]

AddRefund(o, gas) == [o EXCEPT !.refund = @ + gas]

SubRefund(o, gas) == [o EXCEPT !.refund = @ - gas]

\* GetRefund: the counter under refundIndex, 0 if never written.
GetRefund(o) == o.refund

(***************************************************************************)
(* Storage.  GetState reads the object's storage Txn, else the backend     *)
(* under the object's root; GetCommittedState always reads the backend.    *)
(***************************************************************************)
GetState(o, a, k) ==
  LET obj == GetStateObject(o, a)
  IN IF obj = NoObject THEN 0
     ELSE IF obj.storage[k] # Unset THEN obj.storage[k]
     ELSE BackendRead(a, obj.root, k)

GetCommittedState(o, a, k) ==
  LET obj == GetStateObject(o, a)
  IN IF obj = NoObject THEN 0 ELSE BackendRead(a, obj.root, k)

SetState(o, a, k, v) ==
  LET obj == UpsertAccount(o, a, TRUE)
  IN InsertObject(o, a, [obj EXCEPT !.storage[k] = v])

(* Seeded fault for mutation analysis: the first deletion of a slot  *)
(* forgets its 15000 refund.                                         *)
SetStorageNoDeleteRefund(o, a, k, v) ==
  LET current  == GetState(o, a, k)
      original == GetCommittedState(o, a, k)
      w        == SetState(o, a, k, v)
      istanbul == IsRevision(Istanbul)
      legacy   == ~istanbul /\ (IsRevision(Petersburg)
                                \/ ~IsRevision(Constantinople))
      Result(s, r) == [status |-> s, txn |-> r]
      \* refund changes of a repeated write (cases 2.2.1 and 2.2.2)
      dirty    == (IF original # 0 /\ current = 0 THEN -15000
                   ELSE IF original # 0 /\ v = 0 THEN 15000 ELSE 0)
      reset    == IF original # v THEN 0
                  ELSE IF original = 0 THEN (IF istanbul THEN 19200 ELSE 19800)
                  ELSE (IF istanbul THEN 4200 ELSE 4800)
  IN CASE current = v -> Result("Unchanged", o)
       [] legacy /\ current = 0 -> Result("Added", w)
       [] legacy /\ v = 0 -> Result("Deleted", AddRefund(w, 15000))
       [] legacy -> Result("Modified", w)
       [] original = current /\ original = 0 -> Result("Added", w)
       [] original = current /\ v = 0 -> Result("Deleted", w)
       [] original = current -> Result("Modified", w)
       [] OTHER -> Result("ModifiedAgain", AddRefund(w, dirty + reset))

(***************************************************************************)
(* SetStorage: write the slot and classify the write per EIP-2200 (or the  *)
(* legacy rules), adjusting the refund counter.  Returns the status and    *)
(* the new overlay.                                                        *)
(***************************************************************************)
SetStorage(o, a, k, v) ==
  LET current  == GetState(o, a, k)
      original == GetCommittedState(o, a, k)
      w        == SetState(o, a, k, v)
      istanbul == IsRevision(Istanbul)
      legacy   == ~istanbul /\ (IsRevision(Petersburg)
                                \/ ~IsRevision(Constantinople))
      Result(s, r) == [status |-> s, txn |-> r]
      \* refund changes of a repeated write (cases 2.2.1 and 2.2.2)
      dirty    == (IF original # 0 /\ current = 0 THEN -15000
                   ELSE IF original # 0 /\ v = 0 THEN 15000 ELSE 0)
      reset    == IF original # v THEN 0
                  ELSE IF original = 0 THEN (IF istanbul THEN 19200 ELSE 19800)
                  ELSE (IF istanbul THEN 4200 ELSE 4800)
  IN CASE current = v -> Result("Unchanged", o)
       [] legacy /\ current = 0 -> Result("Added", w)
       [] legacy /\ v = 0 -> Result("Deleted", AddRefund(w, 15000))
       [] legacy -> Result("Modified", w)
       [] original = current /\ original = 0 -> Result("Added", w)
       [] original = current /\ v = 0 -> Result("Deleted", AddRefund(w, 15000))
       [] original = current -> Result("Modified", w)
       [] OTHER -> Result("ModifiedAgain", AddRefund(w, dirty + reset))

(***************************************************************************)
(* Suicide: mark the object and zero its balance; reports whether this was *)
(* the first suicide.  It never creates an object.                         *)
(***************************************************************************)
Suicide(o, a) ==
  LET obj == GetStateObject(o, a)
  IN [suicided |-> obj # NoObject /\ ~obj.suicide,
      txn |-> InsertObject(o, a, IF obj = NoObject THEN obj
                                 ELSE [obj EXCEPT !.suicide = TRUE, !.balance = 0])]

HasSuicided(o, a) ==
  GetStateObject(o, a) # NoObject /\ GetStateObject(o, a).suicide

(* CreateAccount: a fresh object that keeps only the previous balance. *)
CreateAccount(o, a) ==
  [o EXCEPT !.obj[a] = [NewStateObject EXCEPT !.balance = GetBalance(o, a)]]

(***************************************************************************)
(* CleanDeleteObjects: mark every suicided object of the overlay, and      *)
(* every empty one when deleteEmpty, as deleted; drop the refund key.      *)
(***************************************************************************)
CleanDeleteObjects(o, deleteEmpty) ==
  [o EXCEPT
     !.obj = [a \in Addrs |->
                IF o.obj[a] # NoObject
                   /\ (o.obj[a].suicide \/ (IsEmpty(o.obj[a]) /\ deleteEmpty))
                THEN [o.obj[a] EXCEPT !.deleted = TRUE]
                ELSE o.obj[a]],
     !.refund = 0]

(***************************************************************************)
(* Commit: one Object per state object of the overlay, keyed by address:   *)
(* its account fields, Root, DirtyCode and Deleted, and unless it is       *)
(* deleted the entries of its storage Txn, a value 0 being an entry        *)
(* marked Deleted.  The log list and the refund key are not objects.       *)
(***************************************************************************)
\* Seeded fault for mutation analysis: Commit skips the storage entries
\* whose value is nil instead of emitting them as Deleted.
CommitObjectSkipDeleted(obj) ==
  [nonce |-> obj.nonce, balance |-> obj.balance, code |-> obj.code,
   root |-> obj.root, dirty |-> obj.dirty, deleted |-> obj.deleted,
   storage |-> IF obj.deleted THEN [k \in {} |-> 0]
               ELSE [k \in {k \in Keys : obj.storage[k] \notin {Unset, 0}} |-> obj.storage[k]]]

CommitObject(obj) ==
  [nonce |-> obj.nonce, balance |-> obj.balance, code |-> obj.code,
   root |-> obj.root, dirty |-> obj.dirty, deleted |-> obj.deleted,
   storage |-> IF obj.deleted THEN [k \in {} |-> 0]
               ELSE [k \in {k \in Keys : obj.storage[k] # Unset} |-> obj.storage[k]]]

Commit(o) ==
  [a \in {a \in Addrs : o.obj[a] # NoObject} |-> CommitObject(o.obj[a])]

=============================================================================
