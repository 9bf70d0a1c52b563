------------------------------ MODULE KeyPool ------------------------------
(***************************************************************************)
(* The keys of the wallet: the key pool and its reservations, encryption   *)
(* of the wallet and the records of both in wallet.dat (wallet.cpp,        *)
(* crypter.cpp, walletdb.cpp, CDB::Rewrite of db.cpp).                     *)
(*                                                                         *)
(* Every record is written at once, except in the database transaction of  *)
(* EncryptWallet.  cs_wallet makes the functions of the pool atomic, but   *)
(* KeepKey and the timer that locks the wallet do not take it.  EncryptWallet *)
(* holds it throughout and takes a step per write, as a crash comes between *)
(* any two; a crash inside the other functions, each of which leaves whole *)
(* records behind, is left out.                                            *)
(***************************************************************************)
EXTENDS Integers, FiniteSets, FiniteSetsExt

CONSTANTS
    Holder,         \* objects of class CReserveKey
    KeyPoolSize,    \* -keypool
    MaxKeys         \* bound: keys ever generated

ASSUME KeyPoolAssumption == KeyPoolSize \in Nat /\ MaxKeys \in Nat

None == 0           \* nIndex = -1, vchPubKey empty

VARIABLES
    nextKey,        \* the next key GenerateNewKey makes; keys are 1 .. nextKey - 1
    fUseCrypto, locked,
    setKeyPool,     \* indices, in memory
    held,           \* nIndex and vchPubKey of each holder
    keys,           \* "plain" or "crypted" for each key in wallet.dat
    pool,           \* the "pool" records: index to key
    mkey,           \* there is a master key record
    encrypt,        \* where EncryptWallet is; "no" outside of it
    used,           \* (history) keys taken for good
    reused          \* (history) the index of a reservation was given to a new key

keyPoolVars ==
    <<nextKey, fUseCrypto, locked, setKeyPool, held, keys, pool, mkey, encrypt, used, reused>>

Nothing == [index |-> None, key |-> None]

KeyPoolInit ==
    /\ nextKey = 1
    /\ fUseCrypto = FALSE /\ locked = FALSE
    /\ setKeyPool = {} /\ held = [h \in Holder |-> Nothing]
    /\ keys = <<>> /\ pool = <<>> /\ mkey = FALSE
    /\ encrypt = "no" /\ used = {} /\ reused = FALSE

-----------------------------------------------------------------------------
(* The pool.                                                                *)

Last(S) == IF S = {} THEN 0 ELSE Max(S)

\* The keys n calls of GenerateNewKey add, plain or crypted as the wallet is.
WithNewKeys(n) ==
    [k \in 1 .. nextKey + n - 1 |->
        IF k < nextKey THEN keys[k] ELSE IF fUseCrypto THEN "crypted" ELSE "plain"]

Missing(size) == IF Cardinality(setKeyPool) < size + 1 THEN size + 1 - Cardinality(setKeyPool) ELSE 0

NewIndices(n) == Last(setKeyPool) + 1 .. Last(setKeyPool) + n

\* The pool's records with n new keys under the indices that follow the last.
WithNewPool(n) ==
    [i \in DOMAIN pool \cup NewIndices(n) |->
        IF i \in NewIndices(n) THEN nextKey + (i - Last(setKeyPool)) - 1 ELSE pool[i]]

\* What TopUpKeyPool does when the wallet is not locked.
TopUp(n) ==
    /\ nextKey + n <= MaxKeys + 1
    /\ nextKey' = nextKey + n
    /\ keys' = WithNewKeys(n)
    /\ pool' = WithNewPool(n)
    /\ reused' = (reused \/ \E h \in Holder : held[h].index \in NewIndices(n))

\* keypoolrefill, or Unlock by RPC, with the size asked for or the configured one.
TopUpKeyPool(size) ==
    /\ encrypt = "no"
    /\ ~locked
    /\ Missing(size) > 0
    /\ TopUp(Missing(size))
    /\ setKeyPool' = setKeyPool \cup NewIndices(Missing(size))
    /\ UNCHANGED <<fUseCrypto, locked, held, mkey, encrypt, used>>

\* ReserveKeyFromKeyPool for a holder that has nothing; it throws if the lowest
\* index has no record.
GetReservedKey(h) ==
    /\ encrypt = "no"
    /\ held[h] = Nothing
    /\ LET n == IF locked THEN 0 ELSE Missing(KeyPoolSize)
           full == setKeyPool \cup NewIndices(n)
       IN  /\ full # {}
           /\ TopUp(n)
           /\ setKeyPool' = full \ {Min(full)}
           /\ held' = IF Min(full) \in DOMAIN pool'
                      THEN [held EXCEPT ![h] = [index |-> Min(full), key |-> pool'[Min(full)]]]
                      ELSE held
    /\ UNCHANGED <<fUseCrypto, locked, mkey, encrypt, used>>

Erased(i) == [j \in DOMAIN pool \ {i} |-> pool[j]]

\* KeepKey needs no lock: a miner or a payment takes its key at any time.
KeepKey(h) ==
    /\ held[h] # Nothing
    /\ encrypt # "moved"
    /\ pool' = Erased(held[h].index)
    /\ used' = used \cup {held[h].key}
    /\ held' = [held EXCEPT ![h] = Nothing]
    /\ UNCHANGED <<nextKey, fUseCrypto, locked, setKeyPool, keys, mkey, encrypt, reused>>

ReturnKey(h) ==
    /\ encrypt = "no"
    /\ held[h] # Nothing
    /\ setKeyPool' = setKeyPool \cup {held[h].index}
    /\ held' = [held EXCEPT ![h] = Nothing]
    /\ UNCHANGED <<nextKey, fUseCrypto, locked, keys, pool, mkey, encrypt, used, reused>>

-----------------------------------------------------------------------------
(* Encryption.                                                              *)

\* walletpassphrase, then walletlock or the timer.
Unlock ==
    /\ encrypt = "no"
    /\ fUseCrypto /\ locked
    /\ locked' = FALSE
    /\ UNCHANGED <<nextKey, fUseCrypto, setKeyPool, held, keys, pool, mkey, encrypt, used, reused>>

LockWallet ==
    /\ fUseCrypto /\ ~locked /\ encrypt = "no"
    /\ locked' = TRUE
    /\ UNCHANGED <<nextKey, fUseCrypto, setKeyPool, held, keys, pool, mkey, encrypt, used, reused>>

\* EncryptWallet up to TxnCommit: EncryptKeys leaves crypted keys in memory, the
\* master key and the records are in a transaction of the database.
BeginEncrypt ==
    /\ encrypt = "no"
    /\ ~fUseCrypto
    /\ fUseCrypto' = TRUE /\ locked' = TRUE
    /\ encrypt' = "txn"
    /\ UNCHANGED <<nextKey, setKeyPool, held, keys, pool, mkey, used, reused>>

\* TxnCommit; Lock; Unlock.  NewKeyPool comes next.
FaultyCommitted == keys     \* Faulty variant: the records keep the plain keys.

Committed == [k \in DOMAIN keys |-> "crypted"]

TxnCommit ==
    /\ encrypt = "txn"
    /\ keys' = Committed
    /\ mkey' = TRUE
    /\ locked' = FALSE
    /\ encrypt' = "erase"
    /\ UNCHANGED <<nextKey, fUseCrypto, setKeyPool, held, pool, used, reused>>

\* NewKeyPool, first loop: one record of the pool is erased; clear() at its end.
ErasePool ==
    /\ encrypt = "erase"
    /\ \E i \in setKeyPool : i \in DOMAIN pool /\ pool' = Erased(i)
    /\ UNCHANGED <<nextKey, fUseCrypto, locked, setKeyPool, held, keys, mkey, encrypt, used, reused>>

ClearPool ==
    /\ encrypt = "erase"
    /\ setKeyPool \cap DOMAIN pool = {}
    /\ setKeyPool' = {}
    /\ encrypt' = "fill"
    /\ UNCHANGED <<nextKey, fUseCrypto, locked, held, keys, pool, mkey, used, reused>>

\* Second loop: indices start from one again.
WritePool ==
    /\ encrypt = "fill"
    /\ Cardinality(setKeyPool) < KeyPoolSize
    /\ nextKey <= MaxKeys
    /\ TopUp(1)
    /\ setKeyPool' = setKeyPool \cup NewIndices(1)
    /\ UNCHANGED <<fUseCrypto, locked, held, mkey, encrypt, used>>

\* Lock, and CDB::Rewrite copies wallet.dat to wallet.dat.rewrite and removes it;
\* then it renames the copy.
RemoveOld ==
    /\ encrypt = "fill"
    /\ Cardinality(setKeyPool) = KeyPoolSize
    /\ locked' = TRUE
    /\ encrypt' = "moved"
    /\ UNCHANGED <<nextKey, fUseCrypto, setKeyPool, held, keys, pool, mkey, used, reused>>

RenameNew ==
    /\ encrypt = "moved"
    /\ encrypt' = "no"
    /\ UNCHANGED <<nextKey, fUseCrypto, locked, setKeyPool, held, keys, pool, mkey, used, reused>>

\* The process ends anywhere and loads wallet.dat.  Left out: a crash between
\* RemoveOld and RenameNew, after which there is no wallet.dat to load, only
\* wallet.dat.rewrite.
Restart ==
    /\ encrypt # "moved"
    /\ fUseCrypto' = mkey /\ locked' = mkey
    /\ setKeyPool' = DOMAIN pool
    /\ held' = [h \in Holder |-> Nothing]
    /\ encrypt' = "no"
    /\ reused' = FALSE
    /\ UNCHANGED <<nextKey, keys, pool, mkey, used>>

-----------------------------------------------------------------------------
KeyPoolNext ==
    \/ \E size \in 1 .. KeyPoolSize : TopUpKeyPool(size)
    \/ \E h \in Holder : GetReservedKey(h) \/ KeepKey(h) \/ ReturnKey(h)
    \/ Unlock \/ LockWallet
    \/ BeginEncrypt \/ TxnCommit \/ ErasePool \/ ClearPool \/ WritePool \/ RemoveOld \/ RenameNew
    \/ Restart

KeyPoolSpec == KeyPoolInit /\ [][KeyPoolNext]_keyPoolVars

-----------------------------------------------------------------------------
(* Properties.                                                              *)

\* Types of the variables.
KeyPoolTypeOK ==
    /\ nextKey \in 1 .. MaxKeys + 1
    /\ {fUseCrypto, locked, mkey, reused} \subseteq BOOLEAN
    /\ setKeyPool \subseteq 1 .. MaxKeys /\ DOMAIN pool \subseteq 1 .. MaxKeys
    /\ held \in [Holder -> [index : 0 .. MaxKeys, key : 0 .. MaxKeys]]
    /\ encrypt \in {"no", "txn", "erase", "fill", "moved"}
    /\ used \subseteq 1 .. MaxKeys

\* Whenever the process dies, the private key of every address it gave out is
\* in wallet.dat, or in the copy that is about to take its place, and either is
\* all plain or all crypted with a master key.
KeysRecoverable ==
    /\ used \cup {held[h].key : h \in Holder} \subseteq DOMAIN keys \cup {None}
    /\ \A k \in DOMAIN keys : keys[k] = (IF mkey THEN "crypted" ELSE "plain")

\* "Take key pair from key pool so it won't be used again": a key taken for good
\* is neither in the pool nor with a holder, and no two holders have one key.
UsedOnce ==
    /\ \A i \in DOMAIN pool : pool[i] \notin used
    /\ \A h \in Holder : held[h].key \notin used
    /\ \A h, g \in Holder : h # g /\ held[h] # Nothing => held[h].key # held[g].key

\* The same as long as the index of no reservation was given to a new key.
UsedOnceUnlessReused == reused \/ UsedOnce

\* ReserveKeyFromKeyPool does not throw "read failed": every index has a record
\* whose key the wallet has, unless the index of a reservation was given to a new
\* key, by NewKeyPool or by a top-up of a pool that was used up.
PoolReadable ==
    ~reused /\ encrypt = "no" =>
        \A i \in setKeyPool :
            /\ i \in DOMAIN pool /\ pool[i] \in DOMAIN keys
            /\ \A h \in Holder : held[h].index # i

\* No key is lost by a crash, in particular one during EncryptWallet, none is
\* given out twice unless its index was reused, and ReserveKeyFromKeyPool can
\* read what the pool lists.
KeysSafe == KeyPoolTypeOK /\ KeysRecoverable /\ UsedOnceUnlessReused /\ PoolReadable
=============================================================================
