----------------------------- MODULE KVStorage -----------------------------
(***************************************************************************)
(* The key-value tables of a backend (pcs_core types/kv.rs), as the redb    *)
(* implementation of pcs_cli provides them.  A table is a total function    *)
(* from its keys to rows or None, the Option of KVStorage::get.  Each of    *)
(* get, put and delete is one redb transaction that begins and commits      *)
(* inside one call, so each is one atomic step of whatever action uses it;  *)
(* nothing groups two calls into one transaction.                           *)
(***************************************************************************)
CONSTANT None   \* no row under the key

(* A table nobody has written to: redb reports TableDoesNotExist as None.   *)
EmptyTable(keys) == [k \in keys |-> None]

Get(table, key) == table[key]

Has(table, key) == table[key] # None

Put(table, key, row) == [table EXCEPT ![key] = row]

(* Deleting an absent key succeeds and changes nothing.                     *)
Delete(table, key) == [table EXCEPT ![key] = None]
=============================================================================
