------------------------------- MODULE KVStore -------------------------------
(***************************************************************************)
(* A region of the module's key-value store: a map from keys to values     *)
(* from which the keys that were never written are missing.                *)
(***************************************************************************)

(* store.Set *)
Put(map, key, value) ==
    [k \in DOMAIN map \cup {key} |-> IF k = key THEN value ELSE map[k]]

(* store.Get, with what the caller makes of a missing key. *)
Get(map, key, default) == IF key \in DOMAIN map THEN map[key] ELSE default
=============================================================================
