---------------------------- MODULE ContentStore ----------------------------
(***************************************************************************)
(* What the on-disk cache of k-dash promises to its callers, without       *)
(* files, temporary directories or locks (docs/design/local-cache.md,      *)
(* ADR-0042 and ADR-0043): an entry appears whole and at once, is never    *)
(* replaced while it is there, and a call returns what is in the entry.    *)
(*                                                                         *)
(* LocalCache implements this specification (see LocalCache!Promise).      *)
(***************************************************************************)
CONSTANTS
  Procs,     \* the callers; a stored value is named by the caller that made it
  Keys,      \* BuildKeys, or Release digests
  Nobody     \* "no value"

VARIABLES
  store,     \* store[k]: the value stored under k, or Nobody
  result     \* result[p]: the value p's last call returned, or Nobody

vars == <<store, result>>

Init ==
  /\ store = [k \in Keys |-> Nobody]
  /\ result = [p \in Procs |-> Nobody]

\* p finds no entry for k, stores its own value and returns it.
Put(p, k) ==
  /\ store[k] = Nobody
  /\ store' = [store EXCEPT ![k] = p]
  /\ result' = [result EXCEPT ![p] = p]

\* p finds an entry for k and returns what is stored there.
Get(p, k) ==
  /\ store[k] # Nobody
  /\ result' = [result EXCEPT ![p] = store[k]]
  /\ UNCHANGED store

\* p starts another call.
Forget(p) ==
  /\ result' = [result EXCEPT ![p] = Nobody]
  /\ UNCHANGED store

Next ==
  \E p \in Procs :
    \/ Forget(p)
    \/ \E k \in Keys : Put(p, k) \/ Get(p, k)

Spec == Init /\ [][Next]_vars
=============================================================================
