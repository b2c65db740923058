---------------------------- MODULE RegisterStore ----------------------------
(***************************************************************************)
(* What a configuration store promises whoever reads it: each key is       *)
(* absent or holds a value that is legal for it, and the keys change one   *)
(* at a time, except that the store may lose everything at once.           *)
(***************************************************************************)
CONSTANTS Keys,     \* the keys
          Legal,    \* the legal values of each
          Absent    \* no value

VARIABLE store

\* Whatever an earlier boot left.
Init == DOMAIN store = Keys /\ \A k \in Keys : store[k] = Absent \/ store[k] \in Legal[k]

Write(k) == store'[k] \in Legal[k] /\ store' = [store EXCEPT ![k] = store'[k]]

Erase(k) == store' = [store EXCEPT ![k] = Absent]

Lose == store' = [k \in Keys |-> Absent]

Next == Lose \/ \E k \in Keys : Write(k) \/ Erase(k)

Spec == Init /\ [][Next]_store
=============================================================================
