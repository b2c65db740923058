----------------------------- MODULE LossyFifo -----------------------------
(***************************************************************************)
(* What every stage of the capture path promises to the next one: frames   *)
(* are numbered as they are offered, and the ones that get through do so   *)
(* in that order and at most once.  A frame may be lost; none is repeated, *)
(* overtaken or invented.  SnifferTask and BleStream implement it.         *)
(***************************************************************************)
EXTENDS Naturals

VARIABLES
    offered,  \* how many frames have been offered
    last,     \* the number of the last frame that got through
    passed    \* how many got through

Init == offered = 0 /\ last = 0 /\ passed = 0

Offer == offered' = offered + 1 /\ UNCHANGED <<last, passed>>

Pass == /\ last' \in (last + 1) .. offered
        /\ passed' = passed + 1
        /\ UNCHANGED offered

Next == Offer \/ Pass

Spec == Init /\ [][Next]_<<offered, last, passed>>
=============================================================================
