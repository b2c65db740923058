----------------------------- MODULE RadioLease -----------------------------
(***************************************************************************)
(* What the coex window task of the receiver promises to a connected BLE   *)
(* client: the single radio of the ESP32-C5 is lent to the 802.11p sniffer *)
(* in leases.  While a client is served, no lease runs for more than       *)
(* MaxHold milliseconds without the link getting the radio back, and a     *)
(* lease starts only after the link had the radio for MinRest.  Nothing is *)
(* said here of how the task arranges it.                                  *)
(***************************************************************************)
EXTENDS Integers

CONSTANTS MaxHold,   \* longest the radio may be away from a served client (ms)
          MinRest,   \* shortest turn of the BLE link between two leases (ms)
          Ceiling    \* the ms counters below saturate here

VARIABLES holder,   \* who has the radio
          served,   \* a client is connected and the promise is in force
          held,     \* ms the radio has been away from the served client
          rest      \* ms the link has had the radio since the last lease

vars == <<holder, served, held, rest>>

\* n + d, saturating at the ceiling of the counters.
Plus(n, d) == IF n + d > Ceiling THEN Ceiling ELSE n + d

Init ==
    /\ holder = "ble"
    /\ served = FALSE
    /\ held = 0
    /\ rest = 0

\* The sniffer gets the radio; a served client must have had its turn.
Take ==
    /\ holder = "ble"
    /\ served => rest >= MinRest
    /\ holder' = "sniffer"
    /\ held' = 0
    /\ UNCHANGED <<served, rest>>

\* The radio goes back to the link; from the first return on, the client that
\* is connected is served.
Give ==
    /\ holder = "sniffer"
    /\ holder' = "ble"
    /\ served' \in BOOLEAN
    /\ served => served'
    /\ held' = 0
    /\ rest' = 0

\* Time passes for a served client while the sniffer has the radio.
Hold ==
    /\ holder = "sniffer"
    /\ served
    /\ \E d \in 0..Ceiling : held' = Plus(held, d)
    /\ held' <= MaxHold
    /\ UNCHANGED <<holder, served, rest>>

\* Time passes while the link has the radio.
Rest ==
    /\ holder = "ble"
    /\ \E d \in 0..Ceiling : rest' = Plus(rest, d)
    /\ UNCHANGED <<holder, served, held>>

\* A client connects or leaves: what was held from the old link is void.
LinkChange ==
    /\ served' = ~served
    /\ held' = 0
    /\ UNCHANGED <<holder, rest>>

\* The board restarts.
Restart ==
    /\ holder' = "ble"
    /\ served' = FALSE
    /\ held' = 0
    /\ rest' = 0

Next == Take \/ Give \/ Hold \/ Rest \/ LinkChange \/ Restart

Spec == Init /\ [][Next]_vars
=============================================================================
