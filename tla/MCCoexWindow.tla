--------------------------- MODULE MCCoexWindow ---------------------------
(* A small instance of CoexWindow: the constants of bt_stream.c with a few *)
(* settings a client may write.                                            *)
EXTENDS CoexWindow

Cycle(a, b, c, d) ==
    [k \in Windows |-> CASE k = "disc_sniff" -> a [] k = "disc_ble" -> b
                         [] k = "conn_sniff" -> c [] k = "conn_ble" -> d]

\* static s_cycle_ms[4] of bt_stream.c:105.
MCDefaults == Cycle(1000, 1000, 500, 400)

\* A request below the range, one above it, and a window of three slices.
MCWrites == {Cycle(0, 0, 0, 0), Cycle(300, 99, 701, 100), Cycle(500, 100, 2001, 1)}
=============================================================================
