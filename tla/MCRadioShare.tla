--------------------------- MODULE MCRadioShare ---------------------------
(* Each Wi-Fi mode; the sniffer found running or started by the main task; *)
(* stopped and started again from the console.                             *)
EXTENDS RadioShare

Setup(wifi, booting, commands) ==
    [wifi |-> wifi, booting |-> booting, commands |-> commands]

MCSetups == {Setup("ble", FALSE, {"stop"}), Setup("ble", TRUE, {"stop", "wlan"}),
             Setup("cycle", TRUE, {}), Setup("realtime", TRUE, {"stop"})}

MCStop == {Setup("ble", FALSE, {"stop"})}
=============================================================================
