----------------------------- MODULE RadioShare -----------------------------
(***************************************************************************)
(* The radio of the receiver and everybody who reconfigures it: the coex   *)
(* window task (bt_stream.c), the Wi-Fi cycle task and the Wi-Fi events    *)
(* (wifi_manager.c), the main task at boot and the `sniffer' console       *)
(* command (cmd_sniffer.c).  sniffer_pause, sniffer_resume, sniffer_start  *)
(* and sniffer_stop are sequences of driver calls; no lock surrounds them, *)
(* and every driver call is a place where another task may run.            *)
(*                                                                         *)
(* A task is the sequence of steps it still has to take (todo).  A call of *)
(* sniffer_pause or sniffer_resume is one step that tests the flags and    *)
(* puts the body of the function in front of the rest.  Delays take as     *)
(* long as they like: module CoexWindow is about their lengths.            *)
(***************************************************************************)
EXTENDS Integers, Sequences

CONSTANT Setups   \* configurations and uses of the device: the Wi-Fi mode
                  \* ("ble": Wi-Fi manager inactive), from power-up or from
                  \* a running sniffer, the console commands that are issued

Tasks == {"coex", "cycle", "main", "console"}

ASSUME ShareAssumption ==
    Setups \subseteq [wifi : {"ble", "cycle", "realtime"}, booting : BOOLEAN,
                      commands : SUBSET {"stop", "wlan", "eth"}]

VARIABLES
    setup,        \* one of Setups: it never changes
    driver,       \* esp_wifi and PHY: what the driver calls have set up
    sta,          \* the station: off, idle, connecting or up
    events,       \* Wi-Fi events posted and not yet handled
    paused,       \* s_paused
    interf,       \* interf
    running,      \* is_running
    cycleActive,  \* s_cycle_active
    evConnected,  \* EV_CONNECTED of s_evg
    todo          \* the steps each task has ahead

station == <<sta, events>>
flags == <<setup, paused, interf, running, cycleActive, evConnected>>
vars == <<driver, station, flags, todo>>

WifiMode == setup.wifi
Booting == setup.booting
Commands == setup.commands

----------------------------------------------------------------------------
(* The bodies of the functions *)

\* Mutants: a pause that leaves the 802.11p PHY on, one that does not note that
\* it has run, a resume that does not clear s_paused.
PauseKeepsPhy == <<"promisc_off", "wifi_stop", "mark_paused">>
PauseUnnoted == <<"promisc_off", "p11p_off", "wifi_stop">>
ResumeUnnoted == <<"wifi_start", "promisc_on", "p11p_on", "tune">>

\* sniffer_pause and sniffer_resume past their two tests.
PauseBody == <<"promisc_off", "p11p_off", "wifi_stop", "mark_paused">>
ResumeBody == <<"wifi_start", "promisc_on", "p11p_on", "tune", "mark_resumed">>

\* sniffer_start past its test of is_running, and sniffer_stop.
StartBody(itf) ==
    IF itf = "wlan"
    THEN <<"mark_running", "promisc_on", "p11p_on", "set_channel">>
    ELSE <<"mark_running">>

StopBody(itf) ==
    IF itf = "wlan" THEN <<"promisc_off", "mark_stopped">> ELSE <<"mark_stopped">>

\* The turns of coex_window_task: a window of each kind, a connected one with
\* a gap between two slices (a short BLE window), one whose client flipped in
\* the gap, and the BLE window alone of a client that has not subscribed.
Sniff == <<"resume", "sniff_window", "pause", "ble_window">>
CoexTurns == {Sniff, Sniff \o Sniff, Sniff \o <<"pause", "ble_window">>,
              <<"ble_window">>}

\* Mutant: the radio is given back before the station is stopped.
CycleLoopEager == <<"sniff_delay", "claim", "pause", "mode_sta", "wifi_start",
                    "clear_bits", "await_ip", "release", "wifi_stop",
                    "mode_null", "resume">>

\* The for (;;) of cycle_task.
CycleLoop == <<"sniff_delay", "claim", "pause", "mode_sta", "wifi_start",
               "clear_bits", "await_ip", "wifi_stop", "mode_null", "release",
               "resume">>

\* wifi_manager_start; the cycle task is created at the end.
WifiManagerStart ==
    IF WifiMode = "realtime" THEN <<"pause", "mode_sta", "wifi_start">> ELSE <<>>

----------------------------------------------------------------------------
(* Steps *)

At(t, step) == todo[t] # <<>> /\ Head(todo[t]) = step

Idle(t) == todo[t] = <<>>

Done(t) == todo' = [todo EXCEPT ![t] = Tail(@)]

\* The call at the head of t's steps runs body if its tests pass.
Call(t, tests, body) ==
    todo' = [todo EXCEPT ![t] = (IF tests THEN body ELSE <<>>) \o Tail(@)]

\* sniffer_pause and sniffer_resume test s_paused and the interface.
CallPause(t) ==
    /\ At(t, "pause")
    /\ Call(t, ~paused /\ interf = "wlan", PauseBody)
    /\ UNCHANGED <<driver, station, flags>>

CallResume(t) ==
    /\ At(t, "resume")
    /\ Call(t, paused /\ interf = "wlan", ResumeBody)
    /\ UNCHANGED <<driver, station, flags>>

\* A driver call that sets one thing.
DriverSet(t, step, field, value) ==
    /\ At(t, step)
    /\ driver' = [driver EXCEPT ![field] = value]
    /\ Done(t)
    /\ UNCHANGED <<station, flags>>

PromiscOff(t) == DriverSet(t, "promisc_off", "promisc", FALSE)
PromiscOn(t) == DriverSet(t, "promisc_on", "promisc", TRUE)
P11pOff(t) == DriverSet(t, "p11p_off", "p11p", FALSE)
P11pOn(t) == DriverSet(t, "p11p_on", "p11p", TRUE)

\* What the station does when the driver runs in a mode or is stopped: a
\* station that starts raises STA_START, one that loses its link
\* STA_DISCONNECTED.
StationFollows(started, mode) ==
    IF started /\ mode = "sta"
    THEN /\ sta' = IF sta = "off" THEN "idle" ELSE sta
         /\ events' = IF sta = "off" THEN events \cup {"start"} ELSE events
    ELSE /\ sta' = "off"
         /\ events' = IF sta \in {"connecting", "up"}
                      THEN events \cup {"disconnected"} ELSE events

\* esp_wifi_start and esp_wifi_stop.
WifiStart(t) ==
    /\ At(t, "wifi_start")
    /\ driver' = [driver EXCEPT !.started = TRUE]
    /\ StationFollows(TRUE, driver.mode)
    /\ Done(t)
    /\ UNCHANGED flags

WifiStop(t) ==
    /\ At(t, "wifi_stop")
    /\ driver' = [driver EXCEPT !.started = FALSE]
    /\ StationFollows(FALSE, driver.mode)
    /\ Done(t)
    /\ UNCHANGED flags

\* esp_wifi_set_mode(WIFI_MODE_STA) and esp_wifi_set_mode(WIFI_MODE_NULL).
ModeSta(t) ==
    /\ At(t, "mode_sta")
    /\ driver' = [driver EXCEPT !.mode = "sta"]
    /\ StationFollows(driver.started, "sta")
    /\ Done(t)
    /\ UNCHANGED flags

ModeNull(t) ==
    /\ At(t, "mode_null")
    /\ driver' = [driver EXCEPT !.mode = "null"]
    /\ StationFollows(driver.started, "null")
    /\ Done(t)
    /\ UNCHANGED flags

\* esp_wifi_set_channel(140) and phy_change_channel of sniffer_resume, whose
\* results are ignored.
Tune(t) ==
    /\ At(t, "tune")
    /\ Done(t)
    /\ UNCHANGED <<driver, station, flags>>

MarkPaused(t) ==
    /\ \/ At(t, "mark_paused") /\ paused' = TRUE
       \/ At(t, "mark_resumed") /\ paused' = FALSE
    /\ Done(t)
    /\ UNCHANGED <<setup, driver, station, interf, running, cycleActive, evConnected>>

\* is_running; an error of esp_wifi_set_channel in sniffer_start undoes the
\* start of the task but neither promiscuous mode nor the PHY (err_start).
MarkRunning(t) ==
    /\ \/ At(t, "mark_running") /\ running' = TRUE
       \/ At(t, "set_channel") /\ running' \in {running, FALSE}
       \/ At(t, "mark_stopped") /\ running' = FALSE
    /\ Done(t)
    /\ UNCHANGED <<setup, driver, station, paused, interf, cycleActive, evConnected>>

SnifferStep(t) ==
    \/ CallPause(t) \/ CallResume(t)
    \/ PromiscOff(t) \/ PromiscOn(t) \/ P11pOff(t) \/ P11pOn(t)
    \/ WifiStart(t) \/ WifiStop(t) \/ Tune(t)
    \/ MarkPaused(t) \/ MarkRunning(t)

----------------------------------------------------------------------------
(* The coex window task *)

\* A sniff or a BLE window is over.
CoexWindowOver ==
    /\ At("coex", "sniff_window") \/ At("coex", "ble_window")
    /\ Done("coex")
    /\ UNCHANGED <<driver, station, flags>>

CoexTurn ==
    /\ Idle("coex")
    /\ \E turn \in CoexTurns : todo' = [todo EXCEPT !["coex"] = turn]
    /\ UNCHANGED <<driver, station, flags>>

CoexStep == SnifferStep("coex") \/ CoexWindowOver

----------------------------------------------------------------------------
(* The Wi-Fi cycle task *)

\* The task exists once the main task is through wifi_manager_start.
CycleTurn ==
    /\ Idle("cycle")
    /\ Idle("main")
    /\ WifiMode = "cycle"
    /\ todo' = [todo EXCEPT !["cycle"] = CycleLoop]
    /\ UNCHANGED <<driver, station, flags>>

SniffDelayOver ==
    /\ At("cycle", "sniff_delay")
    /\ Done("cycle")
    /\ UNCHANGED <<driver, station, flags>>

Claim ==
    /\ \/ At("cycle", "claim") /\ cycleActive' = TRUE
       \/ At("cycle", "release") /\ cycleActive' = FALSE
    /\ Done("cycle")
    /\ UNCHANGED <<setup, driver, station, paused, interf, running, evConnected>>

\* xEventGroupClearBits comes after esp_wifi_start.
ClearBits ==
    /\ At("cycle", "clear_bits")
    /\ evConnected' = FALSE
    /\ Done("cycle")
    /\ UNCHANGED <<setup, driver, station, paused, interf, running, cycleActive>>

\* xEventGroupWaitBits returns: connected (the bit is taken, MQTT flushes and
\* the station disconnects) or after wifi_ms.
AwaitIp ==
    /\ At("cycle", "await_ip")
    /\ evConnected' = FALSE
    /\ IF evConnected /\ sta \in {"connecting", "up"}
       THEN sta' = "idle" /\ events' = events \cup {"disconnected"}
       ELSE UNCHANGED station
    /\ Done("cycle")
    /\ UNCHANGED <<setup, driver, paused, interf, running, cycleActive>>

CycleStep ==
    \/ SnifferStep("cycle") \/ ModeSta("cycle") \/ ModeNull("cycle")
    \/ CycleTurn \/ SniffDelayOver \/ Claim \/ ClearBits \/ AwaitIp

----------------------------------------------------------------------------
(* Wi-Fi events: on_wifi *)

\* STA_START: connect_from_nvs, with or without credentials in the NVS.
OnStaStart ==
    /\ "start" \in events
    /\ events' = events \ {"start"}
    /\ sta' \in {sta, IF sta = "idle" THEN "connecting" ELSE sta}
    /\ UNCHANGED <<driver, flags, todo>>

\* STA_DISCONNECTED: in realtime mode esp_wifi_connect after RECONNECT_MS.
OnDisconnected ==
    /\ "disconnected" \in events
    /\ events' = events \ {"disconnected"}
    /\ sta' = IF WifiMode = "realtime" /\ ~cycleActive /\ sta = "idle"
              THEN "connecting" ELSE sta
    /\ UNCHANGED <<driver, flags, todo>>

\* STA_GOT_IP: in realtime mode promiscuous mode goes on again.
OnGotIp ==
    /\ sta = "connecting"
    /\ sta' = "up"
    /\ evConnected' = TRUE
    /\ driver' = [driver EXCEPT !.promisc = @ \/ WifiMode = "realtime"]
    /\ UNCHANGED <<setup, events, paused, interf, running, cycleActive, todo>>

\* The access point refuses or drops the station.
LinkLost ==
    /\ sta \in {"connecting", "up"}
    /\ sta' = "idle"
    /\ events' = events \cup {"disconnected"}
    /\ UNCHANGED <<driver, flags, todo>>

WifiEvent == OnStaStart \/ OnDisconnected \/ OnGotIp \/ LinkLost

----------------------------------------------------------------------------
(* The main task and the console *)

\* Mutant: autostart leaves the interface to the console.
AutostartUnchosen ==
    /\ At("main", "autostart")
    /\ Call("main", ~running, StartBody("wlan"))
    /\ UNCHANGED <<driver, station, flags>>

\* sniffer_autostart chooses the interface before it calls sniffer_start.
Autostart ==
    /\ At("main", "autostart")
    /\ interf' = "wlan"
    /\ Call("main", ~running, StartBody("wlan"))
    /\ UNCHANGED <<setup, driver, station, paused, running, cycleActive, evConnected>>

MainStep == SnifferStep("main") \/ ModeSta("main") \/ Autostart

\* `sniffer --stop': sniffer_stop on the interface that is selected now.
CommandStop ==
    /\ "stop" \in Commands
    /\ Idle("console") /\ Idle("main")
    /\ running
    /\ todo' = [todo EXCEPT !["console"] = StopBody(interf)]
    /\ UNCHANGED <<driver, station, flags>>

\* `sniffer -i ...': do_sniffer_cmd stores the interface, then sniffer_start
\* finds out whether the sniffer is running.
CommandStart ==
    /\ Idle("console") /\ Idle("main")
    /\ \E itf \in Commands \cap {"wlan", "eth"} :
         /\ interf' = itf
         /\ todo' = [todo EXCEPT !["console"] =
                        IF running THEN <<>> ELSE StartBody(itf)]
    /\ UNCHANGED <<setup, driver, station, paused, running, cycleActive, evConnected>>

----------------------------------------------------------------------------

\* From power-up, or with the sniffer autostarted and no Wi-Fi window so far.
Init ==
    /\ setup \in Setups
    /\ driver = [started |-> FALSE, mode |-> "null",
                 promisc |-> ~Booting, p11p |-> ~Booting]
    /\ sta = "off"
    /\ events = {}
    /\ paused = FALSE
    /\ interf = IF Booting THEN "unknown" ELSE "wlan"
    /\ running = ~Booting
    /\ cycleActive = FALSE
    /\ evConnected = FALSE
    /\ todo = [coex |-> <<"pause", "ble_window">>,
               cycle |-> <<>>,
               main |-> (IF Booting THEN <<"autostart">> ELSE <<>>)
                        \o WifiManagerStart,
               console |-> <<>>]

Next ==
    \/ CoexStep \/ CoexTurn \/ CycleStep \/ WifiEvent \/ MainStep
    \/ SnifferStep("console") \/ CommandStop \/ CommandStart

Spec == Init /\ [][Next]_vars

\* A turn with a sniff window.
SniffTurn == CoexTurn /\ todo'["coex"] # <<"ble_window">>

\* FreeRTOS runs every ready task again, a handler that was posted runs, and a
\* command is carried through; what a user types and an access point does is
\* free.  A client that connects subscribes or leaves sooner or later.
FairSpec ==
    /\ Spec
    /\ WF_vars(CoexStep) /\ SF_vars(SniffTurn)
    /\ WF_vars(CycleStep) /\ WF_vars(MainStep)
    /\ WF_vars(SnifferStep("console"))
    /\ WF_vars(OnStaStart) /\ WF_vars(OnDisconnected)

----------------------------------------------------------------------------
(* Properties *)

\* Types, and a sniffer that runs has an interface: the `unsupported interface'
\* branches of sniffer_start and sniffer_stop are never taken.
TypeOK ==
    /\ driver \in [started : BOOLEAN, mode : {"null", "sta"},
                   promisc : BOOLEAN, p11p : BOOLEAN]
    /\ sta \in {"off", "idle", "connecting", "up"}
    /\ events \subseteq {"start", "disconnected"}
    /\ paused \in BOOLEAN
    /\ interf \in {"unknown", "wlan", "eth"}
    /\ running \in BOOLEAN
    /\ cycleActive \in BOOLEAN
    /\ evConnected \in BOOLEAN
    /\ DOMAIN todo = Tasks
    /\ running => interf # "unknown"

Sniffing == driver.promisc /\ driver.p11p
Released == ~driver.promisc /\ ~driver.p11p

\* In BLE mode, with the interface chosen before the coex task starts and kept,
\* and no sniffer that is stopped and started again: the second start may come
\* in the middle of a BLE window.
BleOnly ==
    /\ WifiMode = "ble" /\ ~Booting
    /\ "eth" \notin Commands
    /\ ~({"stop", "wlan"} \subseteq Commands)

\* A BLE window really has the radio: promiscuous mode, the 802.11p PHY and
\* the Wi-Fi driver are off (comment at bt_stream.c:422).
WindowClean == At("coex", "ble_window") => Released /\ ~driver.started
BleWindowClean == BleOnly => WindowClean

\* The sniffer lets go of the radio again and again.
RadioReturns == []<>Released

\* A sniffer that runs for good hears frames again and again: no order of
\* pause, resume and start leaves it paused or half set up.  (In cycle mode the
\* calls of a pause and of a resume by two tasks may interleave for ever.)
SniffingReturns == WifiMode # "cycle" /\ <>[]running => []<>Sniffing

\* The cycle task comes to its Wi-Fi window and back to sniffing again and again:
\* neither the coex task nor an access point that never answers holds it up.
WifiWindows == WifiMode = "cycle" =>
    []<>At("cycle", "await_ip") /\ []<>At("cycle", "sniff_delay")

\* All sides of the radio get it again and again: BLE, whichever of these
\* commands is typed, a sniffer that runs, and the station in its windows.
AllReturn == (BleOnly => RadioReturns) /\ SniffingReturns /\ WifiWindows

\* The station lives in the Wi-Fi window of the cycle task only: it is gone
\* before the radio is given back to the sniffer.
StationOnlyInWindow == WifiMode = "cycle" /\ ~cycleActive => sta = "off"

\* What holds of the driver in every mode and whatever is typed.
Inv == TypeOK /\ StationOnlyInWindow

----------------------------------------------------------------------------
(* What the repository says and the code does not keep; see the README *)

\* A sniffer that was stopped does not capture (help text of `--stop'): the
\* coex task resumes it.
StoppedStaysSilent ==
    ~running /\ Idle("console") /\ Idle("main") => ~driver.promisc

\* In its Wi-Fi window the cycle task owns the radio (wifi_manager.c:44).
CycleOwnsRadio ==
    At("cycle", "await_ip") =>
        driver.started /\ driver.mode = "sta" /\ ~driver.promisc

\* In realtime mode only the access point takes the station's link away.
RealtimeKeepsStation == [][sta = "up" /\ sta' # "up" => UNCHANGED driver]_vars
=============================================================================
