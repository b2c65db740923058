------------------------------ MODULE NodeMqtt ------------------------------
(***************************************************************************)
(* The MQTT uplink of the receiver: Ethernet and IP events are translated  *)
(* into APP events (ethernet.c), which start and stop the MQTT client      *)
(* (mqtt.c) and colour its LED (led.c).  All handlers run on the default   *)
(* event loop, whose queue is bounded, and everybody posts to it without   *)
(* waiting for room.  The client has a task of its own, whose handler runs *)
(* with the lock of the client held and may run console commands; the      *)
(* sniffer task publishes frames through the same client.                  *)
(*                                                                         *)
(* There is one core, and the event loop has a higher priority than the    *)
(* MQTT and the sniffer task: a handler that does not block is one step,   *)
(* mqtt_stop, which does, is several, and the other tasks run only while   *)
(* the loop has nothing to do or waits.                                    *)
(***************************************************************************)
EXTENDS Integers, Sequences

CONSTANTS QueueLen,   \* CONFIG_ESP_SYSTEM_EVENT_QUEUE_SIZE
          Flood,      \* frames are captured: SNIFFER_RECEIVED_PACKET events
          MaxFlaps    \* bound: link and lease changes

ASSUME UplinkAssumption ==
    /\ QueueLen \in Nat \ {0}
    /\ Flood \in BOOLEAN
    /\ MaxFlaps \in Nat

VARIABLES
    staticIp,   \* static_ip, from the configuration
    remote,     \* chosen once: `sniffer' commands come over MQTT
    usable,     \* chosen once: the configured node ID and URI make a client
    link,       \* the cable is in
    netif,      \* mgmt_netif: down, up or bound to an address
    leased,     \* it had an address whose loss has not been reported
    flaps,      \* how often link or lease have changed
    station,    \* the Wi-Fi station has an address
    events,     \* the queue of the default event loop
    stopping,   \* what mqtt_stop has ahead
    client,     \* client # NULL
    connected,  \* connected
    timer,      \* stats_timer_handle runs
    task,       \* the MQTT task
    run,        \* the MQTT task has not been told to end
    linkLed,    \* eth_link_state
    mqttLed,    \* mqtt_led_state
    running,    \* is_running of the sniffer
    sniffer,    \* the sniffer task
    sem         \* sem_task_over

setup == <<staticIp, remote, usable>>
network == <<link, netif, leased, flaps, station>>
mqtt == <<client, connected, timer, task, run>>
leds == <<linkLed, mqttLed>>
capture == <<running, sniffer, sem>>
vars == <<setup, network, events, stopping, mqtt, leds, capture>>

\* esp_event_post with a timeout of 0: what finds no room is lost.
Posted(queue, new) ==
    SubSeq(queue \o new, 1,
           IF Len(queue) + Len(new) < QueueLen THEN Len(queue) + Len(new) ELSE QueueLen)

\* The driver and the stack do not wait for room either.
DriverPosts(new) == events' = Posted(events, new)

----------------------------------------------------------------------------
(* The network *)

Flap == flaps < MaxFlaps /\ flaps' = flaps + 1

LinkChange ==
    /\ Flap
    /\ link' = ~link
    /\ DriverPosts(<<IF link THEN "eth_disconnected" ELSE "eth_connected">>)
    /\ UNCHANGED <<setup, netif, leased, station, stopping, mqtt, leds, capture>>

\* DHCP gives the interface an address; a lease may end.
Bind ==
    /\ link
    /\ netif = "up"
    /\ netif' = "bound"
    /\ leased' = TRUE
    /\ DriverPosts(<<"eth_got_ip">>)
    /\ UNCHANGED <<setup, link, flaps, station, stopping, mqtt, leds, capture>>

Lapse ==
    /\ Flap
    /\ netif = "bound" /\ ~staticIp
    /\ netif' = "up"
    /\ UNCHANGED <<setup, link, leased, station, events, stopping, mqtt, leds, capture>>

\* An address that is gone for long enough is reported lost.
ReportLoss ==
    /\ leased /\ netif # "bound"
    /\ leased' = FALSE
    /\ DriverPosts(<<"eth_lost_ip">>)
    /\ UNCHANGED <<setup, link, netif, flaps, station, stopping, mqtt, leds, capture>>

\* The station of wifi_manager.c.
StationGotIp ==
    /\ Flap
    /\ ~station
    /\ station' = TRUE
    /\ DriverPosts(<<"sta_got_ip">>)
    /\ UNCHANGED <<setup, link, netif, leased, stopping, mqtt, leds, capture>>

Network == LinkChange \/ Bind \/ Lapse \/ ReportLoss \/ StationGotIp

----------------------------------------------------------------------------
(* The event loop *)

\* The MQTT task holds the lock of the client while it runs a handler.
Locked == task \in {"greeting", "command"}

\* The loop waits in mqtt_stop: for the lock, or for the end of the task.
Waits ==
    /\ stopping # <<>>
    /\ \/ Head(stopping) = "stop_client" /\ Locked
       \/ Head(stopping) = "await_task" /\ task # "none"

\* The tasks of a lower priority have the core.
LoopYields == Waits \/ (events = <<>> /\ stopping = <<>>)

\* Mutant: the loss of the link is not passed on as a loss of the address.
PostsKeepAddress(e) ==
    CASE e = "eth_connected" -> <<"CONNECTED">>
      [] e = "eth_disconnected" -> <<"DISCONNECTED">>
      [] e = "eth_got_ip" -> <<"GOT_IP">>
      [] e = "eth_lost_ip" -> <<"LOST_IP">>
      [] e = "netif_up" /\ staticIp -> <<"GOT_IP">>
      [] OTHER -> <<>>

\* eth_event_handler and ip_event_handler: the APP events an event becomes.
Posts(e) ==
    CASE e = "eth_connected" -> <<"CONNECTED">>
      [] e = "eth_disconnected" -> <<"LOST_IP", "DISCONNECTED">>
      [] e = "eth_got_ip" -> <<"GOT_IP">>
      [] e = "eth_lost_ip" -> <<"LOST_IP">>
      [] e = "netif_up" /\ staticIp -> <<"GOT_IP">>
      [] OTHER -> <<>>

\* The handlers of esp_netif, which run before those of the program: with an
\* address from the configuration the interface is bound at once.
NetifPosts(e) ==
    IF e = "eth_connected" /\ staticIp THEN <<"eth_got_ip", "netif_up">> ELSE <<>>

NetifFollows(e) ==
    /\ netif' = CASE e = "eth_connected" -> IF staticIp THEN "bound" ELSE "up"
                  [] e = "eth_disconnected" -> "down"
                  [] OTHER -> netif
    /\ leased' = (leased \/ (e = "eth_connected" /\ staticIp))

\* Mutant: a disconnect does not change the colour.
ColourStuck(e) ==
    CASE e = "GOT_IP" -> "yellow"
      [] e \in {"LOST_IP", "DISCONNECTED"} -> "dark"
      [] e = "MQTT_CONNECTED" -> "green"
      [] OTHER -> mqttLed

\* The LED handlers: the colour of the MQTT LED after an event.
Colour(e) ==
    CASE e = "GOT_IP" -> "yellow"
      [] e \in {"LOST_IP", "DISCONNECTED"} -> "dark"
      [] e = "MQTT_CONNECTED" -> "green"
      [] e = "MQTT_DISCONNECTED" -> IF linkLed THEN "yellow" ELSE "dark"
      [] OTHER -> mqttLed

LedsFollow(e) ==
    /\ mqttLed' = Colour(e)
    /\ linkLed' = CASE e = "CONNECTED" -> TRUE
                    [] e = "DISCONNECTED" -> FALSE
                    [] OTHER -> linkLed

\* mqtt_start and mqtt_stop test client; a start makes a client whose task is
\* connecting, or returns (esp_mqtt_client_init may also give NULL); a stop is
\* carried through by the steps below.
MqttFollows(e) ==
    IF e = "GOT_IP" /\ ~client /\ usable
    THEN client' = TRUE /\ task' = "connecting" /\ run' = TRUE /\ UNCHANGED stopping
    ELSE /\ stopping' = IF e = "LOST_IP" /\ client
                        THEN <<"stop_timer", "stop_client", "await_task", "forget">>
                        ELSE <<>>
         /\ UNCHANGED <<client, task, run>>

\* The next event and all its handlers.
Dispatch ==
    /\ stopping = <<>>
    /\ events # <<>>
    /\ LET e == Head(events)
       IN  /\ events' = Posted(Tail(events), NetifPosts(e) \o Posts(e))
           /\ NetifFollows(e)
           /\ LedsFollow(e)
           /\ MqttFollows(e)
    /\ UNCHANGED <<setup, link, flaps, station, connected, timer, capture>>

----------------------------------------------------------------------------
(* mqtt_stop *)

StopStep(step) ==
    /\ stopping # <<>> /\ Head(stopping) = step
    /\ stopping' = Tail(stopping)

StopTimer ==
    /\ StopStep("stop_timer")
    /\ timer' = FALSE
    /\ UNCHANGED <<setup, network, events, client, connected, task, run, leds, capture>>

\* Mutant: the task is not told to end.
StopClientUntold ==
    /\ StopStep("stop_client")
    /\ ~Locked
    /\ UNCHANGED <<setup, network, events, mqtt, leds, capture>>

\* esp_mqtt_client_stop takes the lock, tells the task to end ...
StopClient ==
    /\ StopStep("stop_client")
    /\ ~Locked
    /\ run' = FALSE
    /\ UNCHANGED <<setup, network, events, client, connected, timer, task, leds, capture>>

\* Mutant: the flag keeps its value.
AwaitTaskSilent ==
    /\ StopStep("await_task")
    /\ task = "none"
    /\ UNCHANGED <<setup, network, events, mqtt, leds, capture>>

\* ... and waits for it.  mqtt_set_connected(false) posts a change.
AwaitTask ==
    /\ StopStep("await_task")
    /\ task = "none"
    /\ connected' = FALSE
    /\ events' = IF connected THEN Posted(events, <<"MQTT_DISCONNECTED">>) ELSE events
    /\ UNCHANGED <<setup, network, client, timer, task, run, leds, capture>>

\* Mutant: the handle is kept.
ForgetNothing ==
    /\ StopStep("forget")
    /\ UNCHANGED <<setup, network, events, mqtt, leds, capture>>

\* client = NULL, esp_mqtt_client_destroy.
Forget ==
    /\ StopStep("forget")
    /\ client' = FALSE
    /\ UNCHANGED <<setup, network, events, connected, timer, task, run, leds, capture>>

MqttStop == StopTimer \/ StopClient \/ AwaitTask \/ Forget

----------------------------------------------------------------------------
(* The MQTT task *)

SetConnected(value, changed) ==
    /\ connected' = value
    /\ events' = IF changed
                 THEN Posted(events, <<IF value THEN "MQTT_CONNECTED"
                                       ELSE "MQTT_DISCONNECTED">>)
                 ELSE events

\* MQTT_EVENT_CONNECTED: the flag is set before node info and stats go out ...
Greet ==
    /\ task = "connecting" /\ run
    /\ task' = "greeting"
    /\ SetConnected(TRUE, ~connected)
    /\ UNCHANGED <<setup, network, stopping, client, timer, run, leds, capture>>

\* Mutant: the timer is started by the first connection only.
GreetedUntimed ==
    /\ task = "greeting"
    /\ task' = "online"
    /\ UNCHANGED <<setup, network, events, stopping, client, connected, timer, run, leds, capture>>

\* ... and the timer for the stats is started.
Greeted ==
    /\ task = "greeting"
    /\ task' = "online"
    /\ timer' = TRUE
    /\ UNCHANGED <<setup, network, events, stopping, client, connected, run, leds, capture>>

\* MQTT_EVENT_DISCONNECTED or MQTT_EVENT_ERROR; the client tries again.
ConnectionLost ==
    /\ task = "online"
    /\ task' = "connecting"
    /\ SetConnected(FALSE, connected)
    /\ UNCHANGED <<setup, network, stopping, client, timer, run, leds, capture>>

TaskEnds ==
    /\ ~run
    /\ task \in {"connecting", "online"}
    /\ task' = "none"
    /\ UNCHANGED <<setup, network, events, stopping, client, connected, timer, run, leds, capture>>

\* MQTT_EVENT_DATA: esp_console_run of `sniffer --stop', which clears
\* is_running and waits for the sniffer task, or of `sniffer'.
CommandStop ==
    /\ remote
    /\ task = "online" /\ run
    /\ running
    /\ running' = FALSE
    /\ task' = "command"
    /\ UNCHANGED <<setup, network, events, stopping, client, connected, timer, run, leds,
                   sniffer, sem>>

CommandStopped ==
    /\ task = "command"
    /\ sem
    /\ sem' = FALSE
    /\ task' = "online"
    /\ UNCHANGED <<setup, network, events, stopping, client, connected, timer, run, leds,
                   running, sniffer>>

CommandStart ==
    /\ remote
    /\ task = "online" /\ run
    /\ ~running
    /\ running' = TRUE
    /\ sniffer' = "test"
    /\ UNCHANGED <<setup, network, events, stopping, mqtt, leds, sem>>

MqttTask ==
    /\ LoopYields
    /\ \/ Greet \/ Greeted \/ ConnectionLost \/ TaskEnds \/ CommandStop
       \/ CommandStopped \/ CommandStart

----------------------------------------------------------------------------
(* The sniffer task *)

\* while (is_running)
SnifferTest ==
    /\ sniffer = "test"
    /\ sniffer' = IF running THEN "receive" ELSE "over"
    /\ sem' = (sem \/ ~running)
    /\ UNCHANGED <<setup, network, events, stopping, mqtt, leds, running>>

\* A frame or a timeout; mqtt_handle_packet tests the client and the flag.
SnifferReceive ==
    /\ sniffer = "receive"
    /\ sniffer' \in {"test", IF client /\ connected THEN "publish" ELSE "post"}
    /\ UNCHANGED <<setup, network, events, stopping, mqtt, leds, running, sem>>

\* esp_mqtt_client_publish takes the lock of the client.
SnifferPublish ==
    /\ sniffer = "publish"
    /\ ~Locked
    /\ sniffer' = "post"
    /\ UNCHANGED <<setup, network, events, stopping, mqtt, leds, running, sem>>

\* The frame is announced to the LED.
SnifferPost ==
    /\ sniffer = "post"
    /\ events' = IF Flood THEN Posted(events, <<"RECEIVED_PACKET">>) ELSE events
    /\ sniffer' = "test"
    /\ UNCHANGED <<setup, network, stopping, mqtt, leds, running, sem>>

SnifferTask ==
    /\ LoopYields
    /\ SnifferTest \/ SnifferReceive \/ SnifferPublish \/ SnifferPost

----------------------------------------------------------------------------

\* After app_main: no cable yet; the sniffer runs if it has a part.
Init ==
    /\ staticIp \in BOOLEAN /\ remote \in BOOLEAN /\ usable \in BOOLEAN
    /\ link = FALSE /\ netif = "down" /\ leased = FALSE /\ flaps = 0 /\ station = FALSE
    /\ events = <<>>
    /\ stopping = <<>>
    /\ client = FALSE /\ connected = FALSE /\ timer = FALSE
    /\ task = "none" /\ run = FALSE
    /\ linkLed = FALSE /\ mqttLed = "dark"
    /\ running = (Flood \/ remote)
    /\ sniffer = IF running THEN "test" ELSE "over"
    /\ sem = FALSE

Next == Network \/ Dispatch \/ MqttStop \/ MqttTask \/ SnifferTask

Spec == Init /\ [][Next]_vars

\* Tasks that can run do; a handler of the MQTT task is carried through.  The
\* network, the broker and remote commands are free.
FairSpec ==
    /\ Spec
    /\ WF_vars(Dispatch) /\ WF_vars(MqttStop)
    /\ WF_vars(LoopYields /\ (Greeted \/ TaskEnds \/ CommandStopped))
    /\ WF_vars(SnifferTask)

----------------------------------------------------------------------------
(* Properties *)

AllEvents == {"eth_connected", "eth_disconnected", "eth_got_ip", "eth_lost_ip",
              "netif_up", "sta_got_ip", "CONNECTED", "DISCONNECTED", "GOT_IP",
              "LOST_IP", "MQTT_CONNECTED", "MQTT_DISCONNECTED", "RECEIVED_PACKET"}

\* Types; and the flag is never left set without a client (mqtt_stop clears it
\* before it forgets the client, and no handler of the task sets it again).
TypeOK ==
    /\ {staticIp, remote, usable, link, leased, station, client, connected, timer, run,
        linkLed, running, sem} \subseteq BOOLEAN
    /\ netif \in {"down", "up", "bound"}
    /\ flaps \in 0 .. MaxFlaps
    /\ events \in Seq(AllEvents) /\ Len(events) <= QueueLen
    /\ stopping \in Seq({"stop_timer", "stop_client", "await_task", "forget"})
    /\ task \in {"none", "connecting", "greeting", "online", "command"}
    /\ mqttLed \in {"dark", "yellow", "green"}
    /\ sniffer \in {"test", "receive", "publish", "post", "over"}
    /\ connected => client

\* The event loop has nothing to do.
Drained == events = <<>> /\ stopping = <<>>

Alive == client /\ run

\* Through two hops of events, flapping links and stops that block: when the
\* loop is done, there is a live client if there is an address (ethernet.c:124
\* "post an event to start MQTT etc.") and a configuration to make it from.
AddressBringsClient == Drained /\ netif = "bound" /\ usable => Alive

\* And there is none without a link, or once a loss was reported (ethernet.c:137
\* "post an event to stop MQTT etc."), if addresses come from DHCP: the address
\* of the configuration is announced even after a loss that was already queued.
ClientHasAddress == Drained /\ client => leased /\ link
LossEndsClient == ~staticIp => ClientHasAddress

\* A connection that has been greeted has its stats timer running, however many
\* connections and stops came before.
StatsRun == task = "online" /\ run /\ stopping = <<>> => timer

\* The MQTT LED is green only if the client is connected, dark without a link.
LedHonest == Drained =>
    /\ mqttLed = "green" => connected
    /\ ~link /\ ~staticIp => mqttLed = "dark"

\* Client, connection, stats timer and LED agree, whatever flaps.
Inv == TypeOK /\ StatsRun /\ LedHonest

\* mqtt_stop, which waits for the MQTT task, always gives the event loop back,
\* unless the task runs a command that waits for the sniffer.
LoopReturns == stopping # <<>> /\ ~remote ~> stopping = <<>>

\* An address that stays brings the client up for good, if the loop returns.
MqttComesUp == <>[](netif = "bound" /\ usable /\ ~remote) => <>[]Alive

(* What the repository says and the code does not keep (see the README):   *)
(* ClientHasAddress with an address from the configuration and             *)
(* AddressBringsClient when frames flood the event queue.                  *)

\* A remote `sniffer --stop' comes back (cmd_sniffer.c:181 "wait for task over").
RemoteStopReturns == task = "command" ~> task # "command"

\* A station that is connected gets its MQTT flush (wifi_manager.c:14).
MqttOverWifi == station ~> client
=============================================================================
