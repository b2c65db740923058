----------------------------- MODULE CoexWindow -----------------------------
(***************************************************************************)
(* The coex window task of bt_stream.c and the NimBLE callbacks it races   *)
(* with.  The ESP32-C5 has one radio; the task lends it to the 802.11p     *)
(* sniffer (sniffer_resume) and takes it back for BLE (sniffer_pause), and *)
(* a connected client must never be without it for long.                   *)
(*                                                                         *)
(* Time is the delays of the task, in milliseconds: nothing else in this   *)
(* component takes time.  Link events happen between any two steps, also   *)
(* inside a delay.  sniffer_pause and sniffer_resume are single steps here *)
(* (the task is their only caller in BLE mode); module RadioShare takes    *)
(* them apart and adds their other callers.                                *)
(***************************************************************************)
EXTENDS Integers

CONSTANTS ChunkMs,    \* COEX_CHUNK_MS
          SliceMs,    \* CONN_SNIFF_SLICE_MS
          GapMs,      \* CONN_SNIFF_GAP_MS
          MinMs,      \* the least window cfg_access_cb accepts
          MaxMs,      \* the largest
          Defaults,   \* the compiled s_cycle_ms
          Writes,     \* values a client may write to the config characteristic
          BootWaitMs, \* BASE_WAIT_MS of app_main
          Ceiling     \* the ms counters below saturate here

\* The four windows of s_cycle_ms, in the order of the array.
Windows == {"disc_sniff", "disc_ble", "conn_sniff", "conn_ble"}

Settings == [Windows -> MinMs..MaxMs]

ASSUME ChunkAssumption ==
    /\ ChunkMs \in Nat \ {0}
    /\ SliceMs \in Nat \ {0}
    /\ GapMs \in Nat \ {0}
    /\ Ceiling \in Nat
    /\ ChunkMs <= SliceMs
    /\ GapMs <= ChunkMs
    /\ BootWaitMs \in Nat
    /\ SliceMs < Ceiling
    /\ BootWaitMs <= Ceiling

ASSUME CycleAssumption ==
    /\ MinMs \in Nat \ {0}
    /\ MaxMs \in Nat
    /\ MinMs <= MaxMs
    /\ GapMs <= MinMs
    /\ Defaults \in Settings
    /\ Writes \subseteq [Windows -> Nat]

VARIABLES
    conn,       \* s_conn_handle # BLE_HS_CONN_HANDLE_NONE
    notify,     \* s_notify_enabled
    adv,        \* the controller advertises
    cycle,      \* s_cycle_ms
    armed,      \* interf = SNIFFER_INTF_WLAN: the sniffer has been started
    paused,     \* s_paused
    pc,         \* where the task is
    connected,  \* its local variables: connected,
    sniffMs,    \*   sniff_ms,
    bleMs,      \*   ble_ms,
    i,          \*   i,
    left,       \*   and left of the chunked_delay it is in
    away,       \* ghost: ms the radio has been away since the link last changed
    rest,       \* ghost: ms the link has had the radio since the last pause
    settled,    \* ghost: some sniffer_pause has taken effect since the boot
    fresh       \* ghost: the connected client has not subscribed so far

link == <<conn, notify, adv, fresh>>
radio == <<armed, paused>>
locals == <<connected, sniffMs, bleMs, i>>
vars == <<conn, notify, adv, cycle, armed, paused, pc, connected, sniffMs,
          bleMs, i, left, away, rest, settled, fresh>>

----------------------------------------------------------------------------
(* Helpers *)

\* The sniffer has the radio.
RadioAway == armed /\ ~paused

\* n + d, saturating at the ceiling of the ghost counters.
Plus(n, d) == IF n + d > Ceiling THEN Ceiling ELSE n + d

\* Mutant: only the lower bound is enforced.
ClampBelow(v) == IF v < MinMs THEN MinMs ELSE v

\* cfg_access_cb: values outside the accepted range are clamped.
Clamp(v) == IF v < MinMs THEN MinMs ELSE IF v > MaxMs THEN MaxMs ELSE v


\* The number of slices of a connected sniff window, and their length.
NSlices(ms) == (ms + SliceMs - 1) \div SliceMs

\* Mutant: the window is not divided.
SliceLenWhole(ms) == ms

SliceLen(ms) == ms \div NSlices(ms)

\* sniffer_pause: nothing to do when already paused or when WLAN does not sniff.
SnifferPause ==
    /\ paused' = (paused \/ armed)
    /\ settled' = (settled \/ armed)
    /\ away' = 0
    /\ rest' = IF RadioAway THEN 0 ELSE rest
    /\ UNCHANGED armed

\* sniffer_resume: nothing to do unless a pause is in effect.
SnifferResume ==
    /\ paused' = (paused /\ ~armed)
    /\ away' = IF RadioAway THEN away ELSE 0
    /\ UNCHANGED <<armed, settled, rest>>

\* d milliseconds go by.
Elapse(d) ==
    /\ away' = IF RadioAway THEN Plus(away, d) ELSE 0
    /\ rest' = IF RadioAway THEN rest ELSE Plus(rest, d)

\* The task leaves its present step for `to` with a delay of ms ahead.
Goto(to, ms) ==
    /\ pc' = to
    /\ left' = ms

----------------------------------------------------------------------------
(* The coex window task *)

\* The steps at which the task is inside chunked_delay.
Delays == {"boot", "settle", "sniff", "slice", "ble"}

\* chunked_delay compares the link with its argument was_connected, which is
\* the local `connected` at every call (FALSE at boot, its initial value).
LinkFlipped == ~(conn <=> connected)

\* Mutant: the link is not looked at between chunks.
ChunkDeaf ==
    /\ pc \in Delays
    /\ left > 0
    /\ LET step == IF left > ChunkMs THEN ChunkMs ELSE left
       IN  /\ Elapse(step)
           /\ left' = left - step
    /\ UNCHANGED <<link, cycle, radio, settled, pc, locals>>

\* Mutant: the link is looked at before the sleep.
ChunkEager ==
    /\ pc \in Delays
    /\ left > 0
    /\ LET step == IF left > ChunkMs THEN ChunkMs ELSE left
       IN  /\ Elapse(IF LinkFlipped THEN 0 ELSE step)
           /\ left' = IF LinkFlipped THEN 0 ELSE left - step
    /\ UNCHANGED <<link, cycle, radio, settled, pc, locals>>

\* One round of chunked_delay: sleep, then return early on a flip.
Chunk ==
    /\ pc \in Delays
    /\ left > 0
    /\ LET step == IF left > ChunkMs THEN ChunkMs ELSE left
       IN  /\ Elapse(step)
           /\ left' = IF LinkFlipped THEN 0 ELSE left - step
    /\ UNCHANGED <<link, cycle, radio, settled, pc, locals>>

\* The delay at `at` is over.
DelayOver(at) == pc = at /\ left = 0

\* Boot: sniffer_pause, then the radio is left to BLE for one window.
Boot ==
    /\ pc = "start"
    /\ SnifferPause
    /\ Goto("boot", cycle["disc_ble"])
    /\ UNCHANGED <<link, cycle, locals>>

\* Top of the loop: sample the link.
LoopTop ==
    /\ \/ DelayOver("boot")
       \/ DelayOver("settle")
       \/ DelayOver("ble")
    /\ connected' = conn
    /\ Goto("decide", 0)
    /\ UNCHANGED <<link, cycle, radio, sniffMs, bleMs, i, away, rest, settled>>

\* Mutant: a connected client never lets the sniffer run.
SettleAlways ==
    /\ pc = "decide"
    /\ connected
    /\ Goto("settle", cycle["conn_ble"])
    /\ UNCHANGED <<link, cycle, radio, locals, away, rest, settled>>

\* A client that has not subscribed keeps the radio on BLE for one window;
\* the task goes back to the top without a sniffer_pause.
Settle ==
    /\ pc = "decide"
    /\ connected /\ ~notify
    /\ Goto("settle", cycle["conn_ble"])
    /\ UNCHANGED <<link, cycle, radio, locals, away, rest, settled>>

\* Otherwise the windows are read for the link that was sampled.
ReadWindows ==
    /\ pc = "decide"
    /\ ~(connected /\ ~notify)
    /\ sniffMs' = IF connected THEN cycle["conn_sniff"] ELSE cycle["disc_sniff"]
    /\ bleMs' = IF connected THEN cycle["conn_ble"] ELSE cycle["disc_ble"]
    /\ Goto("resume", 0)
    /\ UNCHANGED <<link, cycle, radio, connected, i, away, rest, settled>>

\* sniffer_resume and the first delay of the sniff window.
Resume ==
    /\ pc = "resume"
    /\ SnifferResume
    /\ i' = 0
    /\ IF connected THEN Goto("slice", SliceLen(sniffMs)) ELSE Goto("sniff", sniffMs)
    /\ UNCHANGED <<link, cycle, connected, sniffMs, bleMs>>

\* Mutant: a flip of the link leaves the window without the sniffer_pause.
PauseUnlessFlipped ==
    /\ \/ DelayOver("sniff")
       \/ DelayOver("slice") /\ (LinkFlipped \/ i + 1 = NSlices(sniffMs))
       \/ DelayOver("gap") /\ LinkFlipped
    /\ IF LinkFlipped THEN UNCHANGED <<radio, away, rest, settled>> ELSE SnifferPause
    /\ Goto("ble", bleMs)
    /\ UNCHANGED <<link, cycle, locals>>

\* The sniff window is over: sniffer_pause, then the BLE window.
Pause ==
    /\ \/ DelayOver("sniff")
       \/ DelayOver("slice") /\ (LinkFlipped \/ i + 1 = NSlices(sniffMs))
       \/ DelayOver("gap") /\ LinkFlipped
    /\ SnifferPause
    /\ Goto("ble", bleMs)
    /\ UNCHANGED <<link, cycle, locals>>

\* A slice is over and another follows: sniffer_pause for a micro-gap.
OpenGap ==
    /\ DelayOver("slice")
    /\ ~LinkFlipped /\ i + 1 # NSlices(sniffMs)
    /\ SnifferPause
    /\ Goto("gap", GapMs)
    /\ UNCHANGED <<link, cycle, locals>>

\* The micro-gap is one vTaskDelay.
SleepGap ==
    /\ pc = "gap"
    /\ left > 0
    /\ Elapse(left)
    /\ left' = 0
    /\ UNCHANGED <<link, cycle, radio, settled, pc, locals>>

\* The next slice.
NextSlice ==
    /\ DelayOver("gap")
    /\ ~LinkFlipped
    /\ SnifferResume
    /\ i' = i + 1
    /\ Goto("slice", SliceLen(sniffMs))
    /\ UNCHANGED <<link, cycle, connected, sniffMs, bleMs>>

Coex == \/ Boot \/ Chunk \/ LoopTop \/ Settle \/ ReadWindows
        \/ Resume \/ Pause \/ OpenGap \/ SleepGap \/ NextSlice

----------------------------------------------------------------------------
(* NimBLE callbacks, the main task, a reset *)

\* A link event leaves the task alone; what was away from the old link is void.
LinkEvent == away' = 0 /\ UNCHANGED <<cycle, radio, pc, locals, left, rest, settled>>

\* on_sync: the host is up and starts to advertise.
OnSync ==
    /\ ~adv /\ ~conn
    /\ adv' = TRUE
    /\ UNCHANGED <<conn, notify, fresh, cycle, radio, pc, locals, left, away, rest, settled>>

\* BLE_GAP_EVENT_CONNECT, status 0.  The controller has stopped advertising.
Connect ==
    /\ adv /\ ~conn
    /\ conn' = TRUE
    /\ notify' = FALSE
    /\ adv' = FALSE
    /\ fresh' = TRUE
    /\ LinkEvent

\* BLE_GAP_EVENT_DISCONNECT.
Disconnect ==
    /\ conn
    /\ conn' = FALSE
    /\ notify' = FALSE
    /\ adv' = TRUE
    /\ fresh' = FALSE
    /\ LinkEvent

\* BLE_GAP_EVENT_SUBSCRIBE for the frame characteristic, also to unsubscribe.
Subscribe ==
    /\ conn
    /\ notify' = ~notify
    /\ fresh' = FALSE
    /\ UNCHANGED <<conn, adv, cycle, radio, pc, locals, left, away, rest, settled>>

\* The client writes the config characteristic: every value is clamped and the
\* array saved in NVS.
WriteCycle ==
    /\ conn
    /\ \E w \in Writes : cycle' = [k \in Windows |-> Clamp(w[k])]
    /\ UNCHANGED <<link, radio, pc, locals, left, away, rest, settled>>

\* sniffer_autostart selects WLAN and starts the sniffer, BASE_WAIT_MS after
\* the task was created at the earliest.
Autostart ==
    /\ ~armed
    /\ rest >= BootWaitMs
    /\ armed' = TRUE
    /\ away' = 0
    /\ UNCHANGED <<link, cycle, paused, pc, locals, left, rest, settled>>

\* REBOOT, ota or a power cycle.  cfg_load restores what cfg_save has stored.
Restart ==
    /\ conn' = FALSE
    /\ notify' = FALSE
    /\ adv' = FALSE
    /\ armed' = FALSE
    /\ paused' = FALSE
    /\ Goto("start", 0)
    /\ connected' = FALSE
    /\ sniffMs' = 0
    /\ bleMs' = 0
    /\ i' = 0
    /\ away' = 0
    /\ rest' = 0
    /\ settled' = FALSE
    /\ fresh' = FALSE
    /\ UNCHANGED cycle

Init ==
    /\ conn = FALSE
    /\ notify = FALSE
    /\ adv = FALSE
    /\ cycle = Defaults
    /\ armed = FALSE
    /\ paused = FALSE
    /\ pc = "start"
    /\ left = 0
    /\ connected = FALSE
    /\ sniffMs = 0
    /\ bleMs = 0
    /\ i = 0
    /\ away = 0
    /\ rest = 0
    /\ settled = FALSE
    /\ fresh = FALSE

Next == \/ Coex
        \/ OnSync \/ Connect \/ Disconnect \/ Subscribe \/ WriteCycle
        \/ Autostart \/ Restart

Spec == Init /\ [][Next]_vars

\* FreeRTOS always runs the task again: its delays end and nothing it calls
\* blocks for ever.  Clients, the main task and resets are free.
FairSpec == Spec /\ WF_vars(Coex)
----------------------------------------------------------------------------
(* Properties *)

\* Every variable ranges over what the C object can hold.
TypeOK ==
    /\ conn \in BOOLEAN /\ notify \in BOOLEAN /\ adv \in BOOLEAN
    /\ cycle \in Settings
    /\ armed \in BOOLEAN /\ paused \in BOOLEAN /\ settled \in BOOLEAN /\ fresh \in BOOLEAN
    /\ pc \in Delays \cup {"start", "decide", "resume", "gap"}
    /\ connected \in BOOLEAN
    /\ sniffMs \in 0..MaxMs /\ bleMs \in 0..MaxMs
    /\ i \in Nat /\ left \in Nat
    /\ away \in 0..Ceiling /\ rest \in 0..Ceiling

\* A connected client never loses the radio for more than a slice at a stretch
\* (bt_stream.c:479 "never hold the radio away from BLE for more than ~350 ms"),
\* whatever windows the client has written and however links come and go: from
\* the first pause that takes effect on.
BoundedStarvation == settled /\ conn /\ RadioAway => away <= SliceMs

\* While the sniffer has the radio, a link that changed since the loop sampled
\* it waits at most one chunk (bt_stream.c:427 "notices a BLE link state change
\* within CHUNK_MS").
PromptNotice == settled /\ RadioAway /\ LinkFlipped => away <= ChunkMs

\* The invariant behind both.  While the sniffer has the radio the task is in a
\* sniff delay, and what the present link has lost so far fits with what is left
\* of the delay; while BLE has it, the link had its micro-gap or is about to.
PauseInv ==
    /\ paused => settled
    /\ settled => armed /\ pc # "start"
    /\ settled /\ ~paused => pc \in {"sniff", "slice"}

DelayInv ==
    /\ pc \in {"slice", "gap"} => connected
    /\ pc = "sniff" => ~connected
    /\ pc = "gap" => left <= GapMs
    /\ pc \in {"resume", "sniff", "slice", "gap", "ble"} =>
           sniffMs >= MinMs /\ bleMs >= MinMs

AwayInv ==
    /\ ~RadioAway => away = 0
    /\ pc = "slice" => left <= SliceMs
    /\ settled /\ RadioAway =>
         IF LinkFlipped
         THEN away <= ChunkMs /\ (left > 0 => away = 0)
         ELSE connected => away + left <= SliceMs

RestInv == settled /\ paused =>
    /\ pc \in {"decide", "resume"} => rest >= GapMs
    /\ pc \in {"boot", "ble", "settle", "gap"} => rest >= GapMs \/ left >= GapMs

IInv == TypeOK /\ PauseInv /\ DelayInv /\ AwayInv /\ RestInv

\* The task implements the lease of the radio: bounded turns of the sniffer
\* while a client is served, and a turn of the link between any two of them.
Lease == INSTANCE RadioLease WITH
    MaxHold <- SliceMs,
    MinRest <- GapMs,
    holder <- IF RadioAway THEN "sniffer" ELSE "ble",
    served <- settled /\ conn,
    held <- IF settled /\ conn THEN away ELSE 0,
    rest <- rest

LeaseSpec == Lease!Spec

\* Once the task is under way, the sniffer always hands the radio back.
RadioReturns == (settled /\ RadioAway) ~> ~RadioAway

\* Sniffing goes on for ever, unless a client stays connected without a
\* subscription (or keeps coming back to that state): no other pattern of
\* connects, disconnects and rewritten windows stops it.
SniffingResumes == <>[](armed /\ ~(conn /\ ~notify)) => []<>RadioAway

\* What the comment at bt_stream.c:463 claims: the radio stays on BLE for a
\* freshly connected client until it subscribes (a chunk is the task's reaction
\* time to the connection).
UnsubscribedKeepsBle == settled /\ conn /\ fresh => away <= ChunkMs

\* What the comment at bt_stream.c:479 claims, without the proviso that a pause
\* has taken effect.
NeverStarved == conn => away <= SliceMs
=============================================================================
