------------------------- MODULE RadioShare_proofs -------------------------
(***************************************************************************)
(* Theorems about RadioShare, for every set of configurations and uses.    *)
(* They rest on what each task may still have to do (Ahead), in which      *)
(* order the cycle task and the coex task do it (Follow), and what the     *)
(* first step that is left says about the driver (CyclePlace, CoexPlace).  *)
(***************************************************************************)
EXTENDS RadioShare, SequenceTheorems, TLAPS

----------------------------------------------------------------------------
(* Sequences of steps *)

First(c) == IF c = <<>> THEN "end" ELSE Head(c)

\* Every step of c and the one after it are a pair of order.
Follow(c, order) ==
    \A n \in 1 .. Len(c) : <<c[n], IF n < Len(c) THEN c[n + 1] ELSE "end">> \in order

\* The steps that are left keep the order, and the next one is the one that may
\* follow the first.
LEMMA FollowTail ==
    ASSUME NEW S, NEW c \in Seq(S), NEW order, c # <<>>, Follow(c, order)
    PROVE  Follow(Tail(c), order) /\ <<Head(c), First(Tail(c))>> \in order
<1>1. /\ Tail(c) \in Seq(S) /\ Len(Tail(c)) = Len(c) - 1
      /\ \A n \in 1 .. Len(Tail(c)) : Tail(c)[n] = c[n + 1]
  OBVIOUS
<1>2. Len(c) \in Nat /\ Len(c) >= 1 /\ Head(c) = c[1]
  OBVIOUS
<1>3. Follow(Tail(c), order)
  <2> SUFFICES ASSUME NEW n \in 1 .. Len(Tail(c))
      PROVE <<Tail(c)[n], IF n < Len(Tail(c)) THEN Tail(c)[n + 1] ELSE "end">> \in order
    BY DEF Follow
  <2>1. n + 1 \in 1 .. Len(c) /\ (n < Len(Tail(c)) <=> n + 1 < Len(c)) /\ Tail(c)[n] = c[n + 1]
    BY <1>1, <1>2
  <2>2. n < Len(Tail(c)) => Tail(c)[n + 1] = c[(n + 1) + 1]
    BY <1>1, <1>2
  <2> QED
    BY <2>1, <2>2 DEF Follow
<1>4. First(Tail(c)) = IF 1 < Len(c) THEN c[1 + 1] ELSE "end"
  <2>1. Tail(c) = <<>> <=> ~(1 < Len(c))
    <3>1. Tail(c) = <<>> <=> Len(Tail(c)) = 0
      BY <1>1, EmptySeq
    <3> QED
      BY <3>1, <1>1, <1>2
  <2>2. 1 < Len(c) => Head(Tail(c)) = c[1 + 1]
    BY <1>1, <1>2
  <2> QED
    BY <2>1, <2>2 DEF First
<1>5. <<c[1], IF 1 < Len(c) THEN c[1 + 1] ELSE "end">> \in order
  BY <1>2 DEF Follow
<1> QED
  BY <1>2, <1>3, <1>4, <1>5

\* A body whose steps are in order, and whose last one fits the first of the rest.
LEMMA FollowBody ==
    ASSUME NEW S, NEW b \in Seq(S), NEW c \in Seq(S), NEW order,
           b # <<>>, Follow(c, order),
           \A n \in 1 .. Len(b) - 1 : <<b[n], b[n + 1]>> \in order,
           <<b[Len(b)], First(c)>> \in order
    PROVE  Follow(b \o c, order) /\ First(b \o c) = Head(b)
<1> DEFINE d == b \o c
<1>1. /\ d \in Seq(S) /\ Len(d) = Len(b) + Len(c) /\ Len(b) \in Nat /\ Len(c) \in Nat
      /\ Len(b) >= 1
      /\ \A n \in 1 .. Len(b) : d[n] = b[n]
      /\ \A n \in 1 .. Len(c) : d[Len(b) + n] = c[n]
  OBVIOUS
<1> HIDE DEF d
<1>2. First(d) = Head(b)
  BY <1>1 DEF First, d
<1>3. First(c) = IF Len(c) = 0 THEN "end" ELSE c[1]
  BY <1>1 DEF First
<1>4. ASSUME NEW n \in 1 .. Len(d)
      PROVE <<d[n], IF n < Len(d) THEN d[n + 1] ELSE "end">> \in order
  <2>1. CASE n < Len(b)
    <3>1. n \in 1 .. Len(b) - 1 /\ n + 1 \in 1 .. Len(b) /\ n < Len(d)
      BY <1>1, <2>1
    <3>2. d[n] = b[n]
      BY <3>1, <1>1
    <3>3. d[n + 1] = b[n + 1]
      BY <3>1, <1>1
    <3> QED
      BY <3>1, <3>2, <3>3
  <2>2. CASE n = Len(b)
    <3>1. d[n] = b[Len(b)]
      BY <1>1, <2>2
    <3>2. Len(c) # 0 => d[n + 1] = c[1]
      BY <1>1, <2>2
    <3>3. n < Len(d) <=> Len(c) # 0
      BY <1>1, <2>2
    <3> QED
      BY <3>1, <3>2, <3>3, <1>3
  <2>3. CASE n > Len(b)
    <3> DEFINE m == n - Len(b)
    <3>1. /\ m \in Int /\ m \in 1 .. Len(c) /\ (n < Len(d) <=> m < Len(c))
          /\ n = Len(b) + m /\ n + 1 = Len(b) + (m + 1)
      BY <1>1, <2>3
    <3> HIDE DEF m
    <3>2. d[n] = c[m]
      BY <3>1, <1>1
    <3>3. ASSUME m < Len(c) PROVE d[n + 1] = c[m + 1]
      <4>1. m + 1 \in 1 .. Len(c)
        BY <3>1, <3>3, <1>1
      <4> QED
        BY <4>1, <3>1, <1>1
    <3> QED
      BY <3>1, <3>2, <3>3 DEF Follow
  <2> QED
    BY <1>1, <2>1, <2>2, <2>3
<1>5. Follow(d, order)
  BY <1>4, Zenon DEF Follow
<1> QED
  BY <1>2, <1>5 DEF d
----------------------------------------------------------------------------
(* The inductive invariant *)

PauseSteps == {"promisc_off", "p11p_off", "wifi_stop", "mark_paused"}
ResumeSteps == {"wifi_start", "promisc_on", "p11p_on", "tune", "mark_resumed"}
StartSteps == {"mark_running", "promisc_on", "p11p_on", "set_channel"}
StopSteps == {"promisc_off", "mark_stopped"}

\* The steps each task may have ahead in setup s; none marks the sniffer as
\* running before an interface was chosen.
Allowed(t, s, itf) ==
    ((IF t = "coex"
      THEN {"pause", "resume", "sniff_window", "ble_window"} \cup PauseSteps \cup ResumeSteps
      ELSE {})
     \cup (IF t = "cycle" /\ s.wifi = "cycle"
           THEN {"sniff_delay", "claim", "pause", "mode_sta", "clear_bits", "await_ip",
                 "mode_null", "release", "resume"} \cup PauseSteps \cup ResumeSteps
           ELSE {})
     \cup (IF t = "main" /\ s.booting THEN {"autostart"} \cup StartSteps ELSE {})
     \cup (IF t = "main" /\ s.wifi = "realtime"
           THEN {"pause", "mode_sta", "wifi_start"} \cup PauseSteps ELSE {})
     \cup (IF t = "console" /\ "stop" \in s.commands THEN StopSteps ELSE {})
     \cup (IF t = "console" /\ s.commands \cap {"wlan", "eth"} # {} THEN StartSteps ELSE {}))
    \ (IF itf = "unknown" THEN {"mark_running"} ELSE {})

Ahead == \A t \in Tasks : todo[t] \in Seq(Allowed(t, setup, interf))

\* What follows what in the cycle task, whose pauses come with their bodies.
CycleOrder ==
    {<<"sniff_delay", "claim">>, <<"claim", "pause">>, <<"pause", "mode_sta">>,
     <<"promisc_off", "p11p_off">>, <<"p11p_off", "wifi_stop">>,
     <<"wifi_stop", "mark_paused">>, <<"mark_paused", "mode_sta">>,
     <<"mode_sta", "wifi_start">>, <<"wifi_start", "clear_bits">>,
     <<"clear_bits", "await_ip">>, <<"await_ip", "wifi_stop">>,
     <<"wifi_stop", "mode_null">>, <<"mode_null", "release">>,
     <<"release", "resume">>, <<"resume", "end">>}

\* The steps before which the cycle task has the radio claimed.
Claimed == {"pause", "mode_sta", "wifi_start", "clear_bits", "await_ip", "mode_null"} \cup PauseSteps

\* The driver is in station mode only while the radio is claimed.
CyclePlace ==
    LET c == todo["cycle"]
    IN WifiMode = "cycle" =>
        \/ c \in Seq(ResumeSteps) /\ driver.mode = "null"
        \/ /\ Follow(c, CycleOrder)
           /\ First(c) \in Claimed => cycleActive
           /\ driver.mode = "sta" => First(c) \in Claimed

\* What follows what in the coex task.
CoexOrder ==
    {<<"pause", "ble_window">>, <<"promisc_off", "p11p_off">>, <<"p11p_off", "wifi_stop">>,
     <<"wifi_stop", "mark_paused">>, <<"mark_paused", "ble_window">>,
     <<"ble_window", "pause">>, <<"ble_window", "resume">>, <<"ble_window", "end">>,
     <<"resume", "sniff_window">>, <<"wifi_start", "promisc_on">>, <<"promisc_on", "p11p_on">>,
     <<"p11p_on", "tune">>, <<"tune", "mark_resumed">>, <<"mark_resumed", "sniff_window">>,
     <<"sniff_window", "pause">>}

Off == Released /\ ~driver.started

\* In BLE mode, what the next step of the coex task says about the radio.
CoexPlace ==
    LET f == First(todo["coex"])
    IN BleOnly =>
        /\ Follow(todo["coex"], CoexOrder)
        /\ interf = "wlan"
        /\ "stop" \notin Commands => running /\ todo["console"] = <<>>
        /\ f \in {"end", "ble_window", "resume"} => paused /\ Off
        /\ f = "sniff_window" => ~paused
        /\ f = "pause" /\ paused => Off
        /\ f \in {"p11p_off", "wifi_stop", "mark_paused"} => ~driver.promisc
        /\ f \in {"wifi_stop", "mark_paused"} => ~driver.p11p
        /\ f = "mark_paused" => ~driver.started

\* A station needs its mode.
StationMode == driver.mode = "null" => sta = "off"

IInv ==
    /\ setup \in Setups
    /\ TypeOK /\ Ahead /\ StationMode /\ CyclePlace /\ CoexPlace

----------------------------------------------------------------------------
(* The initial states *)

LEMMA InitInv == Init => IInv
<1> SUFFICES ASSUME Init PROVE IInv
  OBVIOUS
<1> USE DEF WifiMode, Booting, Commands
<1>1. /\ setup \in Setups /\ setup.wifi \in {"ble", "cycle", "realtime"}
      /\ setup.booting \in BOOLEAN /\ setup.commands \in SUBSET {"stop", "wlan", "eth"}
  BY ShareAssumption DEF Init
<1>2. TypeOK
  BY <1>1 DEF Init, TypeOK, Tasks
<1>3. Ahead
  <2> DEFINE start == IF setup.booting THEN <<"autostart">> ELSE <<>>
             manager == IF setup.wifi = "realtime" THEN <<"pause", "mode_sta", "wifi_start">> ELSE <<>>
  <2>1. todo["coex"] = <<"pause", "ble_window">> /\ todo["cycle"] = <<>> /\ todo["console"] = <<>>
        /\ todo["main"] = start \o manager
    BY DEF Init, WifiManagerStart
  <2>2. todo["coex"] \in Seq(Allowed("coex", setup, interf))
    <3>1. {"pause", "ble_window"} \subseteq Allowed("coex", setup, interf)
      BY DEF Allowed
    <3> QED
      BY <3>1, <2>1
  <2>3. \A S : <<>> \in Seq(S)
    OBVIOUS
  <2>4. todo["main"] \in Seq(Allowed("main", setup, interf))
    <3>1. start \in Seq(Allowed("main", setup, interf))
      <4>1. setup.booting => "autostart" \in Allowed("main", setup, interf)
        BY DEF Allowed
      <4> QED
        BY <4>1
    <3>2. manager \in Seq(Allowed("main", setup, interf))
      <4>1. setup.wifi = "realtime" =>
                {"pause", "mode_sta", "wifi_start"} \subseteq Allowed("main", setup, interf)
        BY DEF Allowed
      <4> QED
        BY <4>1
    <3> QED
      BY <3>1, <3>2, <2>1, ConcatProperties
  <2> QED
    BY <2>1, <2>2, <2>3, <2>4 DEF Ahead, Tasks
<1>4. StationMode
  BY DEF Init, StationMode
<1>5. CyclePlace
  BY DEF Init, CyclePlace
<1>6. CoexPlace
  <2>1. todo["coex"] = <<"pause", "ble_window">> /\ todo["console"] = <<>>
    BY DEF Init
  <2>2. Follow(todo["coex"], CoexOrder) /\ First(todo["coex"]) = "pause"
    BY <2>1 DEF Follow, CoexOrder, First
  <2> QED
    BY <2>1, <2>2 DEF Init, CoexPlace, BleOnly
<1> QED
  BY <1>1, <1>2, <1>3, <1>4, <1>5, <1>6 DEF IInv

----------------------------------------------------------------------------
(* The steps *)

\* Who does what.
LEMMA Steps ==
    ASSUME [Next]_vars
    PROVE  \/ \E t \in Tasks : SnifferStep(t)
           \/ \E t \in {"cycle", "main"} : ModeSta(t)
           \/ ModeNull("cycle") \/ SniffDelayOver \/ Claim \/ ClearBits \/ AwaitIp
           \/ CoexWindowOver \/ CoexTurn \/ CycleTurn
           \/ WifiEvent \/ Autostart \/ CommandStop \/ CommandStart
           \/ UNCHANGED vars
BY DEF Next, CoexStep, CycleStep, MainStep, Tasks

\* The configuration never changes.
LEMMA SetupKept == ASSUME [Next]_vars PROVE UNCHANGED setup
BY Steps DEF SnifferStep, CallPause, CallResume, PromiscOff, PromiscOn, P11pOff,
   P11pOn, DriverSet, WifiStart, WifiStop, Tune, MarkPaused, MarkRunning, ModeSta, ModeNull,
   SniffDelayOver, Claim, ClearBits, AwaitIp, CoexWindowOver, CoexTurn, CycleTurn, WifiEvent,
   OnStaStart, OnDisconnected, OnGotIp, LinkLost, Autostart, CommandStop, CommandStart,
   flags, vars

\* A task that takes on allowed steps leaves what is ahead of all of them allowed.
LEMMA AheadKept ==
    ASSUME TypeOK, Ahead, setup' = setup, interf' = interf \/ interf' # "unknown",
           NEW t \in Tasks, NEW x \in Seq(Allowed(t, setup, interf')),
           todo' = [todo EXCEPT ![t] = x]
    PROVE  Ahead'
<1>1. ASSUME NEW u \in Tasks PROVE todo'[u] \in Seq(Allowed(u, setup, interf'))
  <2>1. Allowed(u, setup, interf) \subseteq Allowed(u, setup, interf')
    BY DEF Allowed
  <2>2. todo[u] \in Seq(Allowed(u, setup, interf'))
    BY <2>1, SeqMonotonic DEF Ahead
  <2>3. todo'[u] = IF u = t THEN x ELSE todo[u]
    BY DEF TypeOK
  <2> QED
    BY <2>2, <2>3
<1> QED
  BY <1>1 DEF Ahead

\* A task is done with a step.
LEMMA DoneKept ==
    ASSUME TypeOK, Ahead, setup' = setup, interf' = interf,
           NEW t \in Tasks, todo[t] # <<>>, Done(t)
    PROVE  Ahead'
<1>1. Tail(todo[t]) \in Seq(Allowed(t, setup, interf'))
  BY HeadTailProperties DEF Ahead
<1> QED
  BY <1>1, AheadKept DEF Done, TypeOK

\* A function is called: its body, if the tests pass, comes before the rest.
LEMMA CallKept ==
    ASSUME TypeOK, Ahead, setup' = setup, interf' = interf \/ interf' # "unknown",
           NEW t \in Tasks, NEW tests, NEW body \in Seq(Allowed(t, setup, interf')),
           todo[t] # <<>>, Call(t, tests, body)
    PROVE  Ahead'
<1> DEFINE rest == Tail(todo[t])
<1>1. rest \in Seq(Allowed(t, setup, interf'))
  <2>1. Allowed(t, setup, interf) \subseteq Allowed(t, setup, interf')
    BY DEF Allowed
  <2>2. todo[t] \in Seq(Allowed(t, setup, interf'))
    BY <2>1, SeqMonotonic DEF Ahead
  <2> QED
    BY <2>2, HeadTailProperties
<1>2. (IF tests THEN body ELSE <<>>) \o rest \in Seq(Allowed(t, setup, interf'))
  <2>1. (IF tests THEN body ELSE <<>>) \in Seq(Allowed(t, setup, interf'))
    BY EmptySeq
  <2> QED
    BY <1>1, <2>1, ConcatProperties
<1>3. todo' = [todo EXCEPT ![t] = (IF tests THEN body ELSE <<>>) \o rest]
  BY DEF Call, TypeOK
<1> QED
  BY <1>2, <1>3, AheadKept

\* The next step of a task is one it is allowed.
LEMMA AtAllowed ==
    ASSUME Ahead, NEW t \in Tasks, NEW step, At(t, step)
    PROVE  todo[t] # <<>> /\ step \in Allowed(t, setup, interf)
BY HeadTailProperties DEF Ahead, At

LEMMA AheadStep == IInv /\ [Next]_vars => Ahead'
<1> SUFFICES ASSUME IInv, [Next]_vars PROVE Ahead'
  OBVIOUS
<1> USE DEF WifiMode, Booting, Commands
<1>0. TypeOK /\ Ahead
  BY DEF IInv
<1>1. ASSUME NEW t \in Tasks, todo[t] # <<>>, Done(t), UNCHANGED <<setup, interf>>
      PROVE  Ahead'
  BY <1>0, <1>1, DoneKept
<1>2. ASSUME NEW t \in Tasks, CallPause(t) PROVE Ahead'
  <2>1. "pause" \in Allowed(t, setup, interf) /\ todo[t] # <<>>
    BY <1>0, <1>2, AtAllowed DEF CallPause
  <2>2. UNCHANGED <<setup, interf>>
    BY <1>2 DEF CallPause, flags
  <2>3. {"promisc_off", "p11p_off", "wifi_stop", "mark_paused"} \subseteq Allowed(t, setup, interf)
    BY <2>1 DEF Allowed, Tasks, PauseSteps, ResumeSteps, StartSteps, StopSteps
  <2>4. PauseBody \in Seq(Allowed(t, setup, interf'))
    BY <2>2, <2>3 DEF PauseBody
  <2>5. Call(t, ~paused /\ interf = "wlan", PauseBody)
    BY <1>2 DEF CallPause
  <2> QED
    BY <1>0, <2>1, <2>2, <2>4, <2>5, CallKept
<1>3. ASSUME NEW t \in Tasks, CallResume(t) PROVE Ahead'
  <2>1. "resume" \in Allowed(t, setup, interf) /\ todo[t] # <<>>
    BY <1>0, <1>3, AtAllowed DEF CallResume
  <2>2. UNCHANGED <<setup, interf>>
    BY <1>3 DEF CallResume, flags
  <2>3. {"wifi_start", "promisc_on", "p11p_on", "tune", "mark_resumed"}
            \subseteq Allowed(t, setup, interf)
    BY <2>1 DEF Allowed, Tasks, PauseSteps, ResumeSteps, StartSteps, StopSteps
  <2>4. ResumeBody \in Seq(Allowed(t, setup, interf'))
    BY <2>2, <2>3 DEF ResumeBody
  <2>5. Call(t, paused /\ interf = "wlan", ResumeBody)
    BY <1>3 DEF CallResume
  <2> QED
    BY <1>0, <2>1, <2>2, <2>4, <2>5, CallKept
<1>4. ASSUME NEW t \in Tasks, SnifferStep(t) PROVE Ahead'
  <2>1. CASE CallPause(t)
    BY <2>1, <1>2
  <2>2. CASE CallResume(t)
    BY <2>2, <1>3
  <2>3. CASE ~CallPause(t) /\ ~CallResume(t)
    <3>1. todo[t] # <<>> /\ Done(t)
      BY <1>4, <2>3 DEF SnifferStep, At, PromiscOff, PromiscOn, P11pOff, P11pOn, DriverSet,
                        WifiStart, WifiStop, Tune, MarkPaused, MarkRunning
    <3>2. UNCHANGED <<setup, interf>>
      BY <1>4, <2>3 DEF SnifferStep, flags, PromiscOff, PromiscOn, P11pOff, P11pOn, DriverSet,
                        WifiStart, WifiStop, Tune, MarkPaused, MarkRunning
    <3> QED
      BY <3>1, <3>2, <1>1
  <2> QED
    BY <2>1, <2>2, <2>3
<1>5. CASE \E t \in {"cycle", "main"} : ModeSta(t)
  BY <1>1, <1>5 DEF ModeSta, At, flags, Tasks
<1>6. CASE ModeNull("cycle") \/ SniffDelayOver \/ Claim \/ ClearBits \/ AwaitIp \/ CoexWindowOver
  BY <1>1, <1>6 DEF ModeNull, SniffDelayOver, Claim, ClearBits, AwaitIp, CoexWindowOver,
                    At, flags, Tasks
<1>7. CASE CoexTurn
  <2>1. PICK turn \in CoexTurns : todo' = [todo EXCEPT !["coex"] = turn]
    BY <1>7 DEF CoexTurn
  <2>2. UNCHANGED <<setup, interf>>
    BY <1>7 DEF CoexTurn, flags
  <2> DEFINE A == Allowed("coex", setup, interf')
  <2>3. {"pause", "resume", "sniff_window", "ble_window"} \subseteq A
    BY DEF Allowed
  <2>4. Sniff \in Seq(A) /\ <<"pause", "ble_window">> \in Seq(A) /\ <<"ble_window">> \in Seq(A)
    BY <2>3 DEF Sniff
  <2>5. turn \in Seq(A)
    BY <2>1, <2>4, ConcatProperties DEF CoexTurns
  <2> QED
    BY <1>0, <2>1, <2>2, <2>5, AheadKept DEF Tasks
<1>8. CASE CycleTurn
  <2>1. todo' = [todo EXCEPT !["cycle"] = CycleLoop] /\ setup.wifi = "cycle"
    BY <1>8 DEF CycleTurn
  <2>2. UNCHANGED <<setup, interf>>
    BY <1>8 DEF CycleTurn, flags
  <2> DEFINE A == Allowed("cycle", setup, interf')
  <2>3. {"sniff_delay", "claim", "pause", "mode_sta", "wifi_start", "clear_bits", "await_ip",
         "wifi_stop", "mode_null", "release", "resume"} \subseteq A
    BY <2>1 DEF Allowed, PauseSteps, ResumeSteps
  <2>4. CycleLoop \in Seq(A)
    BY <2>3 DEF CycleLoop
  <2> QED
    BY <1>0, <2>1, <2>2, <2>4, AheadKept DEF Tasks
<1>9. CASE Autostart
  <2>1. "autostart" \in Allowed("main", setup, interf) /\ todo["main"] # <<>>
    BY <1>0, <1>9, AtAllowed DEF Autostart, Tasks
  <2>2. setup' = setup /\ interf' = "wlan" /\ Call("main", ~running, StartBody("wlan"))
    BY <1>9 DEF Autostart
  <2> DEFINE A == Allowed("main", setup, interf')
  <2>3. {"mark_running", "promisc_on", "p11p_on", "set_channel"} \subseteq A
    BY <2>1, <2>2 DEF Allowed, PauseSteps, ResumeSteps, StartSteps, StopSteps
  <2>4. StartBody("wlan") \in Seq(A)
    BY <2>3 DEF StartBody
  <2> QED
    BY <1>0, <2>1, <2>2, <2>4, CallKept DEF Tasks
<1>10. CASE CommandStop
  <2>1. todo' = [todo EXCEPT !["console"] = StopBody(interf)] /\ "stop" \in setup.commands
    BY <1>10 DEF CommandStop
  <2>2. UNCHANGED <<setup, interf>>
    BY <1>10 DEF CommandStop, flags
  <2> DEFINE A == Allowed("console", setup, interf')
  <2>3. {"promisc_off", "mark_stopped"} \subseteq A
    BY <2>1 DEF Allowed, StopSteps
  <2>4. StopBody(interf) \in Seq(A)
    BY <2>3 DEF StopBody
  <2> QED
    BY <1>0, <2>1, <2>2, <2>4, AheadKept DEF Tasks
<1>11. CASE CommandStart
  <2>1. PICK itf \in setup.commands \cap {"wlan", "eth"} :
            interf' = itf /\ todo' = [todo EXCEPT !["console"] =
                                          IF running THEN <<>> ELSE StartBody(itf)]
    BY <1>11 DEF CommandStart
  <2>2. setup' = setup
    BY <1>11 DEF CommandStart
  <2> DEFINE A == Allowed("console", setup, interf')
  <2>3. {"mark_running", "promisc_on", "p11p_on", "set_channel"} \subseteq A
    BY <2>1 DEF Allowed, StartSteps
  <2>4. (IF running THEN <<>> ELSE StartBody(itf)) \in Seq(A)
    BY <2>3 DEF StartBody
  <2> QED
    BY <1>0, <2>1, <2>2, <2>4, AheadKept DEF Tasks
<1>12. CASE WifiEvent \/ UNCHANGED vars
  BY <1>0, <1>12 DEF WifiEvent, OnStaStart, OnDisconnected, OnGotIp, LinkLost, flags, vars, Ahead
<1> QED
  BY <1>4, <1>5, <1>6, <1>7, <1>8, <1>9, <1>10, <1>11, <1>12, Steps

LEMMA DomainKept == ASSUME TypeOK, [Next]_vars PROVE DOMAIN todo' = Tasks
<1> USE DEF TypeOK
<1>1. ASSUME NEW t \in Tasks, Done(t) PROVE DOMAIN todo' = Tasks
  BY <1>1 DEF Done
<1>2. ASSUME NEW t \in Tasks, SnifferStep(t) PROVE DOMAIN todo' = Tasks
  <2>1. CASE CallPause(t) \/ CallResume(t)
    BY <2>1 DEF CallPause, CallResume, Call
  <2>2. CASE ~(CallPause(t) \/ CallResume(t))
    <3>1. Done(t)
      BY <1>2, <2>2 DEF SnifferStep, PromiscOff, PromiscOn, P11pOff, P11pOn, DriverSet,
                        WifiStart, WifiStop, Tune, MarkPaused, MarkRunning
    <3> QED
      BY <3>1, <1>1
  <2> QED
    BY <2>1, <2>2
<1>3. CASE \E t \in {"cycle", "main"} : ModeSta(t)
  BY <1>1, <1>3 DEF ModeSta, Tasks
<1>4. CASE ModeNull("cycle") \/ SniffDelayOver \/ Claim \/ ClearBits \/ AwaitIp \/ CoexWindowOver
  BY <1>1, <1>4 DEF ModeNull, SniffDelayOver, Claim, ClearBits, AwaitIp, CoexWindowOver, Tasks
<1>5. CASE CoexTurn \/ CycleTurn \/ CommandStop \/ CommandStart
  BY <1>5 DEF CoexTurn, CycleTurn, CommandStop, CommandStart
<1>6. CASE Autostart
  BY <1>6 DEF Autostart, Call
<1>7. CASE WifiEvent \/ UNCHANGED vars
  BY <1>7 DEF WifiEvent, OnStaStart, OnDisconnected, OnGotIp, LinkLost, vars
<1> QED
  BY <1>2, <1>3, <1>4, <1>5, <1>6, <1>7, Steps

\* The station follows the driver: no mode, no station.
LEMMA StationStep == IInv /\ [Next]_vars => TypeOK' /\ StationMode'
<1> SUFFICES ASSUME IInv, [Next]_vars PROVE TypeOK' /\ StationMode'
  OBVIOUS
<1> USE DEF WifiMode, Booting, Commands, TypeOK, StationMode, flags, station
<1>0. /\ TypeOK /\ Ahead /\ StationMode /\ setup \in Setups
      /\ DOMAIN todo' = Tasks
  BY DomainKept DEF IInv
<1>1. ASSUME NEW t \in Tasks, CallPause(t) \/ CallResume(t) \/ Tune(t)
      PROVE  TypeOK' /\ StationMode'
  <2>1. UNCHANGED <<driver, station, flags>>
    BY <1>1 DEF CallPause, CallResume, Tune
  <2> QED
    BY <1>0, <2>1
<1>2. ASSUME NEW t \in Tasks, PromiscOff(t) \/ PromiscOn(t) \/ P11pOff(t) \/ P11pOn(t)
      PROVE  TypeOK' /\ StationMode'
  <2>1. /\ driver' \in [started : BOOLEAN, mode : {"null", "sta"}, promisc : BOOLEAN, p11p : BOOLEAN]
        /\ driver'.mode = driver.mode
    BY <1>0, <1>2 DEF PromiscOff, PromiscOn, P11pOff, P11pOn, DriverSet
  <2>2. UNCHANGED <<station, flags>>
    BY <1>2 DEF PromiscOff, PromiscOn, P11pOff, P11pOn, DriverSet
  <2> QED
    BY <1>0, <2>1, <2>2
<1>3. ASSUME NEW started \in BOOLEAN, NEW mode \in {"null", "sta"}, StationFollows(started, mode)
      PROVE  /\ sta' \in {"off", "idle", "connecting", "up"} /\ events' \subseteq {"start", "disconnected"}
             /\ mode = "null" => sta' = "off"
  BY <1>0, <1>3 DEF StationFollows
<1>4. ASSUME NEW t \in Tasks, WifiStart(t) \/ WifiStop(t) \/ ModeSta(t) \/ ModeNull(t)
      PROVE  TypeOK' /\ StationMode'
  <2>1. driver' \in [started : BOOLEAN, mode : {"null", "sta"}, promisc : BOOLEAN, p11p : BOOLEAN]
    BY <1>0, <1>4 DEF WifiStart, WifiStop, ModeSta, ModeNull
  <2>2. \E started \in BOOLEAN : StationFollows(started, driver'.mode)
    BY <1>0, <1>4 DEF WifiStart, WifiStop, ModeSta, ModeNull
  <2>3. UNCHANGED flags
    BY <1>4 DEF WifiStart, WifiStop, ModeSta, ModeNull
  <2> QED
    BY <1>0, <1>3, <2>1, <2>2, <2>3
<1>5. ASSUME NEW t \in Tasks, MarkPaused(t) PROVE TypeOK' /\ StationMode'
  BY <1>0, <1>5 DEF MarkPaused
<1>6. ASSUME NEW t \in Tasks, MarkRunning(t) PROVE TypeOK' /\ StationMode'
  <2>1. At(t, "mark_running") => interf # "unknown"
    BY <1>0, AtAllowed DEF Allowed
  <2>2. \/ running' = TRUE /\ interf # "unknown"
        \/ running' = running
        \/ running' = FALSE
    BY <1>6, <2>1 DEF MarkRunning
  <2> QED
    BY <1>0, <1>6, <2>2 DEF MarkRunning
<1>7. CASE SniffDelayOver \/ CoexWindowOver \/ CoexTurn \/ CycleTurn \/ CommandStop
  <2>1. UNCHANGED <<driver, station, flags>>
    BY <1>7 DEF SniffDelayOver, CoexWindowOver, CoexTurn, CycleTurn, CommandStop
  <2> QED
    BY <1>0, <2>1
<1>8. CASE Claim \/ ClearBits
  <2>1. UNCHANGED <<setup, driver, station, paused, interf, running>>
    BY <1>8 DEF Claim, ClearBits
  <2>2. cycleActive' \in {cycleActive, TRUE, FALSE} /\ evConnected' \in {evConnected, FALSE}
    BY <1>8 DEF Claim, ClearBits
  <2>3. cycleActive' \in BOOLEAN /\ evConnected' \in BOOLEAN
    BY <1>0, <2>2
  <2> QED
    BY <1>0, <2>1, <2>3
<1>9. CASE AwaitIp
  BY <1>0, <1>9 DEF AwaitIp
<1>10. CASE OnStaStart \/ OnDisconnected \/ LinkLost
  <2>1. UNCHANGED <<driver, flags>>
    BY <1>10 DEF OnStaStart, OnDisconnected, LinkLost
  <2>2. sta' \in {"off", "idle", "connecting", "up"} /\ (sta = "off" => sta' = "off")
    BY <1>0, <1>10 DEF OnStaStart, OnDisconnected, LinkLost
  <2>3. events' \subseteq {"start", "disconnected"}
    BY <1>0, <1>10 DEF OnStaStart, OnDisconnected, LinkLost
  <2> QED
    BY <1>0, <2>1, <2>2, <2>3
<1>11. CASE OnGotIp
  <2>1. /\ driver' \in [started : BOOLEAN, mode : {"null", "sta"}, promisc : BOOLEAN, p11p : BOOLEAN]
        /\ driver'.mode = driver.mode
    BY <1>0, <1>11 DEF OnGotIp
  <2> QED
    BY <1>0, <1>11, <2>1 DEF OnGotIp
<1>12. CASE Autostart \/ CommandStart
  BY <1>0, <1>12, ShareAssumption DEF Autostart, CommandStart
<1>13. CASE UNCHANGED vars
  BY <1>0, <1>13 DEF vars
<1> QED
  BY <1>1, <1>2, <1>4, <1>5, <1>6, <1>7, <1>8, <1>9, <1>10, <1>11, <1>12, <1>13, Steps
     DEF SnifferStep, WifiEvent, Tasks

----------------------------------------------------------------------------
(* The cycle task *)

\* A step of the cycle task that is in its loop, and the one after it.
LEMMA CycleDone ==
    ASSUME IInv, WifiMode = "cycle", Follow(todo["cycle"], CycleOrder),
           todo["cycle"] # <<>>, Done("cycle")
    PROVE  /\ Follow(todo'["cycle"], CycleOrder)
           /\ First(todo["cycle"]) = Head(todo["cycle"])
           /\ <<Head(todo["cycle"]), First(todo'["cycle"])>> \in CycleOrder
<1>1. todo["cycle"] \in Seq(Allowed("cycle", setup, interf))
  BY DEF IInv, Ahead, Tasks
<1>2. todo'["cycle"] = Tail(todo["cycle"])
  BY DEF IInv, TypeOK, Tasks, Done
<1> QED
  BY <1>1, <1>2, FollowTail DEF First

\* A call of sniffer_pause in the loop: with or without its body, the station
\* mode is next in the end.
LEMMA CyclePauses ==
    ASSUME IInv, WifiMode = "cycle", Follow(todo["cycle"], CycleOrder), CallPause("cycle")
    PROVE  Follow(todo'["cycle"], CycleOrder) /\ First(todo'["cycle"]) \in Claimed
<1> DEFINE c == todo["cycle"]
           A == Allowed("cycle", setup, interf)
<1>1. c \in Seq(A) /\ c # <<>> /\ Head(c) = "pause"
  BY DEF IInv, Ahead, Tasks, CallPause, At
<1>2. Tail(c) \in Seq(A) /\ Follow(Tail(c), CycleOrder) /\ First(Tail(c)) = "mode_sta"
  <2>1. Follow(Tail(c), CycleOrder) /\ <<"pause", First(Tail(c))>> \in CycleOrder
    BY <1>1, FollowTail
  <2> QED
    BY <1>1, <2>1, HeadTailProperties DEF CycleOrder
<1>3. todo'["cycle"] = PauseBody \o Tail(c) \/ todo'["cycle"] = <<>> \o Tail(c)
  BY DEF IInv, TypeOK, Tasks, CallPause, Call
<1>4. CASE todo'["cycle"] = PauseBody \o Tail(c)
  <2>1. PauseBody \in Seq(A)
    <3>1. {"promisc_off", "p11p_off", "wifi_stop", "mark_paused"} \subseteq A
      BY DEF Allowed, PauseSteps, WifiMode
    <3> QED
      BY <3>1 DEF PauseBody
  <2>2. /\ PauseBody # <<>> /\ Len(PauseBody) = 4 /\ PauseBody[4] = "mark_paused"
        /\ Head(PauseBody) = "promisc_off"
        /\ \A n \in 1 .. 3 : <<PauseBody[n], PauseBody[n + 1]>> \in CycleOrder
    BY DEF PauseBody, CycleOrder
  <2>3. <<PauseBody[Len(PauseBody)], First(Tail(c))>> \in CycleOrder
    BY <2>2, <1>2 DEF CycleOrder
  <2>4. \A n \in 1 .. Len(PauseBody) - 1 : <<PauseBody[n], PauseBody[n + 1]>> \in CycleOrder
    BY <2>2
  <2>5. Follow(PauseBody \o Tail(c), CycleOrder) /\ First(PauseBody \o Tail(c)) = Head(PauseBody)
    BY <2>1, <2>2, <2>3, <2>4, <1>2, FollowBody
  <2> QED
    BY <2>2, <2>5, <1>4 DEF Claimed, PauseSteps
<1>5. CASE todo'["cycle"] = <<>> \o Tail(c)
  <2>1. todo'["cycle"] = Tail(c)
    BY <1>2, <1>5, ConcatEmptySeq
  <2> QED
    BY <2>1, <1>2 DEF Claimed
<1> QED
  BY <1>3, <1>4, <1>5

\* A call of sniffer_resume is the last step of the loop.
LEMMA CycleResumes ==
    ASSUME IInv, WifiMode = "cycle", Follow(todo["cycle"], CycleOrder), CallResume("cycle")
    PROVE  todo'["cycle"] \in Seq(ResumeSteps) /\ First(todo["cycle"]) = "resume"
<1> DEFINE c == todo["cycle"]
           A == Allowed("cycle", setup, interf)
<1>1. c \in Seq(A) /\ c # <<>> /\ Head(c) = "resume"
  BY DEF IInv, Ahead, Tasks, CallResume, At
<1>2. Tail(c) \in Seq(A) /\ First(Tail(c)) = "end"
  <2>1. <<"resume", First(Tail(c))>> \in CycleOrder
    BY <1>1, FollowTail
  <2> QED
    BY <1>1, <2>1, HeadTailProperties DEF CycleOrder
<1>3. Tail(c) = <<>>
  <2>1. ASSUME Tail(c) # <<>> PROVE FALSE
    <3>1. Head(Tail(c)) \in A
      BY <1>2, <2>1, HeadTailProperties
    <3>2. "end" \notin A
      BY DEF Allowed, PauseSteps, ResumeSteps, StartSteps, StopSteps
    <3> QED
      BY <1>2, <2>1, <3>1, <3>2 DEF First
  <2> QED
    BY <2>1
<1>4. ResumeBody \in Seq(ResumeSteps) /\ <<>> \in Seq(ResumeSteps)
  BY DEF ResumeBody, ResumeSteps
<1>5. todo'["cycle"] = ResumeBody \o <<>> \/ todo'["cycle"] = <<>> \o <<>>
  BY <1>3 DEF IInv, TypeOK, Tasks, CallResume, Call
<1>6. ResumeBody \o <<>> \in Seq(ResumeSteps) /\ <<>> \o <<>> \in Seq(ResumeSteps)
  BY <1>4, ConcatProperties
<1> QED
  BY <1>1, <1>5, <1>6 DEF First

\* Nobody but the cycle task changes the driver's mode or the claim in cycle mode.
LEMMA OthersLeave ==
    ASSUME IInv, WifiMode = "cycle", [Next]_vars
    PROVE  \/ UNCHANGED <<todo["cycle"], driver.mode, cycleActive>>
           \/ SnifferStep("cycle") \/ ModeSta("cycle") \/ ModeNull("cycle")
           \/ SniffDelayOver \/ Claim \/ ClearBits \/ AwaitIp \/ CycleTurn
<1> USE DEF IInv, TypeOK, Tasks, flags
<1>1. ASSUME NEW t \in Tasks, t # "cycle", SnifferStep(t)
      PROVE  UNCHANGED <<todo["cycle"], driver.mode, cycleActive>>
  <2>1. CASE CallPause(t) \/ CallResume(t) \/ Tune(t)
    BY <1>1, <2>1 DEF CallPause, CallResume, Tune, Call, Done
  <2>2. CASE PromiscOff(t) \/ PromiscOn(t) \/ P11pOff(t) \/ P11pOn(t)
    BY <1>1, <2>2 DEF PromiscOff, PromiscOn, P11pOff, P11pOn, DriverSet, Done
  <2>3. CASE WifiStart(t) \/ WifiStop(t)
    BY <1>1, <2>3 DEF WifiStart, WifiStop, Done
  <2>4. CASE MarkPaused(t) \/ MarkRunning(t)
    BY <1>1, <2>4 DEF MarkPaused, MarkRunning, Done
  <2> QED
    BY <1>1, <2>1, <2>2, <2>3, <2>4 DEF SnifferStep
<1>2. ~ModeSta("main")
  <2>1. "mode_sta" \notin Allowed("main", setup, interf)
    BY DEF Allowed, WifiMode, StartSteps
  <2> QED
    BY <2>1, AtAllowed DEF ModeSta
<1>3. CASE CoexWindowOver \/ CoexTurn \/ CommandStop \/ CommandStart \/ Autostart
  BY <1>3 DEF CoexWindowOver, CoexTurn, CommandStop, CommandStart, Autostart, Done, Call
<1>4. CASE OnStaStart \/ OnDisconnected \/ LinkLost \/ OnGotIp \/ UNCHANGED vars
  BY <1>4 DEF OnStaStart, OnDisconnected, LinkLost, OnGotIp, vars
<1> QED
  BY <1>1, <1>2, <1>3, <1>4, Steps DEF WifiEvent

\* The body of sniffer_resume changes neither.
LEMMA CycleResuming ==
    ASSUME IInv, WifiMode = "cycle", [Next]_vars, UNCHANGED setup,
           todo["cycle"] \in Seq(ResumeSteps), driver.mode = "null",
           SnifferStep("cycle") \/ ModeSta("cycle") \/ ModeNull("cycle")
             \/ SniffDelayOver \/ Claim \/ ClearBits \/ AwaitIp
    PROVE  CyclePlace'
<1> DEFINE c == todo["cycle"]
<1>1. c # <<>> => Head(c) \in ResumeSteps /\ Tail(c) \in Seq(ResumeSteps)
  BY HeadTailProperties
<1>2. SnifferStep("cycle") /\ c # <<>> /\ Head(c) \in ResumeSteps
  BY <1>1 DEF ModeSta, ModeNull, SniffDelayOver, Claim, ClearBits, AwaitIp, At, ResumeSteps,
              SnifferStep, CallPause, CallResume, PromiscOff, PromiscOn, P11pOff, P11pOn, DriverSet,
              WifiStart, WifiStop, Tune, MarkPaused, MarkRunning
<1>3. Done("cycle")
  BY <1>2 DEF At, ResumeSteps,
              SnifferStep, CallPause, CallResume, PromiscOff, PromiscOn, P11pOff, P11pOn, DriverSet,
              WifiStart, WifiStop, Tune, MarkPaused, MarkRunning
<1>4. todo'["cycle"] = Tail(c)
  BY <1>3 DEF IInv, TypeOK, Tasks, Done
<1>5. driver'.mode = driver.mode
  BY <1>2 DEF IInv, TypeOK, At, ResumeSteps, SnifferStep, CallPause, CallResume,
              PromiscOff, PromiscOn, P11pOff, P11pOn, DriverSet,
              WifiStart, WifiStop, Tune, MarkPaused, MarkRunning
<1> QED
  BY <1>1, <1>2, <1>4, <1>5 DEF CyclePlace, WifiMode

LEMMA CycleStepKeeps == IInv /\ [Next]_vars => CyclePlace'
<1> SUFFICES ASSUME IInv, [Next]_vars, WifiMode = "cycle" PROVE CyclePlace'
  <2>1. ASSUME IInv, [Next]_vars, WifiMode # "cycle" PROVE CyclePlace'
    <3>1. UNCHANGED setup
      BY <2>1, SetupKept
    <3> QED
      BY <2>1, <3>1 DEF CyclePlace, WifiMode
  <2> QED
    BY <2>1
<1> DEFINE c == todo["cycle"]
           d == todo'["cycle"]
<1>1. UNCHANGED setup
  BY SetupKept
<1>2. CASE UNCHANGED <<todo["cycle"], driver.mode, cycleActive>>
  BY <1>1, <1>2 DEF IInv, CyclePlace, WifiMode
<1>3. CASE CycleTurn
  <2>1. c = <<>> /\ d = CycleLoop /\ driver' = driver
    BY <1>3 DEF IInv, TypeOK, Tasks, CycleTurn, Idle
  <2>2. First(c) = "end" /\ First(c) \notin Claimed
    BY <2>1 DEF First, Claimed, PauseSteps
  <2>3. driver.mode # "sta"
    BY <2>2 DEF IInv, CyclePlace
  <2>4. Follow(CycleLoop, CycleOrder) /\ First(CycleLoop) = "sniff_delay"
    BY DEF Follow, CycleOrder, CycleLoop, First
  <2> QED
    BY <1>1, <2>1, <2>3, <2>4 DEF CyclePlace, WifiMode, Claimed, PauseSteps
<1>4. CASE /\ c \in Seq(ResumeSteps) /\ driver.mode = "null"
           /\ \/ SnifferStep("cycle") \/ ModeSta("cycle") \/ ModeNull("cycle")
              \/ SniffDelayOver \/ Claim \/ ClearBits \/ AwaitIp
  BY <1>1, <1>4, CycleResuming
<1>5. CASE /\ Follow(c, CycleOrder)
           /\ First(c) \in Claimed => cycleActive
           /\ driver.mode = "sta" => First(c) \in Claimed
           /\ \/ SnifferStep("cycle") \/ ModeSta("cycle") \/ ModeNull("cycle")
              \/ SniffDelayOver \/ Claim \/ ClearBits \/ AwaitIp
  <2>0. driver \in [started : BOOLEAN, mode : {"null", "sta"}, promisc : BOOLEAN, p11p : BOOLEAN]
    BY DEF IInv, TypeOK
  <2>1. CASE CallPause("cycle")
    <3>1. Follow(d, CycleOrder) /\ First(d) \in Claimed
      BY <1>5, <2>1, CyclePauses
    <3>2. First(c) = "pause" /\ UNCHANGED <<driver, cycleActive>>
      BY <2>1 DEF CallPause, At, First, flags
    <3> QED
      BY <1>1, <1>5, <3>1, <3>2 DEF CyclePlace, WifiMode, Claimed
  <2>2. CASE CallResume("cycle")
    <3>1. d \in Seq(ResumeSteps) /\ First(c) = "resume"
      BY <1>5, <2>2, CycleResumes
    <3>2. driver' = driver
      BY <2>2 DEF CallResume
    <3> QED
      BY <1>1, <1>5, <2>0, <3>1, <3>2 DEF CyclePlace, WifiMode, Claimed, PauseSteps
  <2>3. ASSUME c # <<>>, Done("cycle")
        PROVE  Follow(d, CycleOrder) /\ First(c) = Head(c) /\ <<Head(c), First(d)>> \in CycleOrder
    BY <1>5, <2>3, CycleDone
  <2>4. CASE ModeSta("cycle")
    <3>1. c # <<>> /\ Head(c) = "mode_sta" /\ Done("cycle") /\ cycleActive' = cycleActive
      BY <2>4 DEF ModeSta, At, flags
    <3> QED
      BY <1>1, <1>5, <2>3, <3>1 DEF CyclePlace, WifiMode, Claimed, CycleOrder
  <2>5. CASE ModeNull("cycle")
    <3>1. c # <<>> /\ Head(c) = "mode_null" /\ Done("cycle") /\ cycleActive' = cycleActive
          /\ driver'.mode = "null"
      BY <2>0, <2>5 DEF ModeNull, At, flags
    <3> QED
      BY <1>1, <1>5, <2>3, <3>1 DEF CyclePlace, WifiMode, Claimed, PauseSteps, CycleOrder
  <2>6. CASE SniffDelayOver
    <3>1. c # <<>> /\ Head(c) = "sniff_delay" /\ Done("cycle") /\ driver' = driver
      BY <2>6 DEF SniffDelayOver, At
    <3> QED
      BY <1>1, <1>5, <2>3, <3>1 DEF CyclePlace, WifiMode, Claimed, PauseSteps, CycleOrder
  <2>7. CASE Claim
    <3>1. c # <<>> /\ Done("cycle") /\ driver' = driver
          /\ ((Head(c) = "claim" /\ cycleActive') \/ Head(c) = "release")
      BY <2>7 DEF Claim, At
    <3> QED
      BY <1>1, <1>5, <2>3, <3>1 DEF CyclePlace, WifiMode, Claimed, PauseSteps, CycleOrder
  <2>8. CASE ClearBits \/ AwaitIp
    <3>1. c # <<>> /\ Done("cycle") /\ driver' = driver /\ cycleActive' = cycleActive
          /\ Head(c) \in {"clear_bits", "await_ip"}
      BY <2>8 DEF ClearBits, AwaitIp, At
    <3> QED
      BY <1>1, <1>5, <2>3, <3>1 DEF CyclePlace, WifiMode, Claimed, PauseSteps, CycleOrder
  <2>9. CASE SnifferStep("cycle") /\ ~CallPause("cycle") /\ ~CallResume("cycle")
    <3>1. c # <<>> /\ Done("cycle") /\ cycleActive' = cycleActive
      BY <2>9 DEF At, flags, SnifferStep, PromiscOff, PromiscOn, P11pOff, P11pOn, DriverSet,
                  WifiStart, WifiStop, Tune, MarkPaused, MarkRunning
    <3>2. driver'.mode = driver.mode
      BY <2>0, <2>9 DEF SnifferStep, PromiscOff, PromiscOn, P11pOff, P11pOn, DriverSet,
                  WifiStart, WifiStop, Tune, MarkPaused, MarkRunning
    <3>3. Head(c) \in PauseSteps \cup ResumeSteps \cup StartSteps \cup StopSteps
      BY <2>9 DEF At, SnifferStep, PromiscOff, PromiscOn, P11pOff, P11pOn, DriverSet,
                  WifiStart, WifiStop, Tune, MarkPaused, MarkRunning,
                  PauseSteps, ResumeSteps, StartSteps, StopSteps
    <3>4. <<Head(c), First(d)>> \in CycleOrder /\ Follow(d, CycleOrder) /\ First(c) = Head(c)
      BY <2>3, <3>1
    <3>5. Head(c) \in Claimed /\ First(d) \in Claimed
      BY <3>3, <3>4 DEF Claimed, PauseSteps, ResumeSteps, StartSteps, StopSteps, CycleOrder
    <3> QED
      BY <1>1, <1>5, <3>1, <3>2, <3>4, <3>5 DEF CyclePlace, WifiMode
  <2> QED
    BY <1>5, <2>1, <2>2, <2>4, <2>5, <2>6, <2>7, <2>8, <2>9
<1> QED
  BY <1>2, <1>3, <1>4, <1>5, OthersLeave DEF IInv, CyclePlace

----------------------------------------------------------------------------
(* The coex task in BLE mode *)

\* In BLE mode only the coex task and a stop from the console act on the radio,
\* and the stop only switches off.
LEMMA OthersOnlySwitchOff ==
    ASSUME IInv, BleOnly, [Next]_vars
    PROVE  \/ SnifferStep("coex") \/ CoexWindowOver \/ CoexTurn
           \/ /\ UNCHANGED <<todo["coex"], paused, interf, driver.started, driver.p11p>>
              /\ driver'.promisc => driver.promisc
              /\ "stop" \notin Commands => running' = running /\ todo'["console"] = <<>>
<1> USE DEF BleOnly, WifiMode, Booting, Commands, Tasks, flags
<1>0. /\ TypeOK /\ Ahead /\ interf = "wlan"
      /\ driver \in [started : BOOLEAN, mode : {"null", "sta"}, promisc : BOOLEAN, p11p : BOOLEAN]
      /\ DOMAIN todo = Tasks
      /\ "stop" \notin Commands => running /\ todo["console"] = <<>>
  BY DEF IInv, CoexPlace, TypeOK
<1>1. ASSUME NEW step PROVE ~At("cycle", step) /\ ~At("main", step)
  <2>1. Allowed("cycle", setup, interf) = {} /\ Allowed("main", setup, interf) = {}
    BY DEF Allowed
  <2> QED
    BY <2>1, <1>0, AtAllowed
<1>2. ASSUME NEW step, At("console", step)
      PROVE  "stop" \in Commands /\ step \in {"promisc_off", "mark_stopped"}
  <2>1. "stop" \in Commands
    BY <1>0, <1>2 DEF At
  <2>2. Allowed("console", setup, interf) \subseteq {"promisc_off", "mark_stopped"}
    BY <2>1, <1>0, ShareAssumption DEF Allowed, StopSteps, IInv
  <2> QED
    BY <2>1, <2>2, <1>0, <1>2, AtAllowed
<1>3. CASE SnifferStep("console")
  <2>1. \A step \in PauseSteps \cup ResumeSteps \cup {"pause", "resume"} :
            step # "promisc_off" => ~At("console", step)
    BY <1>2 DEF PauseSteps, ResumeSteps
  <2>2. PromiscOff("console") \/ MarkRunning("console")
    BY <1>3, <2>1 DEF PauseSteps, ResumeSteps, SnifferStep, CallPause, CallResume, PromiscOn,
                      P11pOff, P11pOn, DriverSet, WifiStart, WifiStop, Tune, MarkPaused
  <2>3. "stop" \in Commands /\ (PromiscOff("console") \/ MarkRunning("console"))
    BY <1>2, <2>2 DEF PromiscOff, DriverSet, MarkRunning
  <2>4. todo'["coex"] = todo["coex"] /\ UNCHANGED <<paused, interf>>
    BY <1>0, <2>3 DEF PromiscOff, DriverSet, MarkRunning, Done
  <2>5. CASE PromiscOff("console")
    BY <1>0, <2>3, <2>4, <2>5 DEF PromiscOff, DriverSet
  <2>6. CASE MarkRunning("console")
    BY <1>0, <2>3, <2>4, <2>6 DEF MarkRunning
  <2> QED
    BY <2>3, <2>5, <2>6
<1>4. CASE CommandStop
  BY <1>0, <1>4 DEF CommandStop
<1>5. CASE CommandStart
  <2>1. "wlan" \in Commands /\ interf' = "wlan" /\ "stop" \notin Commands
    BY <1>5 DEF CommandStart
  <2>2. todo' = [todo EXCEPT !["console"] = <<>>]
    BY <1>0, <1>5, <2>1 DEF CommandStart
  <2> QED
    BY <1>0, <1>5, <2>1, <2>2 DEF CommandStart
<1>6. CASE OnStaStart \/ OnDisconnected \/ LinkLost
  BY <1>0, <1>6 DEF OnStaStart, OnDisconnected, LinkLost
<1>7. CASE OnGotIp
  BY <1>0, <1>7 DEF OnGotIp
<1>8. CASE UNCHANGED vars
  BY <1>0, <1>8 DEF vars
<1>9. ~SnifferStep("cycle") /\ ~SnifferStep("main") /\ ~ModeSta("cycle") /\ ~ModeSta("main")
  BY <1>1 DEF SnifferStep, CallPause, CallResume, PromiscOff, PromiscOn, P11pOff,
              P11pOn, DriverSet, WifiStart, WifiStop, Tune, MarkPaused, MarkRunning, ModeSta
<1>10. /\ ~ModeNull("cycle") /\ ~SniffDelayOver /\ ~Claim /\ ~ClearBits /\ ~AwaitIp
       /\ ~CycleTurn /\ ~Autostart
  BY <1>1 DEF ModeNull, SniffDelayOver, Claim, ClearBits, AwaitIp, CycleTurn, Autostart
<1> QED
  BY <1>3, <1>4, <1>5, <1>6, <1>7, <1>8, <1>9, <1>10, Steps DEF WifiEvent

\* A step of the coex task, and the one after it.
LEMMA CoexDone ==
    ASSUME IInv, BleOnly, todo["coex"] # <<>>, Done("coex")
    PROVE  /\ Follow(todo'["coex"], CoexOrder)
           /\ First(todo["coex"]) = Head(todo["coex"])
           /\ <<Head(todo["coex"]), First(todo'["coex"])>> \in CoexOrder
<1>1. todo["coex"] \in Seq(Allowed("coex", setup, interf)) /\ Follow(todo["coex"], CoexOrder)
  BY DEF IInv, Ahead, Tasks, CoexPlace
<1>2. todo'["coex"] = Tail(todo["coex"])
  BY DEF IInv, TypeOK, Tasks, Done
<1>3. /\ Follow(Tail(todo["coex"]), CoexOrder)
      /\ <<Head(todo["coex"]), First(Tail(todo["coex"]))>> \in CoexOrder
  BY <1>1, FollowTail
<1> QED
  BY <1>2, <1>3 DEF First

\* A pause that finds the sniffer paused is followed by the BLE window; one that
\* does not has its body before it.
LEMMA CoexPauses ==
    ASSUME IInv, BleOnly, CallPause("coex")
    PROVE  /\ Follow(todo'["coex"], CoexOrder) /\ First(todo["coex"]) = "pause"
           /\ First(todo'["coex"]) = IF paused THEN "ble_window" ELSE "promisc_off"
<1> DEFINE c == todo["coex"]
           A == Allowed("coex", setup, interf)
<1>1. c \in Seq(A) /\ c # <<>> /\ Head(c) = "pause" /\ Follow(c, CoexOrder) /\ interf = "wlan"
  BY DEF IInv, Ahead, Tasks, CallPause, At, CoexPlace
<1>2. Tail(c) \in Seq(A) /\ Follow(Tail(c), CoexOrder) /\ First(Tail(c)) = "ble_window"
  <2>1. Follow(Tail(c), CoexOrder) /\ <<"pause", First(Tail(c))>> \in CoexOrder
    BY <1>1, FollowTail
  <2> QED
    BY <1>1, <2>1, HeadTailProperties DEF CoexOrder
<1>3. todo'["coex"] = (IF paused THEN <<>> ELSE PauseBody) \o Tail(c)
  BY <1>1 DEF IInv, TypeOK, Tasks, CallPause, Call
<1>4. CASE ~paused
  <2>1. PauseBody \in Seq(A)
    <3>1. {"promisc_off", "p11p_off", "wifi_stop", "mark_paused"} \subseteq A
      BY <1>1 DEF Allowed, PauseSteps
    <3> QED
      BY <3>1 DEF PauseBody
  <2>2. /\ PauseBody # <<>> /\ Len(PauseBody) = 4 /\ PauseBody[4] = "mark_paused"
        /\ Head(PauseBody) = "promisc_off"
        /\ \A n \in 1 .. 3 : <<PauseBody[n], PauseBody[n + 1]>> \in CoexOrder
    BY DEF PauseBody, CoexOrder
  <2>3. <<PauseBody[Len(PauseBody)], First(Tail(c))>> \in CoexOrder
    BY <2>2, <1>2 DEF CoexOrder
  <2>4. \A n \in 1 .. Len(PauseBody) - 1 : <<PauseBody[n], PauseBody[n + 1]>> \in CoexOrder
    BY <2>2
  <2>5. Follow(PauseBody \o Tail(c), CoexOrder) /\ First(PauseBody \o Tail(c)) = Head(PauseBody)
    BY <2>1, <2>2, <2>3, <2>4, <1>2, FollowBody
  <2> QED
    BY <2>2, <2>5, <1>1, <1>3, <1>4 DEF First
<1>5. CASE paused
  <2>1. todo'["coex"] = Tail(c)
    BY <1>2, <1>3, <1>5, ConcatEmptySeq
  <2> QED
    BY <2>1, <1>1, <1>2, <1>5 DEF First
<1> QED
  BY <1>4, <1>5

\* A resume comes when the sniffer is paused, and runs its body.
LEMMA CoexResumes ==
    ASSUME IInv, BleOnly, CallResume("coex")
    PROVE  Follow(todo'["coex"], CoexOrder) /\ First(todo'["coex"]) = "wifi_start"
<1> DEFINE c == todo["coex"]
           A == Allowed("coex", setup, interf)
<1>1. /\ c \in Seq(A) /\ c # <<>> /\ Head(c) = "resume" /\ Follow(c, CoexOrder)
      /\ interf = "wlan" /\ paused
  BY DEF IInv, Ahead, Tasks, CallResume, At, CoexPlace, First
<1>2. Tail(c) \in Seq(A) /\ Follow(Tail(c), CoexOrder) /\ First(Tail(c)) = "sniff_window"
  <2>1. Follow(Tail(c), CoexOrder) /\ <<"resume", First(Tail(c))>> \in CoexOrder
    BY <1>1, FollowTail
  <2> QED
    BY <1>1, <2>1, HeadTailProperties DEF CoexOrder
<1>3. todo'["coex"] = ResumeBody \o Tail(c)
  BY <1>1 DEF IInv, TypeOK, Tasks, CallResume, Call
<1>4. ResumeBody \in Seq(A)
  <2>1. {"wifi_start", "promisc_on", "p11p_on", "tune", "mark_resumed"} \subseteq A
    BY <1>1 DEF Allowed, ResumeSteps
  <2> QED
    BY <2>1 DEF ResumeBody
<1>5. /\ ResumeBody # <<>> /\ Len(ResumeBody) = 5 /\ ResumeBody[5] = "mark_resumed"
      /\ Head(ResumeBody) = "wifi_start"
      /\ \A n \in 1 .. 4 : <<ResumeBody[n], ResumeBody[n + 1]>> \in CoexOrder
  BY DEF ResumeBody, CoexOrder
<1>6. <<ResumeBody[Len(ResumeBody)], First(Tail(c))>> \in CoexOrder
  BY <1>5, <1>2 DEF CoexOrder
<1>7. \A n \in 1 .. Len(ResumeBody) - 1 : <<ResumeBody[n], ResumeBody[n + 1]>> \in CoexOrder
  BY <1>5
<1>8. Follow(ResumeBody \o Tail(c), CoexOrder) /\ First(ResumeBody \o Tail(c)) = Head(ResumeBody)
  BY <1>2, <1>4, <1>5, <1>6, <1>7, FollowBody
<1> QED
  BY <1>3, <1>5, <1>8

\* A turn starts with a resume or a BLE window and is in order.
LEMMA TurnsInOrder ==
    ASSUME NEW turn \in CoexTurns
    PROVE  Follow(turn, CoexOrder) /\ First(turn) \in {"resume", "ble_window"}
<1> DEFINE S == {"resume", "sniff_window", "pause", "ble_window"}
<1>1. /\ Sniff \in Seq(S) /\ Sniff # <<>> /\ Len(Sniff) = 4 /\ Sniff[4] = "ble_window"
      /\ Head(Sniff) = "resume"
  BY DEF Sniff
<1>2. \A n \in 1 .. Len(Sniff) - 1 : <<Sniff[n], Sniff[n + 1]>> \in CoexOrder
  <2>1. \A n \in 1 .. 3 : <<Sniff[n], Sniff[n + 1]>> \in CoexOrder
    BY DEF Sniff, CoexOrder
  <2> QED
    BY <1>1, <2>1
<1>3. Follow(Sniff, CoexOrder) /\ First(Sniff) = "resume"
  BY DEF Follow, Sniff, CoexOrder, First
<1>4. <<"pause", "ble_window">> \in Seq(S) /\ Follow(<<"pause", "ble_window">>, CoexOrder)
      /\ First(<<"pause", "ble_window">>) = "pause"
  BY DEF Follow, CoexOrder, First
<1>5. Follow(<<"ble_window">>, CoexOrder) /\ First(<<"ble_window">>) = "ble_window"
  BY DEF Follow, CoexOrder, First
<1>6. ASSUME NEW rest \in Seq(S), Follow(rest, CoexOrder), First(rest) \in {"resume", "pause"}
      PROVE  Follow(Sniff \o rest, CoexOrder) /\ First(Sniff \o rest) = "resume"
  <2>1. <<Sniff[Len(Sniff)], First(rest)>> \in CoexOrder
    BY <1>1, <1>6 DEF CoexOrder
  <2> QED
    BY <1>1, <1>2, <1>6, <2>1, FollowBody
<1> QED
  BY <1>1, <1>3, <1>4, <1>5, <1>6 DEF CoexTurns

LEMMA CoexStepKeeps == IInv /\ [Next]_vars => CoexPlace'
<1> SUFFICES ASSUME IInv, [Next]_vars, BleOnly PROVE CoexPlace'
  BY SetupKept DEF CoexPlace, BleOnly, WifiMode, Booting, Commands
<1> DEFINE c == todo["coex"]
           d == todo'["coex"]
<1>1. UNCHANGED setup
  BY SetupKept
<1> USE DEF Commands
<1>2. /\ driver \in [started : BOOLEAN, mode : {"null", "sta"}, promisc : BOOLEAN, p11p : BOOLEAN]
      /\ DOMAIN todo = Tasks /\ interf = "wlan"
      /\ "stop" \notin Commands => running /\ todo["console"] = <<>>
  BY DEF IInv, TypeOK, CoexPlace
<1>3. /\ Follow(c, CoexOrder)
      /\ First(c) \in {"end", "ble_window", "resume"} => paused /\ Off
      /\ First(c) = "sniff_window" => ~paused
      /\ First(c) = "pause" /\ paused => Off
      /\ First(c) \in {"p11p_off", "wifi_stop", "mark_paused"} => ~driver.promisc
      /\ First(c) \in {"wifi_stop", "mark_paused"} => ~driver.p11p
      /\ First(c) = "mark_paused" => ~driver.started
  BY DEF IInv, CoexPlace
<1>4. CASE /\ UNCHANGED <<todo["coex"], paused, interf, driver.started, driver.p11p>>
           /\ driver'.promisc => driver.promisc
           /\ "stop" \notin Commands => running' = running /\ todo'["console"] = <<>>
  BY <1>1, <1>2, <1>3, <1>4 DEF CoexPlace, Off, Released
<1>5. SUFFICES ASSUME SnifferStep("coex") \/ CoexWindowOver \/ CoexTurn PROVE CoexPlace'
  BY <1>4, OthersOnlySwitchOff
<1>6. /\ interf' = "wlan"
      /\ "stop" \notin Commands => running' /\ todo'["console"] = <<>>
  <2>1. ~MarkRunning("coex")
    <3>1. Allowed("coex", setup, interf) \cap {"mark_running", "set_channel", "mark_stopped"} = {}
      BY DEF Allowed, PauseSteps, ResumeSteps
    <3> QED
      BY <3>1, AtAllowed DEF MarkRunning, IInv, Tasks
  <2>2. interf' = interf /\ running' = running
    BY <1>5, <2>1 DEF flags, SnifferStep, CallPause, CallResume, PromiscOff, PromiscOn, P11pOff,
       P11pOn, DriverSet, WifiStart, WifiStop, Tune, MarkPaused, CoexWindowOver, CoexTurn
  <2>3. todo'["console"] = todo["console"]
    BY <1>2, <1>5, <2>1 DEF SnifferStep, CallPause, CallResume, PromiscOff, PromiscOn, P11pOff,
       P11pOn, DriverSet, WifiStart, WifiStop, Tune, MarkPaused, CoexWindowOver, CoexTurn,
       Done, Call, Tasks
  <2> QED
    BY <1>2, <2>2, <2>3
<1>7. SUFFICES /\ Follow(d, CoexOrder)
               /\ First(d) \in {"end", "ble_window", "resume"} => paused' /\ Off'
               /\ First(d) = "sniff_window" => ~paused'
               /\ First(d) = "pause" /\ paused' => Off'
               /\ First(d) \in {"p11p_off", "wifi_stop", "mark_paused"} => ~driver'.promisc
               /\ First(d) \in {"wifi_stop", "mark_paused"} => ~driver'.p11p
               /\ First(d) = "mark_paused" => ~driver'.started
  BY <1>1, <1>6 DEF CoexPlace
<1> USE DEF Off, Released
<1>8. CASE CoexTurn
  <2>1. c = <<>> /\ d \in CoexTurns /\ UNCHANGED <<driver, paused>>
    BY <1>2, <1>8 DEF CoexTurn, Idle, Tasks, flags
  <2>2. First(c) = "end"
    BY <2>1 DEF First
  <2> QED
    BY <1>3, <2>1, <2>2, TurnsInOrder
<1>9. CASE CallPause("coex")
  <2>1. /\ Follow(d, CoexOrder) /\ First(c) = "pause"
        /\ First(d) = IF paused THEN "ble_window" ELSE "promisc_off"
    BY <1>9, CoexPauses
  <2>2. UNCHANGED <<driver, paused>>
    BY <1>9 DEF CallPause, flags
  <2> QED
    BY <1>3, <2>1, <2>2
<1>10. CASE CallResume("coex")
  BY <1>10, CoexResumes
<1>11. ASSUME c # <<>>, Done("coex")
       PROVE  Follow(d, CoexOrder) /\ First(c) = Head(c) /\ <<Head(c), First(d)>> \in CoexOrder
  BY <1>11, CoexDone
<1>12. CASE CoexWindowOver
  <2>1. /\ c # <<>> /\ Done("coex") /\ UNCHANGED <<driver, paused>>
        /\ Head(c) \in {"sniff_window", "ble_window"}
    BY <1>12 DEF CoexWindowOver, At, flags
  <2> QED
    BY <1>3, <1>11, <2>1 DEF CoexOrder
<1>14. CASE PromiscOff("coex")
  <2>1. /\ c # <<>> /\ Head(c) = "promisc_off" /\ Done("coex") /\ ~driver'.promisc
    BY <1>2, <1>14 DEF PromiscOff, DriverSet, At
  <2> QED
    BY <1>11, <2>1 DEF CoexOrder
<1>15. CASE P11pOff("coex")
  <2>1. /\ c # <<>> /\ Head(c) = "p11p_off" /\ Done("coex")
        /\ ~driver'.p11p /\ driver'.promisc = driver.promisc
    BY <1>2, <1>15 DEF P11pOff, DriverSet, At
  <2> QED
    BY <1>3, <1>11, <2>1 DEF CoexOrder
<1>16. CASE WifiStop("coex")
  <2>1. /\ c # <<>> /\ Head(c) = "wifi_stop" /\ Done("coex") /\ ~driver'.started
        /\ driver'.promisc = driver.promisc /\ driver'.p11p = driver.p11p
    BY <1>2, <1>16 DEF WifiStop, At
  <2> QED
    BY <1>3, <1>11, <2>1 DEF CoexOrder
<1>17. CASE MarkPaused("coex")
  <2>1. /\ c # <<>> /\ Done("coex") /\ driver' = driver
        /\ \/ Head(c) = "mark_paused" /\ paused'
           \/ Head(c) = "mark_resumed" /\ ~paused'
    BY <1>17 DEF MarkPaused, At
  <2> QED
    BY <1>3, <1>11, <2>1 DEF CoexOrder
<1>18. CASE WifiStart("coex") \/ PromiscOn("coex") \/ P11pOn("coex") \/ Tune("coex")
  <2>1. /\ c # <<>> /\ Done("coex")
        /\ Head(c) \in {"wifi_start", "promisc_on", "p11p_on", "tune"}
    BY <1>18 DEF WifiStart, PromiscOn, P11pOn, DriverSet, Tune, At
  <2> QED
    BY <1>11, <2>1 DEF CoexOrder
<1>19. ~MarkRunning("coex")
  <2>1. Allowed("coex", setup, interf) \cap {"mark_running", "set_channel", "mark_stopped"} = {}
    BY DEF Allowed, PauseSteps, ResumeSteps
  <2> QED
    BY <2>1, AtAllowed DEF MarkRunning, IInv, Tasks
<1> QED
  BY <1>5, <1>8, <1>9, <1>10, <1>12, <1>14, <1>15, <1>16, <1>17, <1>18, <1>19 DEF SnifferStep

----------------------------------------------------------------------------
(* The theorems *)

LEMMA StepInv == IInv /\ [Next]_vars => IInv'
BY SetupKept, AheadStep, StationStep, CycleStepKeeps, CoexStepKeeps DEF IInv

\* The strengthened invariant holds in every reachable state, for every set of
\* configurations and uses.
THEOREM Invariance == Spec => []IInv
<1>1. Init => IInv
  BY InitInv
<1>2. IInv /\ [Next]_vars => IInv'
  BY StepInv
<1> QED
  BY <1>1, <1>2, PTL DEF Spec

\* A sniffer that runs has an interface, and in cycle mode the station is gone
\* whenever the cycle task does not claim the radio, whatever the coex task, the
\* main task, the console and the access point do (wifi_manager.c:210-246).
THEOREM StationInItsWindow == Spec => []Inv
<1>1. IInv => Inv
  <2>1. ASSUME IInv, WifiMode = "cycle", ~cycleActive PROVE sta = "off"
    <3>1. driver.mode \in {"null", "sta"}
      BY <2>1 DEF IInv, TypeOK
    <3> QED
      BY <2>1, <3>1 DEF IInv, CyclePlace, StationMode
  <2> QED
    BY <2>1 DEF IInv, Inv, StationOnlyInWindow
<1> QED
  BY <1>1, Invariance, PTL

\* In BLE mode every BLE window has the radio for itself, with stops from the
\* console falling between any two driver calls (bt_stream.c:420-426).
THEOREM CleanWindows == Spec => []BleWindowClean
<1>1. IInv => BleWindowClean
  <2> SUFFICES ASSUME IInv, BleOnly, At("coex", "ble_window") PROVE Released /\ ~driver.started
    BY DEF BleWindowClean, WindowClean
  <2>1. First(todo["coex"]) = "ble_window"
    BY DEF At, First
  <2> QED
    BY <2>1 DEF IInv, CoexPlace, Off
<1> QED
  BY <1>1, Invariance, PTL
=============================================================================
