---------------------------- MODULE BleController ----------------------------
(***************************************************************************)
(* The app's end of the BLE link (BluetoothController.kt): scan, connect,  *)
(* MTU, services, subscription, reconnection.  The main thread runs what   *)
(* the user does, scan results, delayed closures and the watchdog; the     *)
(* callbacks of a GATT link run on a binder thread, in order for each      *)
(* link, with no lock between the two.  MainActivity.kt makes a new        *)
(* controller for every start and shows the state that any of them         *)
(* reports.                                                                *)
(*                                                                         *)
(* A thread has a list of statements still to run: thread 0 is the main    *)
(* thread, thread l the callback of link l that is under way.  Delays are  *)
(* left out; the retry counter, which only lengthens them, with them.      *)
(***************************************************************************)
EXTENDS Naturals, Sequences, FiniteSets

CONSTANTS Starts,    \* bound: how often the user starts a controller
          MaxLinks,  \* bound: links that are open, or whose callback runs, at once
          Faults     \* bound: links lost, answers lost, late or bad, Bluetooth off

ASSUME ControllerAssumption == {Starts, MaxLinks, Faults} \subseteq Nat \ {0}

Controllers == 1 .. Starts
Links == 1 .. MaxLinks
Main == 0
None == 0

VARIABLES
    overlap,    \* what may overlap a callback: nothing, stop, or the watchdog too
    bt,         \* the controller that MainActivity holds
    started,    \* the controllers made so far are 1 .. started
    bluetooth,  \* adapter.isEnabled
    stopped, scanning, cachedDevice, cachedMtu,     \* of each controller
    gatt,       \* its variable gatt: a link, or None
    watchdog,   \* cccdWatchdog is posted
    scanTimer,  \* the closure that ends a scan is posted
    pending,    \* the closures that reconnect
    gaveUp,     \* it has reported an error and will not try again by itself
    link,       \* for each link its owner, state and outstanding operation
    todo,       \* what a thread has still to do
    acting,     \* the controller the main thread works for
    posts,      \* the states that wait for the main thread to show them
    shown,      \* the state on the button
    faults      \* faults so far

own == <<stopped, scanning, cachedDevice, cachedMtu, gatt, watchdog, scanTimer, pending, gaveUp>>
user == <<overlap, bt, started, bluetooth, faults>>
vars == <<user, own, link, todo, acting, posts, shown>>

Open(l) == link[l].st \notin {"none", "closed"}
NoLink == [owner |-> 1, st |-> "none"]

MainIdle == todo[Main] = <<>>
Callbacks == {l \in Links : todo[l] # <<>>}

\* No callback is under way, and the states they reported are on the button.
Undisturbed == Callbacks = {} /\ posts = <<>>

Fault == faults < Faults /\ faults' = faults + 1

----------------------------------------------------------------------------
(* Statements *)

Actor(t) == IF t = Main THEN acting ELSE link[t].owner

\* onState: at once on the main thread, or with runOnUiThread.
Report(t, state) ==
    IF t = Main THEN shown' = state /\ UNCHANGED posts
    ELSE posts' = Append(posts, state) /\ UNCHANGED shown

\* Mutant: the watchdog is left to itself.
CancelNothing(i) == UNCHANGED own

\* cancelWatchdog.
Cancel(i) ==
    /\ watchdog' = [watchdog EXCEPT ![i] = FALSE]
    /\ UNCHANGED <<stopped, scanning, cachedDevice, cachedMtu, gatt, scanTimer, pending, gaveUp>>

StopScan(i) ==
    /\ scanning' = [scanning EXCEPT ![i] = FALSE]
    /\ UNCHANGED <<stopped, cachedDevice, cachedMtu, gatt, watchdog, scanTimer, pending, gaveUp>>

Clear(i) ==
    /\ gatt' = [gatt EXCEPT ![i] = None]
    /\ UNCHANGED <<stopped, scanning, cachedDevice, cachedMtu, watchdog, scanTimer, pending, gaveUp>>

\* scheduleReconnect.
Schedule(i) ==
    /\ pending' = [pending EXCEPT ![i] = @ + 1]
    /\ UNCHANGED <<stopped, scanning, cachedDevice, cachedMtu, gatt, watchdog, scanTimer, gaveUp>>

SetStopped(i) ==
    /\ stopped' = [stopped EXCEPT ![i] = TRUE]
    /\ UNCHANGED <<scanning, cachedDevice, cachedMtu, gatt, watchdog, scanTimer, pending, gaveUp>>

\* disconnect and close, of the callback's link or of the one in gatt; the
\* stack delivers no further callback of a closed link.
CloseLink(t) ==
    LET l == IF t = Main THEN gatt[acting] ELSE t
    IN link' = [k \in Links |-> IF k = l THEN [link[k] EXCEPT !.st = "closed"] ELSE link[k]]

\* The bodies.
StopBody == <<"stop", "cancel", "stopScan", "close", "clear", "idle">>
WatchdogBody == <<"alive", "scanning", "close", "clear", "schedule">>
DisconnectedBody == <<"cancel", "close", "clear", "lost">>
WriteFailedBody == <<"cancel", "scanning", "close", "clear", "schedule">>
SubscribedBody == <<"cancel", "connected">>

\* Mutants: a lost link is not reported; it does not lead to another attempt.
LostSilently(i) == IF stopped[i] THEN <<"idle">> ELSE <<"schedule">>
LostForGood(i) == IF stopped[i] THEN <<"idle">> ELSE <<"scanning">>

\* onConnectionStateChange, after it has closed the link.
Lost(i) == IF stopped[i] THEN <<"idle">> ELSE <<"scanning", "schedule">>

States == {"idle", "scanning", "connecting", "connected", "error"}

\* The next statement of thread t.
Step(t) ==
    /\ todo[t] # <<>>
    /\ LET s == Head(todo[t])
           i == Actor(t)
       IN /\ todo' = [todo EXCEPT ![t] = CASE s = "lost" -> Lost(i)
                                           [] s = "alive" /\ stopped[i] -> <<>>
                                           [] OTHER -> Tail(@)]
          /\ CASE s = "cancel"   -> Cancel(i)
               [] s = "stopScan" -> StopScan(i)
               [] s = "clear"    -> Clear(i)
               [] s = "schedule" -> Schedule(i)
               [] s = "stop"     -> SetStopped(i)
               [] OTHER          -> UNCHANGED own
          /\ IF s = "close" THEN CloseLink(t) ELSE UNCHANGED link
          /\ IF s \in States THEN Report(t, s) ELSE UNCHANGED <<posts, shown>>
    /\ acting' = IF todo'[Main] = <<>> THEN 1 ELSE acting
    /\ UNCHANGED user

\* A callback starts while the main thread is between two runnables, or
\* inside one that may overlap it.
MayCall ==
    \/ MainIdle
    \/ overlap = "watchdog"
    \/ overlap = "stop" /\ stopped[acting]

----------------------------------------------------------------------------
(* The main thread *)

Free(l) == ~Open(l) /\ todo[l] = <<>> /\ \A i \in Controllers : gatt[i] # l

\* doConnect: connectGatt, which the system may refuse.
DoConnect(i) ==
    \/ \E l \in Links :
         /\ Free(l) /\ \A k \in Links : Free(k) => l <= k
         /\ link' = [link EXCEPT ![l] = [owner |-> i, st |-> "connecting"]]
         /\ gatt' = [gatt EXCEPT ![i] = l]
         /\ shown' = "connecting"
         /\ UNCHANGED <<gaveUp, faults>>
    \/ /\ Fault
       /\ shown' = "error"
       /\ gaveUp' = [gaveUp EXCEPT ![i] = TRUE]
       /\ UNCHANGED <<link, gatt>>

\* connectOrScan: an error when Bluetooth is off, else a connection to the
\* device that is known, or startScan with its timeout.
Refuse(i) ==
    /\ ~bluetooth
    /\ shown' = "error"
    /\ gaveUp' = [gaveUp EXCEPT ![i] = TRUE]
    /\ UNCHANGED <<scanning, scanTimer, link, gatt, faults>>

Scan(i) ==
    /\ bluetooth /\ ~cachedDevice[i]
    /\ scanning' = [scanning EXCEPT ![i] = TRUE]
    /\ scanTimer' = [scanTimer EXCEPT ![i] = TRUE]
    /\ shown' = "scanning"
    /\ UNCHANGED <<link, gatt, gaveUp, faults>>

ConnectOrScan(i) ==
    \/ Refuse(i)
    \/ Scan(i)
    \/ /\ bluetooth /\ cachedDevice[i]
       /\ DoConnect(i)
       /\ UNCHANGED <<scanning, scanTimer>>

\* toggleBt, startBt, start: a new controller, which knows no device.
Start ==
    /\ MainIdle /\ bt = None /\ started < Starts
    /\ bt' = started + 1 /\ started' = started + 1
    /\ Refuse(started + 1) \/ Scan(started + 1)
    /\ UNCHANGED <<overlap, bluetooth, stopped, cachedDevice, cachedMtu, watchdog, pending,
                   todo, acting, posts>>

\* toggleBt, stop.
Stop ==
    /\ MainIdle /\ bt # None
    /\ overlap # "none" \/ Undisturbed
    /\ todo' = [todo EXCEPT ![Main] = StopBody] /\ acting' = bt
    /\ bt' = None
    /\ UNCHANGED <<overlap, started, bluetooth, faults, own, link, posts, shown>>

\* onScanResult.
Found(i) ==
    /\ MainIdle /\ scanning[i] /\ bluetooth
    /\ scanning' = [scanning EXCEPT ![i] = FALSE]
    /\ cachedDevice' = [cachedDevice EXCEPT ![i] = TRUE]
    /\ DoConnect(i)
    /\ UNCHANGED <<overlap, bt, started, bluetooth, stopped, cachedMtu, watchdog, scanTimer,
                   pending, todo, acting, posts>>

\* onScanFailed, which looks at nothing: it may come late, after a stop.
ScanFailed(i) ==
    /\ MainIdle /\ Fault
    /\ scanning[i] \/ (overlap # "none" /\ stopped[i] /\ scanTimer[i])
    /\ scanning' = [scanning EXCEPT ![i] = FALSE]
    /\ shown' = "error"
    /\ gaveUp' = [gaveUp EXCEPT ![i] = TRUE]
    /\ UNCHANGED <<overlap, bt, started, bluetooth, stopped, cachedDevice, cachedMtu, gatt,
                   watchdog, scanTimer, pending, link, todo, acting, posts>>

\* Mutant: the closure does not look whether the scan still runs.
ScanTimeoutAlways(i) ==
    /\ MainIdle /\ scanTimer[i]
    /\ scanTimer' = [scanTimer EXCEPT ![i] = FALSE]
    /\ scanning' = [scanning EXCEPT ![i] = FALSE]
    /\ shown' = "scanning"
    /\ pending' = [pending EXCEPT ![i] = @ + 1]
    /\ UNCHANGED <<user, stopped, cachedDevice, cachedMtu, gatt, watchdog, gaveUp, link,
                   todo, acting, posts>>

\* The closure of startScan: a device that is there answers in time, but for a fault.
ScanTimeout(i) ==
    /\ MainIdle /\ scanTimer[i]
    /\ scanTimer' = [scanTimer EXCEPT ![i] = FALSE]
    /\ IF scanning[i]
       THEN /\ IF bluetooth THEN Fault ELSE UNCHANGED faults
            /\ scanning' = [scanning EXCEPT ![i] = FALSE]
            /\ shown' = "scanning"
            /\ pending' = [pending EXCEPT ![i] = @ + 1]
       ELSE UNCHANGED <<scanning, shown, pending, faults>>
    /\ UNCHANGED <<overlap, bt, started, bluetooth, stopped, cachedDevice, cachedMtu, gatt,
                   watchdog, gaveUp, link, todo, acting, posts>>

\* Mutant: the closure does not look whether the controller was stopped.
ReconnectAlways(i) ==
    /\ MainIdle /\ pending[i] > 0 /\ Undisturbed
    /\ pending' = [pending EXCEPT ![i] = @ - 1]
    /\ ConnectOrScan(i)
    /\ UNCHANGED <<overlap, bt, started, bluetooth, stopped, cachedDevice, cachedMtu, watchdog,
                   todo, acting, posts>>

\* The closure of scheduleReconnect.  It runs after a second or more: no
\* callback takes that long.
Reconnect(i) ==
    /\ MainIdle /\ pending[i] > 0 /\ Undisturbed
    /\ pending' = [pending EXCEPT ![i] = @ - 1]
    /\ IF stopped[i] THEN UNCHANGED <<scanning, scanTimer, link, gatt, gaveUp, faults, shown>>
       ELSE ConnectOrScan(i)
    /\ UNCHANGED <<overlap, bt, started, bluetooth, stopped, cachedDevice, cachedMtu, watchdog,
                   todo, acting, posts>>

\* cccdWatchdog: when the answer is lost or (a fault) comes at the same time.
Watchdog(i) ==
    /\ MainIdle /\ watchdog[i]
    /\ overlap = "watchdog" \/ Undisturbed
    /\ IF gatt[i] # None /\ link[gatt[i]].st = "silent" THEN UNCHANGED faults ELSE Fault
    /\ watchdog' = [watchdog EXCEPT ![i] = FALSE]
    /\ todo' = [todo EXCEPT ![Main] = WatchdogBody] /\ acting' = i
    /\ UNCHANGED <<overlap, bt, started, bluetooth, stopped, scanning, cachedDevice, cachedMtu,
                   gatt, scanTimer, pending, gaveUp, link, posts, shown>>

\* runOnUiThread.
Show ==
    /\ MainIdle /\ posts # <<>>
    /\ shown' = Head(posts) /\ posts' = Tail(posts)
    /\ UNCHANGED <<user, own, link, todo, acting>>

----------------------------------------------------------------------------
(* The callbacks of link l *)

Calls(l, from) == MayCall /\ todo[l] = <<>> /\ link[l].st = from
Becomes(l, st) == link' = [link EXCEPT ![l].st = st]
Body(l, b) == todo' = [todo EXCEPT ![l] = b]

\* onConnectionStateChange, connected.
Connected(l) ==
    /\ Calls(l, "connecting")
    /\ Becomes(l, IF cachedMtu[link[l].owner] THEN "services" ELSE "mtu")
    /\ UNCHANGED <<user, own, todo, acting, posts, shown>>

\* onMtuChanged, with success or without.
MtuChanged(l) ==
    /\ Calls(l, "mtu")
    /\ \/ cachedMtu' = [cachedMtu EXCEPT ![link[l].owner] = TRUE] /\ UNCHANGED faults
       \/ Fault /\ UNCHANGED cachedMtu
    /\ Becomes(l, "services")
    /\ UNCHANGED <<overlap, bt, started, bluetooth, stopped, scanning, cachedDevice, gatt,
                   watchdog, scanTimer, pending, gaveUp, todo, acting, posts, shown>>

\* onServicesDiscovered: the watchdog is armed and the CCCD written, or the
\* controller gives up and leaves the link as it is.
ServicesDiscovered(l) ==
    /\ Calls(l, "services")
    /\ \/ /\ watchdog' = [watchdog EXCEPT ![link[l].owner] = TRUE]
          /\ Becomes(l, "cccd")
          /\ UNCHANGED <<faults, gaveUp, posts>>
       \/ /\ Fault
          /\ posts' = Append(posts, "error")
          /\ gaveUp' = [gaveUp EXCEPT ![link[l].owner] = TRUE]
          /\ Becomes(l, "useless")
          /\ UNCHANGED watchdog
    /\ UNCHANGED <<overlap, bt, started, bluetooth, stopped, scanning, cachedDevice, cachedMtu,
                   gatt, scanTimer, pending, todo, acting, shown>>

\* onDescriptorWrite: with success; a bad status is a fault; so is no answer.
DescriptorWrite(l) ==
    /\ Calls(l, "cccd")
    /\ \/ Becomes(l, "subscribed") /\ Body(l, SubscribedBody) /\ UNCHANGED faults
       \/ Fault /\ Becomes(l, "useless") /\ Body(l, WriteFailedBody)
       \/ Fault /\ Becomes(l, "silent") /\ UNCHANGED todo
    /\ UNCHANGED <<overlap, bt, started, bluetooth, own, acting, posts, shown>>

\* onConnectionStateChange, disconnected.
Disconnected(l) ==
    /\ Calls(l, "down")
    /\ Body(l, DisconnectedBody)
    /\ gaveUp' = [gaveUp EXCEPT ![link[l].owner] = FALSE]
    /\ Becomes(l, "gone")
    /\ UNCHANGED <<user, stopped, scanning, cachedDevice, cachedMtu, gatt, watchdog, scanTimer,
                   pending, acting, posts, shown>>

----------------------------------------------------------------------------
(* The world: what happens while a thread is at work has the effect it    *)
(* would have had before, as its callback waits all the same.             *)

AtRest == \A t \in Links \cup {Main} : todo[t] = <<>>

\* A link is lost, or is not established.
LinkLost(l) ==
    /\ AtRest /\ Open(l) /\ link[l].st \notin {"down", "gone"} /\ Fault
    /\ Becomes(l, "down")
    /\ UNCHANGED <<overlap, bt, started, bluetooth, own, todo, acting, posts, shown>>

\* onMtuChanged or onServicesDiscovered never comes, or the request was refused,
\* whose result nobody looks at (l. 211, 213, 233); no watchdog is armed yet.
AnswerLost(l) ==
    /\ AtRest /\ link[l].st \in {"mtu", "services"} /\ Fault
    /\ Becomes(l, "stuck")
    /\ UNCHANGED <<overlap, bt, started, bluetooth, own, todo, acting, posts, shown>>

\* Bluetooth is switched off, and on again.
Switch ==
    /\ AtRest
    /\ IF bluetooth THEN Fault ELSE UNCHANGED faults
    /\ bluetooth' = ~bluetooth
    /\ link' = [l \in Links |-> IF bluetooth /\ Open(l) /\ link[l].st # "gone"
                                THEN [link[l] EXCEPT !.st = "down"] ELSE link[l]]
    /\ UNCHANGED <<overlap, bt, started, own, todo, acting, posts, shown>>

----------------------------------------------------------------------------

Init ==
    /\ overlap \in {"none", "stop", "watchdog"}
    /\ bt = None /\ started = 0 /\ bluetooth = TRUE
    /\ LET no == [i \in Controllers |-> FALSE]
       IN /\ stopped = no /\ scanning = no /\ watchdog = no /\ scanTimer = no
          /\ cachedDevice = no /\ cachedMtu = no /\ gaveUp = no
    /\ gatt = [i \in Controllers |-> None]
    /\ pending = [i \in Controllers |-> 0]
    /\ link = [l \in Links |-> NoLink]
    /\ todo = [t \in Links \cup {Main} |-> <<>>] /\ acting = 1
    /\ posts = <<>> /\ shown = "idle" /\ faults = 0

OwnStep(i) == Found(i) \/ ScanTimeout(i) \/ Reconnect(i) \/ Watchdog(i)
Callback(l) == Connected(l) \/ MtuChanged(l) \/ ServicesDiscovered(l) \/ DescriptorWrite(l)
               \/ Disconnected(l)

Next ==
    \/ Start \/ Stop \/ Show \/ Switch
    \/ \E i \in Controllers : OwnStep(i) \/ ScanFailed(i)
    \/ \E l \in Links : Callback(l) \/ LinkLost(l) \/ AnswerLost(l)
    \/ \E t \in Links \cup {Main} : Step(t)

Spec == Init /\ [][Next]_vars

\* Threads run, closures are run, the device and the stack answer, Bluetooth
\* does not stay off; the user does what he likes.
FairSpec ==
    /\ Spec
    /\ WF_vars(Show)
    /\ WF_vars(~bluetooth /\ Switch)
    /\ \A i \in Controllers : WF_vars(Found(i)) /\ WF_vars(ScanTimeout(i))
                              /\ WF_vars(Reconnect(i)) /\ WF_vars(Watchdog(i))
    /\ \A l \in Links : WF_vars(Callback(l))
    /\ \A t \in Links \cup {Main} : WF_vars(Step(t))

----------------------------------------------------------------------------
(* Properties *)

\* Types of the variables; no thread is in a body that belongs to another.
TypeOK ==
    /\ bt \in 0 .. started /\ started \in 0 .. Starts
    /\ {stopped, scanning, cachedDevice, cachedMtu, watchdog, scanTimer, gaveUp}
         \subseteq [Controllers -> BOOLEAN]
    /\ gatt \in [Controllers -> Links \cup {None}]
    /\ pending \in [Controllers -> Nat]
    /\ \A l \in Links : Open(l) => link[l].owner \in 1 .. started
    /\ shown \in States /\ \A n \in 1 .. Len(posts) : posts[n] \in States

\* A controller has at most one attempt to reach the device: a scan, a closure
\* that reconnects, or an open GATT link.  A second link would feed its frames
\* into the same reader (l. 317-332), and only the later one can be closed.
\* That holds as long as the watchdog does not run inside a callback.
OneLink ==
    overlap # "watchdog" =>
        /\ \A k, l \in Links : Open(k) /\ Open(l) /\ link[k].owner = link[l].owner => k = l
        /\ \A i \in Controllers :
              LET linked == \E l \in Links : Open(l) /\ link[l].owner = i
              IN /\ pending[i] <= 1
                 /\ scanning[i] => pending[i] = 0 /\ ~linked
                 /\ pending[i] = 1 => ~linked

\* No failure, timeout or click adds a link or an attempt to those there are.
Inv == TypeOK /\ OneLink

Quiet == AtRest /\ posts = <<>>

\* When no thread is at work, a controller that was stopped has no link open
\* and scans no more, whatever overlapped the stop (l. 90-97): closures and
\* callbacks that were still to come open nothing.
StopCloses ==
    overlap # "watchdog" /\ Quiet =>
        \A i \in 1 .. started :
            stopped[i] => ~scanning[i] /\ \A l \in Links : Open(l) => link[l].owner # i

\* When no thread is at work, the button tells the truth: it offers to
\* connect exactly when there is no controller, and it is green exactly when
\* the device has been subscribed to (a link that has gone down since has a
\* callback to come), as long as no callback overlaps a stop.
UiHonest ==
    overlap = "none" /\ Quiet =>
        /\ shown = "idle" <=> bt = None
        /\ shown = "connected" =>
              gatt[bt] # None /\ link[gatt[bt]].st \in {"subscribed", "down"}
        /\ \A l \in Links : link[l].st = "subscribed" => shown = "connected"

\* A link that is subscribed is closed by a stop, or after it went down: the
\* watchdog and the other failures never take it.
WatchdogSafe ==
    [][overlap # "watchdog" =>
        \A l \in Links :
            link[l].st = "subscribed" /\ (~Open(l))' => stopped[link[l].owner]]_vars

\* A controller that runs is in the end subscribed to the device, or has
\* reported an error: every failure that it does not report leads to another
\* attempt, but for the answers that are lost before the watchdog is armed
\* (l. 209-234), and even these if the link goes down later.
Reconnects ==
    <>[](bt # None => gaveUp[bt] \/ \E l \in Links : /\ link[l].owner = bt
                                                  /\ link[l].st \in {"subscribed", "stuck"})

(* What one would expect and the code does not give (see the README):      *)
(* Reconnects with "subscribed" alone.                                     *)
=============================================================================
