------------------------ MODULE BleController_proofs ------------------------
(***************************************************************************)
(* Theorems about BleController, for any number of starts, links and       *)
(* faults.  They rest on one idea: whoever may cause the next attempt of a *)
(* controller to reach its device (a scan, a closure that reconnects, a    *)
(* link that is open or whose callback is to schedule one, the watchdog)   *)
(* is alone (OneAttempt), and hands that right on.  The rest says where    *)
(* the threads are when a link has a state, and, for the button, which     *)
(* state will be on it once the main thread has shown what was posted.     *)
(***************************************************************************)
EXTENDS BleController, SequenceTheorems, TLAPS

----------------------------------------------------------------------------
(* What a thread has still to do: the bodies, and what is left of them.    *)

Stop1 == <<"stop", "cancel", "stopScan", "close", "clear", "idle">>
Stop2 == <<"cancel", "stopScan", "close", "clear", "idle">>
Stop3 == <<"stopScan", "close", "clear", "idle">>
Stop4 == <<"close", "clear", "idle">>
Stop5 == <<"clear", "idle">>
Stop6 == <<"idle">>
Dog1 == <<"alive", "scanning", "close", "clear", "schedule">>
Dog2 == <<"scanning", "close", "clear", "schedule">>
Dog3 == <<"close", "clear", "schedule">>
Dog4 == <<"clear", "schedule">>
Dog5 == <<"schedule">>
Fail1 == <<"cancel", "scanning", "close", "clear", "schedule">>
Down1 == <<"cancel", "close", "clear", "lost">>
Down2 == <<"close", "clear", "lost">>
Down3 == <<"clear", "lost">>
Down4 == <<"lost">>
Lost1 == <<"scanning", "schedule">>
Sub1 == <<"cancel", "connected">>
Sub2 == <<"connected">>
Done == <<>>

Stopping == {Stop1, Stop2, Stop3, Stop4, Stop5, Stop6}
Watching == {Dog1, Dog2, Dog3, Dog4, Dog5}
Closed == {Down3, Down4, Lost1, Dog4, Dog5}
Retrying == {Down1, Down2, Fail1, Dog2, Dog3} \cup Closed
Calling == Retrying \cup {Sub1, Sub2, Stop6}

LinkStates == {"none", "connecting", "mtu", "services", "cccd", "silent", "subscribed",
               "useless", "stuck", "down", "gone", "closed"}

Types ==
    /\ overlap \in {"none", "stop", "watchdog"}
    /\ bt \in 0 .. started /\ started \in 0 .. Starts
    /\ bluetooth \in BOOLEAN
    /\ stopped \in [Controllers -> BOOLEAN] /\ scanning \in [Controllers -> BOOLEAN]
    /\ cachedDevice \in [Controllers -> BOOLEAN] /\ cachedMtu \in [Controllers -> BOOLEAN]
    /\ watchdog \in [Controllers -> BOOLEAN] /\ scanTimer \in [Controllers -> BOOLEAN]
    /\ gaveUp \in [Controllers -> BOOLEAN]
    /\ gatt \in [Controllers -> Links \cup {None}]
    /\ pending \in [Controllers -> Nat]
    /\ link \in [Links -> [owner : Controllers, st : LinkStates]]
    /\ todo \in [Links \cup {Main} -> Stopping \cup Watching \cup Calling \cup {Done}]
    /\ todo[Main] \in Stopping \cup Watching \cup {Done}
    /\ \A l \in Links : todo[l] \in Calling \cup {Done}
    /\ acting \in Controllers
    /\ posts \in Seq(States) /\ shown \in States
    /\ faults \in 0 .. Faults

\* Nothing goes on for a controller that was not made yet.
OnlyMade ==
    \A i \in Controllers :
        i > started => ~stopped[i] /\ ~scanning[i] /\ ~watchdog[i] /\ pending[i] = 0

LinksMade ==
    \A l \in Links : /\ link[l].st # "none" => link[l].owner <= started
                     /\ todo[l] # Done => link[l].st # "none"

\* The link in gatt is the controller's own.
GattMade ==
    \A i \in Controllers :
        gatt[i] # None => link[gatt[i]].st # "none" /\ link[gatt[i]].owner = i

Made ==
    /\ OnlyMade /\ LinksMade /\ GattMade
    /\ todo[Main] # Done => acting <= started

\* What a callback has still to do fits the state of its link.
Fits(l) ==
    /\ todo[l] \in {Down1, Down2} => link[l].st \in {"gone", "closed"}
    /\ todo[l] \in {Fail1, Dog2, Dog3} => link[l].st \in {"useless", "closed"}
    /\ todo[l] \in {Sub1, Sub2} => link[l].st \in {"subscribed", "closed"}
    /\ todo[l] \in Closed \cup {Stop6} => ~Open(l)

StateFits == \A l \in Links : Fits(l)

\* A link that is open, or whose callback is to schedule another attempt.
Busy(l) == Open(l) \/ todo[l] \in Retrying

HasBusy(i) == \E l \in Links : Busy(l) /\ link[l].owner = i

\* The watchdog has closed the link and is to schedule another attempt.
MainRetries(i) == acting = i /\ todo[Main] \in {Dog4, Dog5}

\* At most one of them is on its way to an attempt of controller i.
One(i) ==
    /\ \A k, l \in Links :
          Busy(k) /\ Busy(l) /\ link[k].owner = i /\ link[l].owner = i => k = l
    /\ pending[i] <= 1
    /\ scanning[i] => pending[i] = 0 /\ ~HasBusy(i) /\ ~MainRetries(i)
    /\ pending[i] = 1 => ~HasBusy(i) /\ ~MainRetries(i)
    /\ MainRetries(i) => ~HasBusy(i)

OneAttempt == \A i \in Controllers : One(i)

\* A link that is open is the one in gatt.
Held == \A l \in Links : Open(l) => gatt[link[l].owner] = l

\* The watchdog of a controller that runs watches a link that waits for the
\* answer to the subscription, has gone down, or will cancel it.
Armed ==
    \A i \in Controllers :
        watchdog[i] /\ ~stopped[i] =>
            /\ gatt[i] # None
            /\ Open(gatt[i])
            /\ \/ todo[gatt[i]] = Done /\ link[gatt[i]].st \in {"cccd", "silent", "down"}
               \/ todo[gatt[i]] \in {Sub1, Fail1, Down1}

\* While the watchdog runs past its test, no callback does, and what it is
\* about to close is not subscribed.
InWatchdog ==
    todo[Main] \in Watching =>
        /\ todo[Main] # Dog1 => ~stopped[acting]
        /\ ~stopped[acting] => Callbacks = {} /\ posts = <<>> /\ ~watchdog[acting]
        /\ ~stopped[acting] /\ todo[Main] \in {Dog1, Dog2, Dog3} =>
              gatt[acting] # None /\ Open(gatt[acting]) /\ link[gatt[acting]].st # "subscribed"

\* A controller that was stopped scans, or has a link, only as long as the
\* stop has not come to it.
InStop ==
    /\ todo[Main] \in Stopping \ {Stop1} => stopped[acting]
    /\ \A i \in Controllers :
          stopped[i] =>
            /\ scanning[i] => acting = i /\ todo[Main] \in {Stop2, Stop3}
            /\ \A l \in Links :
                  Open(l) /\ link[l].owner = i =>
                      acting = i /\ todo[Main] \in {Stop2, Stop3, Stop4}

Core == OneAttempt /\ Held /\ Armed /\ InWatchdog /\ InStop

\* The state on the button when all that was posted has been shown.
Coming == IF posts = <<>> THEN shown ELSE posts[Len(posts)]

\* The controller that MainActivity holds is the only one that runs.
Ours ==
    /\ \A i \in 1 .. started : i # bt => stopped[i] \/ (acting = i /\ todo[Main] = Stop1)
    /\ bt # None => ~stopped[bt]

Button ==
    /\ todo[Main] \in Stopping => bt = None /\ Callbacks = {} /\ posts = <<>>
    /\ todo[Main] \notin Stopping => (shown = "idle" <=> bt = None)

Posted ==
    /\ posts \in Seq(States \ {"idle"})
    /\ posts # <<>> => bt # None /\ todo[Main] = Done /\ ~scanning[bt]

\* The callback that is under way.
OfBt(l) ==
    todo[l] # Done => /\ todo[Main] = Done /\ bt # None /\ link[l].owner = bt
                      /\ todo[l] # Stop6
                      /\ todo[l] \in {Sub1, Sub2} => Open(l)

\* The link by which the device was subscribed to.
Reached(l) ==
    /\ link[l].owner = bt
    /\ \/ gatt[bt] = l /\ todo[l] = Done /\ link[l].st \in {"subscribed", "down"}
       \/ todo[l] \in {Down1, Down2, Down3, Down4, Lost1}

Green ==
    /\ \A l \in Links :
          link[l].st = "subscribed" => todo[l] \in {Sub1, Sub2} \/ Coming = "connected"
    /\ Coming = "connected" =>
          \/ todo[Main] \in Stopping
          \/ bt # None /\ ~watchdog[bt] /\ \E l \in Links : Reached(l)
    /\ todo[Main] \in Watching /\ ~stopped[acting] => Coming # "connected"

Ui == Ours /\ Button /\ Posted /\ (\A l \in Links : OfBt(l)) /\ Green

IInv ==
    /\ Types /\ Made /\ StateFits
    /\ overlap # "watchdog" => Core

UiInv == IInv /\ (overlap = "none" => Ui)

----------------------------------------------------------------------------
(* Lemmas about the bodies *)

\* The next statement, and what is left after it.
LEMMA Places ==
    /\ Stop1 # Done /\ Head(Stop1) = "stop" /\ Tail(Stop1) = Stop2
    /\ Stop2 # Done /\ Head(Stop2) = "cancel" /\ Tail(Stop2) = Stop3
    /\ Stop3 # Done /\ Head(Stop3) = "stopScan" /\ Tail(Stop3) = Stop4
    /\ Stop4 # Done /\ Head(Stop4) = "close" /\ Tail(Stop4) = Stop5
    /\ Stop5 # Done /\ Head(Stop5) = "clear" /\ Tail(Stop5) = Stop6
    /\ Stop6 # Done /\ Head(Stop6) = "idle" /\ Tail(Stop6) = Done
    /\ Dog1 # Done /\ Head(Dog1) = "alive" /\ Tail(Dog1) = Dog2
    /\ Dog2 # Done /\ Head(Dog2) = "scanning" /\ Tail(Dog2) = Dog3
    /\ Dog3 # Done /\ Head(Dog3) = "close" /\ Tail(Dog3) = Dog4
    /\ Dog4 # Done /\ Head(Dog4) = "clear" /\ Tail(Dog4) = Dog5
    /\ Dog5 # Done /\ Head(Dog5) = "schedule" /\ Tail(Dog5) = Done
    /\ Fail1 # Done /\ Head(Fail1) = "cancel" /\ Tail(Fail1) = Dog2
    /\ Down1 # Done /\ Head(Down1) = "cancel" /\ Tail(Down1) = Down2
    /\ Down2 # Done /\ Head(Down2) = "close" /\ Tail(Down2) = Down3
    /\ Down3 # Done /\ Head(Down3) = "clear" /\ Tail(Down3) = Down4
    /\ Down4 # Done /\ Head(Down4) = "lost" /\ Tail(Down4) = Done
    /\ Lost1 # Done /\ Head(Lost1) = "scanning" /\ Tail(Lost1) = Dog5
    /\ Sub1 # Done /\ Head(Sub1) = "cancel" /\ Tail(Sub1) = Sub2
    /\ Sub2 # Done /\ Head(Sub2) = "connected" /\ Tail(Sub2) = Done
BY DEF Stop1, Stop2, Stop3, Stop4, Stop5, Stop6, Dog1, Dog2, Dog3, Dog4,
   Dog5, Fail1, Down1, Down2, Down3, Down4, Lost1, Sub1, Sub2, Done

\* A number for each of them: they differ in length, at the end or at the start.
Code(c) ==
    IF Len(c) = 0 THEN 0
    ELSE 10 * Len(c)
         + (CASE c[Len(c)] = "idle" -> 1 [] c[Len(c)] = "schedule" -> 2
              [] c[Len(c)] = "lost" -> 3 [] OTHER -> 4)
         + (IF Head(c) \in {"alive", "clear"} THEN 5 ELSE 0)

LEMMA Distinct ==
    /\ Code(Stop1) = 61 /\ Code(Stop2) = 51 /\ Code(Stop3) = 41 /\ Code(Stop4) = 31
    /\ Code(Stop5) = 26 /\ Code(Stop6) = 11 /\ Code(Dog1) = 57 /\ Code(Dog2) = 42
    /\ Code(Dog3) = 32 /\ Code(Dog4) = 27 /\ Code(Dog5) = 12 /\ Code(Fail1) = 52
    /\ Code(Down1) = 43 /\ Code(Down2) = 33 /\ Code(Down3) = 28 /\ Code(Down4) = 13
    /\ Code(Lost1) = 22 /\ Code(Sub1) = 24 /\ Code(Sub2) = 14 /\ Code(Done) = 0
BY DEF Code, Stop1, Stop2, Stop3, Stop4, Stop5, Stop6, Dog1, Dog2, Dog3, Dog4,
   Dog5, Fail1, Down1, Down2, Down3, Down4, Lost1, Sub1, Sub2, Done

LEMMA NoBody == Done \notin Stopping \cup Watching \cup Calling
BY Places DEF Stopping, Watching, Calling, Retrying, Closed

LEMMA NotDone ==
    Done \notin {Stop1, Stop2, Stop3, Stop4} /\ Done \notin {Sub1, Fail1, Down1}
BY Distinct
----------------------------------------------------------------------------
(* What a statement does *)

Goes(t, from, to) == todo[t] = from /\ todo' = [todo EXCEPT ![t] = to]

\* The statements of the main thread, one by one.
MainDoes ==
    \/ Goes(Main, Stop1, Stop2) /\ SetStopped(acting) /\ UNCHANGED <<link, posts, shown>>
    \/ Goes(Main, Stop2, Stop3) /\ Cancel(acting) /\ UNCHANGED <<link, posts, shown>>
    \/ Goes(Main, Stop3, Stop4) /\ StopScan(acting) /\ UNCHANGED <<link, posts, shown>>
    \/ Goes(Main, Stop4, Stop5) /\ CloseLink(Main) /\ UNCHANGED <<own, posts, shown>>
    \/ Goes(Main, Stop5, Stop6) /\ Clear(acting) /\ UNCHANGED <<link, posts, shown>>
    \/ Goes(Main, Stop6, Done) /\ shown' = "idle" /\ UNCHANGED <<own, link, posts>>
    \/ Goes(Main, Dog1, IF stopped[acting] THEN Done ELSE Dog2) /\ UNCHANGED <<own, link, posts, shown>>
    \/ Goes(Main, Dog2, Dog3) /\ shown' = "scanning" /\ UNCHANGED <<own, link, posts>>
    \/ Goes(Main, Dog3, Dog4) /\ CloseLink(Main) /\ UNCHANGED <<own, posts, shown>>
    \/ Goes(Main, Dog4, Dog5) /\ Clear(acting) /\ UNCHANGED <<link, posts, shown>>
    \/ Goes(Main, Dog5, Done) /\ Schedule(acting) /\ UNCHANGED <<link, posts, shown>>

\* The statements of the callback of a link: it ends by cancelling the watchdog
\* and what follows, by reporting, closing, clearing, or by the choice of "lost".
CallDoes(l) ==
    LET i == link[l].owner
    IN  \/ /\ \/ Goes(l, Down1, Down2) \/ Goes(l, Fail1, Dog2) \/ Goes(l, Sub1, Sub2)
           /\ Cancel(i) /\ UNCHANGED <<link, posts, shown>>
        \/ /\ Goes(l, Down2, Down3) \/ Goes(l, Dog3, Dog4)
           /\ CloseLink(l) /\ UNCHANGED <<own, posts, shown>>
        \/ /\ Goes(l, Down3, Down4) \/ Goes(l, Dog4, Dog5)
           /\ Clear(i) /\ UNCHANGED <<link, posts, shown>>
        \/ /\ Goes(l, Down4, IF stopped[i] THEN Stop6 ELSE Lost1)
           /\ UNCHANGED <<own, link, posts, shown>>
        \/ /\ Goes(l, Dog5, Done)
           /\ Schedule(i) /\ UNCHANGED <<link, posts, shown>>
        \/ /\ Goes(l, Dog2, Dog3) \/ Goes(l, Lost1, Dog5)
           /\ posts' = Append(posts, "scanning") /\ UNCHANGED <<own, link, shown>>
        \/ /\ Goes(l, Sub2, Done)
           /\ posts' = Append(posts, "connected") /\ UNCHANGED <<own, link, shown>>
        \/ /\ Goes(l, Stop6, Done)
           /\ posts' = Append(posts, "idle") /\ UNCHANGED <<own, link, shown>>

\* The main thread is not a link, and no link is none.
LEMMA Names == Main \notin Links /\ None \notin Links
BY ControllerAssumption DEF Main, None, Links

LEMMA MainSteps ==
    ASSUME Types, Step(Main)
    PROVE  MainDoes /\ acting' = (IF todo'[Main] = Done THEN 1 ELSE acting) /\ UNCHANGED user
<1> USE DEF Goes, Report, Actor
<1>1. todo[Main] \in Stopping \cup Watching
  BY DEF Types, Step, Done
<1>2. acting' = (IF todo'[Main] = Done THEN 1 ELSE acting) /\ UNCHANGED user
  BY DEF Step, Done
<1>3. CASE todo[Main] = Stop1
  BY <1>2, <1>3, Places DEF Step, MainDoes, States, Done
<1>4. CASE todo[Main] = Stop2
  BY <1>2, <1>4, Places DEF Step, MainDoes, States, Done
<1>5. CASE todo[Main] = Stop3
  BY <1>2, <1>5, Places DEF Step, MainDoes, States, Done
<1>6. CASE todo[Main] = Stop4
  BY <1>2, <1>6, Places DEF Step, MainDoes, States, Done
<1>7. CASE todo[Main] = Stop5
  BY <1>2, <1>7, Places DEF Step, MainDoes, States, Done
<1>8. CASE todo[Main] = Stop6
  BY <1>2, <1>8, Places DEF Step, MainDoes, States, Done
<1>9. CASE todo[Main] = Dog1
  BY <1>2, <1>9, Places DEF Step, MainDoes, States, Done
<1>10. CASE todo[Main] = Dog2
  BY <1>2, <1>10, Places DEF Step, MainDoes, States, Done
<1>11. CASE todo[Main] = Dog3
  BY <1>2, <1>11, Places DEF Step, MainDoes, States, Done
<1>12. CASE todo[Main] = Dog4
  BY <1>2, <1>12, Places DEF Step, MainDoes, States, Done
<1>13. CASE todo[Main] = Dog5
  BY <1>2, <1>13, Places DEF Step, MainDoes, States, Done
<1> QED
  BY <1>1, <1>2, <1>3, <1>4, <1>5, <1>6, <1>7, <1>8, <1>9, <1>10, <1>11, <1>12, <1>13 DEF Stopping, Watching

LEMMA CallSteps ==
    ASSUME Types, NEW l \in Links, Step(l)
    PROVE  CallDoes(l) /\ acting' = (IF todo'[Main] = Done THEN 1 ELSE acting) /\ UNCHANGED user
<1> USE DEF Goes, Report, Actor
<1>1. todo[l] \in Calling /\ l # Main
  BY Names DEF Types, Step, Done
<1>2. acting' = (IF todo'[Main] = Done THEN 1 ELSE acting) /\ UNCHANGED user
  BY DEF Step, Done
<1>3. CASE todo[l] = Down1
  BY <1>1, <1>2, <1>3, Places DEF Step, CallDoes, States, Done
<1>4. CASE todo[l] = Down2
  BY <1>1, <1>2, <1>4, Places DEF Step, CallDoes, States, Done
<1>5. CASE todo[l] = Down3
  BY <1>1, <1>2, <1>5, Places DEF Step, CallDoes, States, Done
<1>6. CASE todo[l] = Down4
  BY <1>1, <1>2, <1>6, Places DEF Step, CallDoes, States, Done, Lost, Lost1, Stop6
<1>7. CASE todo[l] = Fail1
  BY <1>1, <1>2, <1>7, Places DEF Step, CallDoes, States, Done
<1>8. CASE todo[l] = Dog2
  BY <1>1, <1>2, <1>8, Places DEF Step, CallDoes, States, Done
<1>9. CASE todo[l] = Dog3
  BY <1>1, <1>2, <1>9, Places DEF Step, CallDoes, States, Done
<1>10. CASE todo[l] = Dog4
  BY <1>1, <1>2, <1>10, Places DEF Step, CallDoes, States, Done
<1>11. CASE todo[l] = Dog5
  BY <1>1, <1>2, <1>11, Places DEF Step, CallDoes, States, Done
<1>12. CASE todo[l] = Lost1
  BY <1>1, <1>2, <1>12, Places DEF Step, CallDoes, States, Done
<1>13. CASE todo[l] = Sub1
  BY <1>1, <1>2, <1>13, Places DEF Step, CallDoes, States, Done
<1>14. CASE todo[l] = Sub2
  BY <1>1, <1>2, <1>14, Places DEF Step, CallDoes, States, Done
<1>15. CASE todo[l] = Stop6
  BY <1>1, <1>2, <1>15, Places DEF Step, CallDoes, States, Done
<1> QED
  BY <1>1, <1>2, <1>3, <1>4, <1>5, <1>6, <1>7, <1>8, <1>9, <1>10, <1>11, <1>12, <1>13, <1>14, <1>15 DEF Calling, Retrying, Closed
----------------------------------------------------------------------------
(* Types *)

\* A linked controller: DoConnect chooses a link that nobody uses.
Linked(i, l) ==
    /\ Free(l)
    /\ link' = [link EXCEPT ![l] = [owner |-> i, st |-> "connecting"]]
    /\ gatt' = [gatt EXCEPT ![i] = l]
    /\ shown' = "connecting"
    /\ UNCHANGED <<gaveUp, faults>>

NotLinked(i) ==
    /\ shown' = "error" /\ faults' \in 0 .. Faults
    /\ gaveUp' = [gaveUp EXCEPT ![i] = TRUE]
    /\ UNCHANGED <<link, gatt>>

LEMMA ConnectCases ==
    ASSUME Types, NEW i \in Controllers, DoConnect(i)
    PROVE  (\E l \in Links : Linked(i, l)) \/ NotLinked(i)
BY ControllerAssumption DEF DoConnect, Linked, NotLinked, Fault, Types

\* What an attempt does: it is refused, scans, or connects.
Attempt(i) ==
    \/ /\ shown' = "error" /\ faults' \in 0 .. Faults
       /\ gaveUp' = [gaveUp EXCEPT ![i] = TRUE]
       /\ UNCHANGED <<scanning, scanTimer, link, gatt>>
    \/ /\ scanning' = [scanning EXCEPT ![i] = TRUE]
       /\ scanTimer' = [scanTimer EXCEPT ![i] = TRUE]
       /\ shown' = "scanning"
       /\ UNCHANGED <<link, gatt, gaveUp, faults>>
    \/ /\ \E l \in Links : Linked(i, l)
       /\ UNCHANGED <<scanning, scanTimer>>

LEMMA AttemptCases ==
    ASSUME Types, NEW i \in Controllers, ConnectOrScan(i)
    PROVE  Attempt(i)
BY ConnectCases DEF ConnectOrScan, Refuse, Scan, Attempt, NotLinked, Types

LEMMA FaultTyped == ASSUME Types, Fault PROVE faults' \in 0 .. Faults
BY ControllerAssumption DEF Fault, Types

\* A callback changes the state of its link, or takes on a body.
LEMMA BecomesTyped ==
    ASSUME Types, NEW l \in Links, NEW st \in LinkStates, Becomes(l, st)
    PROVE  /\ link' \in [Links -> [owner : Controllers, st : LinkStates]]
           /\ \A k \in Links : link'[k].owner = link[k].owner
           /\ link'[l].st = st
           /\ \A k \in Links : k # l => link'[k] = link[k]
<1>1. link[l] \in [owner : Controllers, st : LinkStates]
  BY DEF Types
<1>2. link' = [link EXCEPT ![l] = [link[l] EXCEPT !.st = st]]
  BY DEF Becomes
<1> QED
  BY <1>1, <1>2 DEF Types

LEMMA CloseTyped ==
    ASSUME Types, NEW t \in Links \cup {Main}, CloseLink(t)
    PROVE  LET c == IF t = Main THEN gatt[acting] ELSE t
           IN  /\ link' \in [Links -> [owner : Controllers, st : LinkStates]]
               /\ \A k \in Links : link'[k].owner = link[k].owner
               /\ \A k \in Links : link'[k].st = IF k = c THEN "closed" ELSE link[k].st
<1> DEFINE c == IF t = Main THEN gatt[acting] ELSE t
<1>1. link' = [k \in Links |-> IF k = c THEN [link[k] EXCEPT !.st = "closed"] ELSE link[k]]
  BY DEF CloseLink
<1> HIDE DEF c
<1>2. \A k \in Links : link[k] \in [owner : Controllers, st : LinkStates]
  BY DEF Types
<1>3. \A k \in Links : link'[k] \in [owner : Controllers, st : LinkStates]
  BY <1>1, <1>2 DEF LinkStates
<1>4. link' \in [Links -> [owner : Controllers, st : LinkStates]]
  BY <1>1, <1>3
<1>5. \A k \in Links : link'[k].owner = link[k].owner
  BY <1>1, <1>2
<1>6. \A k \in Links : link'[k].st = IF k = c THEN "closed" ELSE link[k].st
  BY <1>1, <1>2
<1> QED
  BY <1>4, <1>5, <1>6 DEF c

LEMMA InitTypes == ASSUME Init PROVE Types
<1>1. 1 \in Controllers /\ 0 \in 0 .. Faults /\ 0 \in 0 .. Starts /\ 0 \in 0 .. 0
  BY ControllerAssumption DEF Controllers
<1>2. link \in [Links -> [owner : Controllers, st : LinkStates]]
  BY <1>1 DEF Init, NoLink, LinkStates
<1>3. todo \in [Links \cup {Main} -> Stopping \cup Watching \cup Calling \cup {Done}]
  BY DEF Init, Done
<1>4. todo[Main] = Done /\ \A l \in Links : todo[l] = Done
  BY DEF Init, Done
<1>5. posts \in Seq(States) /\ shown \in States
  BY DEF Init, States
<1>6. /\ gatt \in [Controllers -> Links \cup {None}] /\ pending \in [Controllers -> Nat]
      /\ bt \in 0 .. started
  BY <1>1 DEF Init, None
<1>7. /\ stopped \in [Controllers -> BOOLEAN] /\ scanning \in [Controllers -> BOOLEAN]
      /\ cachedDevice \in [Controllers -> BOOLEAN] /\ cachedMtu \in [Controllers -> BOOLEAN]
      /\ watchdog \in [Controllers -> BOOLEAN] /\ scanTimer \in [Controllers -> BOOLEAN]
      /\ gaveUp \in [Controllers -> BOOLEAN]
  BY DEF Init
<1> QED
  BY <1>1, <1>2, <1>3, <1>4, <1>5, <1>6, <1>7 DEF Types, Init

\* Start makes the next controller, which is refused or scans.
Started(i) ==
    /\ MainIdle /\ bt = None /\ started < Starts
    /\ i = started + 1 /\ i \in Controllers
    /\ bt' = i /\ started' = i
    /\ \/ /\ shown' = "error"
          /\ gaveUp' = [gaveUp EXCEPT ![i] = TRUE]
          /\ UNCHANGED <<scanning, scanTimer, link, gatt, faults>>
       \/ /\ scanning' = [scanning EXCEPT ![i] = TRUE]
          /\ scanTimer' = [scanTimer EXCEPT ![i] = TRUE]
          /\ shown' = "scanning"
          /\ UNCHANGED <<link, gatt, gaveUp, faults>>
    /\ UNCHANGED <<overlap, bluetooth, stopped, cachedDevice, cachedMtu, watchdog, pending,
                   todo, acting, posts>>

LEMMA StartCases == ASSUME Types, Start PROVE Started(started + 1)
<1>1. started + 1 \in Controllers
  BY ControllerAssumption DEF Start, Types, Controllers
<1> QED
  BY <1>1 DEF Start, Started, Refuse, Scan

\* The steps, with the statements one by one.
LEMMA Steps ==
    ASSUME Types, [Next]_vars
    PROVE  \/ Started(started + 1) \/ Stop \/ Show \/ Switch
           \/ \E i \in Controllers : Found(i) \/ ScanTimeout(i) \/ Reconnect(i) \/ Watchdog(i)
                                     \/ ScanFailed(i)
           \/ \E l \in Links : Connected(l) \/ MtuChanged(l) \/ ServicesDiscovered(l)
                               \/ DescriptorWrite(l) \/ Disconnected(l) \/ LinkLost(l) \/ AnswerLost(l)
           \/ Step(Main) \/ \E l \in Links : Step(l)
           \/ UNCHANGED vars
BY StartCases DEF Next, OwnStep, Callback

\* Which variables the statements touch.
LEMMA MainTouches ==
    ASSUME MainDoes
    PROVE  /\ UNCHANGED <<cachedDevice, cachedMtu, scanTimer, gaveUp, posts>>
           /\ stopped' = stopped \/ stopped' = [stopped EXCEPT ![acting] = TRUE]
           /\ scanning' = scanning \/ scanning' = [scanning EXCEPT ![acting] = FALSE]
           /\ watchdog' = watchdog \/ watchdog' = [watchdog EXCEPT ![acting] = FALSE]
           /\ gatt' = gatt \/ gatt' = [gatt EXCEPT ![acting] = None]
           /\ pending' = pending \/ pending' = [pending EXCEPT ![acting] = @ + 1]
           /\ link' = link \/ CloseLink(Main)
           /\ shown' = shown \/ shown' \in {"idle", "scanning"}
BY DEF MainDoes, SetStopped, Cancel, StopScan, Clear, Schedule, own

LEMMA CallTouches ==
    ASSUME NEW l \in Links, CallDoes(l)
    PROVE  LET i == link[l].owner
           IN  /\ UNCHANGED <<stopped, scanning, cachedDevice, cachedMtu, scanTimer, gaveUp, shown>>
               /\ watchdog' = watchdog \/ watchdog' = [watchdog EXCEPT ![i] = FALSE]
               /\ gatt' = gatt \/ gatt' = [gatt EXCEPT ![i] = None]
               /\ pending' = pending \/ pending' = [pending EXCEPT ![i] = @ + 1]
               /\ link' = link \/ CloseLink(l)
               /\ posts' = posts
                  \/ \E s \in {"scanning", "connected", "idle"} : posts' = Append(posts, s)
BY DEF CallDoes, Cancel, Clear, Schedule, own

LEMMA CountTyped ==
    ASSUME pending \in [Controllers -> Nat], NEW i \in Controllers,
           \/ pending' = pending
           \/ pending' = [pending EXCEPT ![i] = @ + 1]
           \/ pending' = [pending EXCEPT ![i] = @ - 1] /\ pending[i] > 0
    PROVE  pending' \in [Controllers -> Nat]
OBVIOUS

LEMMA PostsTyped ==
    ASSUME posts \in Seq(States),
           posts' = posts \/ \E s \in States : posts' = Append(posts, s)
    PROVE  posts' \in Seq(States)
BY AppendProperties

LEMMA TypesStep == ASSUME Types, [Next]_vars PROVE Types'
<1> USE DEF user
<1>1. CASE Started(started + 1)
  <2>1. bt' \in 0 .. started' /\ started' \in 0 .. Starts
    BY <1>1, ControllerAssumption DEF Started, Types, Controllers
  <2>2. shown' \in States
    BY <1>1 DEF Started, States
  <2> QED
    BY <1>1, <2>1, <2>2 DEF Started, Types
<1>2. CASE Stop
  <2>1. bt' \in 0 .. started' /\ bt \in Controllers
    BY <1>2, ControllerAssumption DEF Stop, Types, Controllers, None
  <2>2. todo' = [todo EXCEPT ![Main] = Stop1]
    BY <1>2 DEF Stop, StopBody, Stop1
  <2> QED
    BY <1>2, <2>1, <2>2, Names DEF Stop, Types, own, Stopping
<1>3. CASE Show
  <2>1. posts' \in Seq(States) /\ shown' \in States
    BY <1>3, HeadTailProperties DEF Show, Types
  <2> QED
    BY <1>3, <2>1 DEF Show, Types, own
<1>4. CASE Switch
  <2>1. faults' \in 0 .. Faults
    BY <1>4, FaultTyped DEF Switch, Types
  <2>2. link' \in [Links -> [owner : Controllers, st : LinkStates]]
    <3>1. \A l \in Links : [link[l] EXCEPT !.st = "down"] \in [owner : Controllers, st : LinkStates]
      BY DEF Types, LinkStates
    <3> QED
      BY <1>4, <3>1 DEF Switch, Types
  <2> QED
    BY <1>4, <2>1, <2>2 DEF Switch, Types, own
<1>5. ASSUME NEW i \in Controllers, Found(i) PROVE Types'
  <2>1. CASE NotLinked(i)
    BY <1>5, <2>1 DEF Found, NotLinked, Types, States
  <2>2. ASSUME NEW l \in Links, Linked(i, l) PROVE Types'
    <3>1. link' \in [Links -> [owner : Controllers, st : LinkStates]]
      BY <2>2 DEF Linked, Types, LinkStates
    <3> QED
      BY <1>5, <2>2, <3>1 DEF Found, Linked, Types, States
  <2> QED
    BY <1>5, <2>1, <2>2, ConnectCases DEF Found
<1>6. ASSUME NEW i \in Controllers, ScanTimeout(i) PROVE Types'
  <2>1. faults' \in 0 .. Faults /\ shown' \in States
    BY <1>6, FaultTyped DEF ScanTimeout, Types, States
  <2>2. pending' \in [Controllers -> Nat]
    BY <1>6, CountTyped DEF ScanTimeout, Types
  <2>3. scanning' \in [Controllers -> BOOLEAN] /\ scanTimer' \in [Controllers -> BOOLEAN]
    BY <1>6 DEF ScanTimeout, Types
  <2> QED
    BY <1>6, <2>1, <2>2, <2>3 DEF ScanTimeout, Types
<1>7. ASSUME NEW i \in Controllers, Reconnect(i) PROVE Types'
  <2>1. pending' \in [Controllers -> Nat]
    BY <1>7, CountTyped DEF Reconnect, Types
  <2>2. UNCHANGED <<scanning, scanTimer, link, gatt, gaveUp, faults, shown>> \/ Attempt(i)
    BY <1>7, AttemptCases DEF Reconnect
  <2>3. /\ scanning' \in [Controllers -> BOOLEAN] /\ scanTimer' \in [Controllers -> BOOLEAN]
        /\ gaveUp' \in [Controllers -> BOOLEAN] /\ faults' \in 0 .. Faults /\ shown' \in States
    BY <2>2 DEF Attempt, Linked, Types, States
  <2>4. /\ link' \in [Links -> [owner : Controllers, st : LinkStates]]
        /\ gatt' \in [Controllers -> Links \cup {None}]
    <3>1. UNCHANGED <<link, gatt>> \/ \E l \in Links : Linked(i, l)
      BY <2>2 DEF Attempt
    <3>2. ASSUME NEW l \in Links, Linked(i, l)
          PROVE  /\ link' \in [Links -> [owner : Controllers, st : LinkStates]]
                 /\ gatt' \in [Controllers -> Links \cup {None}]
      BY <3>2 DEF Linked, Types, LinkStates
    <3> QED
      BY <3>1, <3>2 DEF Types
  <2> QED
    BY <1>7, <2>1, <2>3, <2>4 DEF Reconnect, Types
<1>8. ASSUME NEW i \in Controllers, Watchdog(i) PROVE Types'
  <2>1. faults' \in 0 .. Faults
    BY <1>8, FaultTyped DEF Watchdog, Types
  <2>2. todo' = [todo EXCEPT ![Main] = Dog1]
    BY <1>8 DEF Watchdog, WatchdogBody, Dog1
  <2> QED
    BY <1>8, <2>1, <2>2, Names DEF Watchdog, Types, Watching
<1>9. ASSUME NEW i \in Controllers, ScanFailed(i) PROVE Types'
  BY <1>9, FaultTyped DEF ScanFailed, Types, States
<1>10. ASSUME NEW l \in Links, Connected(l) PROVE Types'
  <2>1. link' \in [Links -> [owner : Controllers, st : LinkStates]]
    BY <1>10, BecomesTyped DEF Connected, LinkStates
  <2> QED
    BY <1>10, <2>1 DEF Connected, Types, own
<1>11. ASSUME NEW l \in Links, MtuChanged(l) PROVE Types'
  <2>1. link' \in [Links -> [owner : Controllers, st : LinkStates]]
    BY <1>11, BecomesTyped DEF MtuChanged, LinkStates
  <2>2. faults' \in 0 .. Faults /\ cachedMtu' \in [Controllers -> BOOLEAN]
    BY <1>11, FaultTyped DEF MtuChanged, Types
  <2> QED
    BY <1>11, <2>1, <2>2 DEF MtuChanged, Types
<1>12. ASSUME NEW l \in Links, ServicesDiscovered(l) PROVE Types'
  <2>1. link' \in [Links -> [owner : Controllers, st : LinkStates]]
    BY <1>12, BecomesTyped DEF ServicesDiscovered, LinkStates
  <2>2. faults' \in 0 .. Faults /\ posts' \in Seq(States)
    <3>1. faults' \in 0 .. Faults
      BY <1>12, FaultTyped DEF ServicesDiscovered, Types
    <3>2. posts' = posts \/ posts' = Append(posts, "error")
      BY <1>12 DEF ServicesDiscovered
    <3> QED
      BY <3>1, <3>2, PostsTyped DEF Types, States
  <2>3. watchdog' \in [Controllers -> BOOLEAN] /\ gaveUp' \in [Controllers -> BOOLEAN]
    BY <1>12 DEF ServicesDiscovered, Types
  <2> QED
    BY <1>12, <2>1, <2>2, <2>3 DEF ServicesDiscovered, Types
<1>13. ASSUME NEW l \in Links, DescriptorWrite(l) PROVE Types'
  <2>1. link' \in [Links -> [owner : Controllers, st : LinkStates]]
    BY <1>13, BecomesTyped DEF DescriptorWrite, LinkStates
  <2>2. faults' \in 0 .. Faults
    BY <1>13, FaultTyped DEF DescriptorWrite, Types
  <2>3. \/ todo' = [todo EXCEPT ![l] = Sub1]
        \/ todo' = [todo EXCEPT ![l] = Fail1]
        \/ todo' = todo
    BY <1>13 DEF DescriptorWrite, Body, SubscribedBody, WriteFailedBody, Sub1, Fail1
  <2> QED
    BY <1>13, <2>1, <2>2, <2>3, Names DEF DescriptorWrite, Types, own, Calling, Retrying
<1>14. ASSUME NEW l \in Links, Disconnected(l) PROVE Types'
  <2>1. link' \in [Links -> [owner : Controllers, st : LinkStates]]
    BY <1>14, BecomesTyped DEF Disconnected, LinkStates
  <2>2. todo' = [todo EXCEPT ![l] = Down1]
    BY <1>14 DEF Disconnected, Body, DisconnectedBody, Down1
  <2> QED
    BY <1>14, <2>1, <2>2, Names DEF Disconnected, Types, Calling, Retrying
<1>15. ASSUME NEW l \in Links, LinkLost(l) \/ AnswerLost(l) PROVE Types'
  <2>1. link' \in [Links -> [owner : Controllers, st : LinkStates]]
    BY <1>15, BecomesTyped DEF LinkLost, AnswerLost, LinkStates
  <2> QED
    BY <1>15, <2>1, FaultTyped DEF LinkLost, AnswerLost, Types, own
<1>16. CASE Step(Main)
  <2>1. MainDoes /\ acting' = (IF todo'[Main] = Done THEN 1 ELSE acting) /\ UNCHANGED user
    BY <1>16, MainSteps
  <2>2. todo' \in [Links \cup {Main} -> Stopping \cup Watching \cup Calling \cup {Done}]
        /\ todo'[Main] \in Stopping \cup Watching \cup {Done}
        /\ \A l \in Links : todo'[l] = todo[l]
    BY <2>1, Names DEF MainDoes, Goes, Types, Stopping, Watching
  <2>3. link' \in [Links -> [owner : Controllers, st : LinkStates]]
    BY <2>1, MainTouches, CloseTyped DEF Types
  <2>4. /\ gatt' \in [Controllers -> Links \cup {None}] /\ pending' \in [Controllers -> Nat]
        /\ stopped' \in [Controllers -> BOOLEAN] /\ scanning' \in [Controllers -> BOOLEAN]
        /\ watchdog' \in [Controllers -> BOOLEAN]
        /\ UNCHANGED <<cachedDevice, cachedMtu, scanTimer, gaveUp>>
    <3>1. pending' \in [Controllers -> Nat]
      BY <2>1, MainTouches, CountTyped DEF Types
    <3>2. acting \in Controllers
      BY DEF Types
    <3>3. gatt' \in [Controllers -> Links \cup {None}]
      BY <2>1, MainTouches DEF Types
    <3>4. stopped' \in [Controllers -> BOOLEAN]
      <4>1. stopped' = stopped \/ stopped' = [stopped EXCEPT ![acting] = TRUE]
        BY <2>1, MainTouches
      <4> QED
        BY <3>2, <4>1 DEF Types
    <3>5. scanning' \in [Controllers -> BOOLEAN]
      <4>1. scanning' = scanning \/ scanning' = [scanning EXCEPT ![acting] = FALSE]
        BY <2>1, MainTouches
      <4> QED
        BY <3>2, <4>1 DEF Types
    <3>6. watchdog' \in [Controllers -> BOOLEAN]
      <4>1. watchdog' = watchdog \/ watchdog' = [watchdog EXCEPT ![acting] = FALSE]
        BY <2>1, MainTouches
      <4> QED
        BY <3>2, <4>1 DEF Types
    <3> QED
      BY <2>1, <3>1, <3>3, <3>4, <3>5, <3>6, MainTouches
  <2>5. posts' = posts /\ shown' \in States /\ acting' \in Controllers
    <3>1. 1 \in Controllers
      BY ControllerAssumption DEF Controllers
    <3> QED
      BY <2>1, <3>1, MainTouches DEF Types, States
  <2> QED
    BY <2>1, <2>2, <2>3, <2>4, <2>5 DEF Types
<1>17. ASSUME NEW l \in Links, Step(l) PROVE Types'
  <2>1. CallDoes(l) /\ acting' = (IF todo'[Main] = Done THEN 1 ELSE acting) /\ UNCHANGED user
    BY <1>17, CallSteps
  <2>2. todo' \in [Links \cup {Main} -> Stopping \cup Watching \cup Calling \cup {Done}]
        /\ todo'[Main] = todo[Main]
        /\ \A k \in Links : todo'[k] \in Calling \cup {Done}
    <3>1. \E to \in Calling \cup {Done} : todo' = [todo EXCEPT ![l] = to]
      BY <2>1 DEF CallDoes, Goes, Calling, Retrying, Closed
    <3> QED
      BY <3>1, Names DEF Types
  <2>3. link' \in [Links -> [owner : Controllers, st : LinkStates]]
    BY <2>1, CallTouches, CloseTyped DEF Types
  <2>4. /\ gatt' \in [Controllers -> Links \cup {None}] /\ pending' \in [Controllers -> Nat]
        /\ watchdog' \in [Controllers -> BOOLEAN]
        /\ UNCHANGED <<stopped, scanning, cachedDevice, cachedMtu, scanTimer, gaveUp, shown>>
    <3>1. link[l].owner \in Controllers
      BY DEF Types
    <3>2. pending' \in [Controllers -> Nat]
      BY <2>1, <3>1, CallTouches, CountTyped DEF Types
    <3> QED
      BY <2>1, <3>1, <3>2, CallTouches DEF Types
  <2>5. posts' \in Seq(States)
    <3>1. posts' = posts \/ \E s \in States : posts' = Append(posts, s)
      BY <2>1, CallTouches DEF States
    <3> QED
      BY <3>1, PostsTyped DEF Types
  <2>6. acting' \in Controllers
    BY <2>1, ControllerAssumption DEF Types, Controllers
  <2> QED
    BY <2>1, <2>2, <2>3, <2>4, <2>5, <2>6 DEF Types
<1>18. CASE UNCHANGED vars
  BY <1>18 DEF Types, vars, own
<1> QED
  BY <1>1, <1>2, <1>3, <1>4, <1>5, <1>6, <1>7, <1>8, <1>9, <1>10, <1>11, <1>12, <1>13, <1>14,
     <1>15, <1>16, <1>17, <1>18, Steps
----------------------------------------------------------------------------
(* Controllers and links that were made *)

\* The types that the steps below need.
Shape ==
    /\ started \in Nat /\ Controllers \subseteq Nat
    /\ stopped \in [Controllers -> BOOLEAN] /\ scanning \in [Controllers -> BOOLEAN]
    /\ watchdog \in [Controllers -> BOOLEAN]
    /\ gatt \in [Controllers -> Links \cup {None}] /\ pending \in [Controllers -> Nat]
    /\ DOMAIN link = Links /\ \A l \in Links : link[l].owner \in Controllers
    /\ DOMAIN todo = Links \cup {Main} /\ Main \notin Links /\ None \notin Links

LEMMA Shapes == ASSUME Types PROVE Shape
BY Names DEF Types, Shape, Controllers

\* What connectGatt, a lost link and so on do to the links.
LEMMA LinkedLinks ==
    ASSUME Shape, NEW i \in Controllers, NEW l \in Links, Linked(i, l)
    PROVE  /\ link'[l].owner = i /\ link'[l].st = "connecting" /\ gatt'[i] = l
           /\ \A k \in Links : k # l => link'[k] = link[k]
           /\ \A j \in Controllers : j # i => gatt'[j] = gatt[j]
           /\ \A j \in Controllers : gatt[j] # l
BY DEF Shape, Linked, Free

LEMMA SwitchLinks ==
    ASSUME Types, Switch
    PROVE  \A l \in Links :
              /\ link'[l].owner = link[l].owner
              /\ link'[l] = link[l]
                 \/ (Open(l) /\ link[l].st # "gone" /\ link'[l].st = "down")
BY DEF Types, Switch

LEMMA InitMade == ASSUME Init PROVE Made /\ StateFits
<1>1. Made
  BY DEF Init, Made, OnlyMade, LinksMade, GattMade, NoLink, Done, None
<1>2. \A l \in Links : todo[l] = Done
  BY DEF Init, Done
<1>3. StateFits
  BY <1>2, NoBody DEF StateFits, Fits, Calling, Retrying
<1> QED
  BY <1>1, <1>3

LEMMA OnlyMadeStep == ASSUME Types, Made, [Next]_vars PROVE OnlyMade'
<1>0. Shape /\ OnlyMade
  BY Shapes DEF Made
<1>1. CASE Started(started + 1)
  <2>1. PICK n \in Controllers :
            /\ n = started + 1 /\ started' = n
            /\ scanning' = scanning \/ scanning' = [scanning EXCEPT ![n] = TRUE]
            /\ UNCHANGED <<stopped, watchdog, pending>>
    BY <1>1 DEF Started
  <2>2. \A j \in Controllers : j > n => j > started
    BY <1>0, <2>1 DEF Shape
  <2> QED
    BY <1>0, <2>1, <2>2 DEF OnlyMade, Shape
<1>2. CASE Stop \/ Show \/ Switch \/ UNCHANGED vars
  <2>1. UNCHANGED <<started, stopped, scanning, watchdog, pending>>
    BY <1>2 DEF Stop, Show, Switch, own, user, vars
  <2> QED
    BY <1>0, <2>1 DEF OnlyMade
<1>3. ASSUME NEW i \in Controllers,
             Found(i) \/ ScanTimeout(i) \/ ScanFailed(i) \/ Watchdog(i)
      PROVE OnlyMade'
  <2>1. /\ UNCHANGED <<started, stopped>>
        /\ scanning' = scanning \/ scanning' = [scanning EXCEPT ![i] = FALSE]
        /\ watchdog' = watchdog \/ watchdog' = [watchdog EXCEPT ![i] = FALSE]
        /\ pending' = pending \/ (pending' = [pending EXCEPT ![i] = @ + 1] /\ scanning[i])
    BY <1>3 DEF Found, ScanTimeout, ScanFailed, Watchdog
  <2> QED
    BY <1>0, <2>1 DEF OnlyMade, Shape
<1>4. ASSUME NEW i \in Controllers, Reconnect(i) PROVE OnlyMade'
  <2>1. UNCHANGED <<started, stopped, watchdog>> /\ pending' = [pending EXCEPT ![i] = @ - 1]
        /\ pending[i] > 0
    BY <1>4 DEF Reconnect
  <2>2. scanning' = scanning \/ scanning' = [scanning EXCEPT ![i] = TRUE]
    BY <1>4, AttemptCases DEF Reconnect, Attempt
  <2> QED
    BY <1>0, <2>1, <2>2 DEF OnlyMade, Shape
<1>5. ASSUME NEW l \in Links,
             Connected(l) \/ MtuChanged(l) \/ ServicesDiscovered(l) \/ DescriptorWrite(l)
             \/ Disconnected(l) \/ LinkLost(l) \/ AnswerLost(l)
      PROVE OnlyMade'
  <2>1. /\ UNCHANGED <<started, stopped, scanning, pending>>
        /\ \/ watchdog' = watchdog
           \/ watchdog' = [watchdog EXCEPT ![link[l].owner] = TRUE] /\ link[l].st = "services"
    BY <1>5 DEF Connected, MtuChanged, ServicesDiscovered, DescriptorWrite, Disconnected,
       LinkLost, AnswerLost, own, user, Calls
  <2>2. link[l].st = "services" => link[l].owner <= started
    BY DEF Made, LinksMade
  <2> QED
    BY <1>0, <2>1, <2>2 DEF OnlyMade, Shape
<1>6. CASE Step(Main)
  <2>1. acting \in Controllers /\ acting <= started /\ started' = started
    BY <1>6, MainSteps, Places DEF Made, Types, Step, Done, user
  <2> QED
    <3>0. PICK a \in Controllers : a = acting
      BY <2>1
    <3>1. /\ stopped' = stopped \/ stopped' = [stopped EXCEPT ![a] = TRUE]
          /\ scanning' = scanning \/ scanning' = [scanning EXCEPT ![a] = FALSE]
          /\ watchdog' = watchdog \/ watchdog' = [watchdog EXCEPT ![a] = FALSE]
          /\ pending' = pending \/ pending' = [pending EXCEPT ![a] = @ + 1]
      BY <1>6, <3>0, MainSteps, MainTouches
    <3>2. \A i \in Controllers : i # a =>
            /\ stopped'[i] = stopped[i] /\ scanning'[i] = scanning[i]
            /\ watchdog'[i] = watchdog[i] /\ pending'[i] = pending[i]
      BY <1>0, <3>1 DEF Shape
    <3> SUFFICES ASSUME NEW i \in Controllers, i > started
        PROVE  ~stopped'[i] /\ ~scanning'[i] /\ ~watchdog'[i] /\ pending'[i] = 0
      BY <2>1 DEF OnlyMade
    <3>3. i # a
      BY <1>0, <2>1, <3>0 DEF Shape
    <3> QED
      BY <1>0, <3>2, <3>3 DEF OnlyMade
<1>7. ASSUME NEW l \in Links, Step(l) PROVE OnlyMade'
  <2>1. link[l].owner <= started /\ started' = started
    BY <1>7, CallSteps DEF Made, LinksMade, Step, Done, user
  <2> QED
    BY <1>0, <1>7, <2>1, CallSteps, CallTouches DEF OnlyMade, Shape
<1> QED
  BY <1>1, <1>2, <1>3, <1>4, <1>5, <1>6, <1>7, Steps

\* What a callback does, or the loss of the link: its state changes, and its
\* thread takes on a body or stays as it is.
Turns(l, from, to, body) ==
    /\ link[l].st = from /\ link'[l].st = to
    /\ todo' = [todo EXCEPT ![l] = body]

Called(l) ==
    /\ todo[l] = Done /\ Open(l) /\ (AtRest \/ MayCall)
    /\ \A k \in Links : link'[k].owner = link[k].owner
    /\ \A k \in Links : k # l => link'[k] = link[k]
    /\ UNCHANGED <<overlap, bt, started, stopped, scanning, pending, gatt, acting, shown>>
    /\ \/ /\ \/ Turns(l, "connecting", "mtu", Done) \/ Turns(l, "connecting", "services", Done)
             \/ Turns(l, "mtu", "services", Done) \/ Turns(l, "cccd", "silent", Done)
             \/ Turns(l, "cccd", "subscribed", Sub1) \/ Turns(l, "cccd", "useless", Fail1)
             \/ Turns(l, "mtu", "stuck", Done) \/ Turns(l, "services", "stuck", Done)
             \/ Turns(l, "down", "gone", Down1)
             \/ AtRest /\ Turns(l, link[l].st, "down", Done)
          /\ UNCHANGED <<watchdog, posts>>
       \/ /\ Turns(l, "services", "cccd", Done)
          /\ watchdog' = [watchdog EXCEPT ![link[l].owner] = TRUE] /\ UNCHANGED posts
       \/ /\ Turns(l, "services", "useless", Done)
          /\ posts' = Append(posts, "error") /\ UNCHANGED watchdog

LEMMA CallbackCases ==
    ASSUME Types, NEW l \in Links,
           Connected(l) \/ MtuChanged(l) \/ ServicesDiscovered(l) \/ DescriptorWrite(l)
           \/ Disconnected(l) \/ LinkLost(l) \/ AnswerLost(l)
    PROVE  Called(l)
<1> USE DEF Turns, own, user
<1>0. \A b : Body(l, b) => todo' = [todo EXCEPT ![l] = b]
  BY DEF Body
<1>1. todo[l] = Done => todo = [todo EXCEPT ![l] = Done]
  BY DEF Types
<1>2. CASE Connected(l)
  <2>1. /\ todo[l] = Done /\ MayCall /\ link[l].st = "connecting"
        /\ Becomes(l, "services") \/ Becomes(l, "mtu")
        /\ UNCHANGED <<overlap, bt, started, stopped, scanning, pending, gatt, acting, shown,
                       watchdog, posts, todo>>
    BY <1>2 DEF Connected, Calls, Done
  <2> QED
    BY <1>1, <2>1, BecomesTyped DEF LinkStates, Called, Open
<1>3. CASE MtuChanged(l)
  <2>1. /\ todo[l] = Done /\ MayCall /\ link[l].st = "mtu" /\ Becomes(l, "services")
        /\ UNCHANGED <<overlap, bt, started, stopped, scanning, pending, gatt, acting, shown,
                       watchdog, posts, todo>>
    BY <1>3 DEF MtuChanged, Calls, Done
  <2> QED
    BY <1>1, <2>1, BecomesTyped DEF LinkStates, Called, Open
<1>4. CASE ServicesDiscovered(l)
  <2>1. /\ todo[l] = Done /\ MayCall /\ link[l].st = "services"
        /\ \/ /\ Becomes(l, "cccd")
              /\ watchdog' = [watchdog EXCEPT ![link[l].owner] = TRUE] /\ UNCHANGED posts
           \/ Becomes(l, "useless") /\ posts' = Append(posts, "error") /\ UNCHANGED watchdog
        /\ UNCHANGED <<overlap, bt, started, stopped, scanning, pending, gatt, acting, shown,
                       todo>>
    BY <1>4 DEF ServicesDiscovered, Calls, Done
  <2> QED
    BY <1>1, <2>1, BecomesTyped DEF LinkStates, Called, Open
<1>5. CASE DescriptorWrite(l)
  <2>1. /\ todo[l] = Done /\ MayCall /\ link[l].st = "cccd"
        /\ \/ Becomes(l, "subscribed") /\ todo' = [todo EXCEPT ![l] = Sub1]
           \/ Becomes(l, "useless") /\ todo' = [todo EXCEPT ![l] = Fail1]
           \/ Becomes(l, "silent") /\ UNCHANGED todo
        /\ UNCHANGED <<overlap, bt, started, stopped, scanning, pending, gatt, acting, shown,
                       watchdog, posts>>
    BY <1>0, <1>5
    DEF DescriptorWrite, Calls, Done, SubscribedBody, WriteFailedBody, Sub1, Fail1
  <2> QED
    BY <1>1, <2>1, BecomesTyped DEF LinkStates, Called, Open
<1>6. CASE Disconnected(l)
  <2>1. /\ todo[l] = Done /\ MayCall /\ link[l].st = "down"
        /\ Becomes(l, "gone") /\ todo' = [todo EXCEPT ![l] = Down1]
        /\ UNCHANGED <<overlap, bt, started, stopped, scanning, pending, gatt, acting, shown,
                       watchdog, posts>>
    BY <1>0, <1>6 DEF Disconnected, Calls, Done, DisconnectedBody, Down1
  <2> QED
    BY <1>1, <2>1, BecomesTyped DEF LinkStates, Called, Open
<1>7. CASE LinkLost(l)
  <2>1. /\ todo[l] = Done /\ AtRest /\ Open(l) /\ Becomes(l, "down")
        /\ UNCHANGED <<overlap, bt, started, stopped, scanning, pending, gatt, acting, shown,
                       watchdog, posts, todo>>
    BY <1>7 DEF LinkLost, AtRest, Done
  <2> QED
    BY <1>1, <2>1, BecomesTyped DEF LinkStates, Called
<1>8. CASE AnswerLost(l)
  <2>1. /\ todo[l] = Done /\ AtRest /\ link[l].st \in {"mtu", "services"} /\ Becomes(l, "stuck")
        /\ UNCHANGED <<overlap, bt, started, stopped, scanning, pending, gatt, acting, shown,
                       watchdog, posts, todo>>
    BY <1>8 DEF AnswerLost, AtRest, Done
  <2> QED
    BY <1>1, <2>1, BecomesTyped DEF LinkStates, Called, Open
<1> QED
  BY <1>2, <1>3, <1>4, <1>5, <1>6, <1>7, <1>8

\* The links keep their owners, and no link is made.
LEMMA LinksKept ==
    ASSUME Shape, LinksMade, GattMade, started' \in Nat, started <= started',
           \A l \in Links :
               /\ link'[l].owner = link[l].owner /\ (link'[l].st = "none" <=> link[l].st = "none")
               /\ todo[l] = Done /\ link[l].st = "none" => todo'[l] = Done,
           \A i \in Controllers : gatt'[i] \in {gatt[i], None}
    PROVE  LinksMade' /\ GattMade'
<1>1. LinksMade'
  <2> SUFFICES ASSUME NEW l \in Links
      PROVE  /\ link'[l].st # "none" => link'[l].owner <= started'
             /\ todo'[l] # Done => link'[l].st # "none"
    BY DEF LinksMade
  <2>1. link[l].owner \in Nat /\ started \in Nat
    BY DEF Shape
  <2>2. link'[l].owner = link[l].owner /\ (link'[l].st = "none" <=> link[l].st = "none")
    OBVIOUS
  <2>3. link[l].st # "none" => link[l].owner <= started
    BY DEF LinksMade
  <2>4. link[l].st = "none" => todo'[l] = Done
    BY DEF LinksMade
  <2> QED
    BY <2>1, <2>2, <2>3, <2>4
<1>2. GattMade'
  <2> SUFFICES ASSUME NEW i \in Controllers, gatt'[i] # None
      PROVE  link'[gatt'[i]].st # "none" /\ link'[gatt'[i]].owner = i
    BY DEF GattMade
  <2>1. gatt'[i] = gatt[i] /\ gatt[i] \in Links
    BY DEF Shape
  <2>2. link[gatt[i]].st # "none" /\ link[gatt[i]].owner = i
    BY <2>1 DEF GattMade
  <2> QED
    BY <2>1, <2>2
<1> QED
  BY <1>1, <1>2

LEMMA LinksMadeStep == ASSUME Types, Made, [Next]_vars PROVE LinksMade' /\ GattMade'
<1>0. Shape /\ OnlyMade /\ LinksMade /\ GattMade
  BY Shapes DEF Made
<1> USE DEF LinksMade, GattMade
<1>1. CASE Started(started + 1)
  <2>1. UNCHANGED <<link, gatt, todo>> /\ started' \in Nat /\ started <= started'
    BY <1>0, <1>1 DEF Started, Shape
  <2> QED
    BY <1>0, <2>1, LinksKept
<1>2. CASE Stop
  BY <1>0, <1>2, Names DEF Stop, Shape, own
<1>3. CASE Show \/ UNCHANGED vars
  BY <1>0, <1>3 DEF Show, own, user, vars
<1>4. CASE Switch
  <2>1. UNCHANGED <<started, todo, gatt>>
    BY <1>4 DEF Switch, own
  <2>2. \A l \in Links :
          link'[l].owner = link[l].owner /\ (link'[l].st = "none" <=> link[l].st = "none")
    BY <1>4, SwitchLinks DEF Open
  <2> QED
    BY <1>0, <2>1, <2>2 DEF Shape
<1>5. ASSUME NEW i \in Controllers, ScanTimeout(i) \/ ScanFailed(i)
      PROVE LinksMade' /\ GattMade'
  BY <1>0, <1>5 DEF ScanTimeout, ScanFailed, Shape
<1>6. ASSUME NEW i \in Controllers, Watchdog(i) PROVE LinksMade' /\ GattMade'
  BY <1>0, <1>6, Names DEF Watchdog, Shape
<1>7. ASSUME NEW i \in Controllers, NEW l \in Links, Linked(i, l), scanning[i] \/ pending[i] > 0,
             UNCHANGED <<started, todo>>
      PROVE LinksMade' /\ GattMade'
  <2>1. i <= started
    BY <1>0, <1>7 DEF OnlyMade, Shape
  <2> QED
    BY <1>0, <1>7, <2>1, LinkedLinks DEF Shape
<1>8. ASSUME NEW i \in Controllers, Found(i) \/ Reconnect(i) PROVE LinksMade' /\ GattMade'
  <2>1. scanning[i] \/ pending[i] > 0
    BY <1>8 DEF Found, Reconnect
  <2>2. UNCHANGED <<link, gatt>> \/ \E l \in Links : Linked(i, l)
    BY <1>8, ConnectCases, AttemptCases DEF Found, Reconnect, NotLinked, Attempt
  <2>3. UNCHANGED <<started, todo>>
    BY <1>8 DEF Found, Reconnect
  <2> QED
    BY <1>0, <1>7, <2>1, <2>2, <2>3
<1>9. ASSUME NEW l \in Links, Called(l) PROVE LinksMade' /\ GattMade'
  <2>1. link'[l].st # "none" /\ link[l].st # "none" /\ UNCHANGED <<started, gatt>>
    BY <1>9 DEF Called, Turns, Open
  <2>2. \A k \in Links : k # l => todo'[k] = todo[k]
    BY <1>0, <1>9 DEF Called, Turns, Shape
  <2>3. \A k \in Links :
          link'[k].owner = link[k].owner /\ (link'[k].st = "none" <=> link[k].st = "none")
    BY <1>9, <2>1 DEF Called
  <2> QED
    BY <1>0, <2>1, <2>2, <2>3 DEF Shape
<1>10. CASE Step(Main)
  <2>1. /\ started' = started /\ \A l \in Links : todo'[l] = todo[l]
        /\ gatt' = gatt \/ gatt' = [gatt EXCEPT ![acting] = None]
        /\ link' = link \/ CloseLink(Main)
    BY <1>0, <1>10, MainSteps, MainTouches DEF user, Step, Shape
  <2>2. \A l \in Links :
          link'[l].owner = link[l].owner /\ (link'[l].st = "none" <=> link[l].st = "none")
    <3>1. acting \in Controllers
      BY DEF Types
    <3>2. CASE CloseLink(Main)
      BY <1>0, <3>1, <3>2, CloseTyped DEF Shape
    <3> QED
      BY <2>1, <3>2
  <2>3. started \in Nat /\ \A i \in Controllers : gatt'[i] \in {gatt[i], None}
    BY <1>0, <2>1 DEF Shape
  <2> QED
    BY <1>0, <2>1, <2>2, <2>3, LinksKept
<1>11. ASSUME NEW l \in Links, Step(l) PROVE LinksMade' /\ GattMade'
  <2>1. /\ started' = started /\ \A k \in Links : k # l => todo'[k] = todo[k]
        /\ gatt' = gatt \/ gatt' = [gatt EXCEPT ![link[l].owner] = None]
        /\ link' = link \/ CloseLink(l)
        /\ todo[l] # Done
    BY <1>0, <1>11, CallSteps, CallTouches DEF user, Step, Shape, Done
  <2>2. \A k \in Links :
          link'[k].owner = link[k].owner /\ (link'[k].st = "none" <=> link[k].st = "none")
    <3>1. CASE CloseLink(l)
      BY <1>0, <2>1, <3>1, CloseTyped DEF Shape
    <3> QED
      BY <2>1, <3>1
  <2> QED
    BY <1>0, <2>1, <2>2 DEF Shape
<1> QED
  BY <1>1, <1>2, <1>3, <1>4, <1>5, <1>6, <1>8, <1>9, <1>10, <1>11, Steps, CallbackCases

LEMMA MadeStep == ASSUME Types, Made, [Next]_vars PROVE Made'
<1>1. todo'[Main] # Done => acting' <= started'
  <2>0. Shape /\ Types
    BY Shapes
  <2>1. CASE Started(started + 1)
    BY <2>0, <2>1 DEF Started, Made, Shape, MainIdle, Done
  <2>2. CASE Stop
    BY <2>2 DEF Stop, Types
  <2>3. CASE Show \/ Switch \/ UNCHANGED vars
    BY <2>3 DEF Show, Switch, Made, user, vars
  <2>4. ASSUME NEW i \in Controllers, Found(i) \/ ScanTimeout(i) \/ Reconnect(i) \/ ScanFailed(i)
        PROVE todo'[Main] # Done => acting' <= started'
    BY <2>4 DEF Found, ScanTimeout, Reconnect, ScanFailed, Made
  <2>5. ASSUME NEW i \in Controllers, Watchdog(i)
        PROVE todo'[Main] # Done => acting' <= started'
    BY <2>0, <2>5 DEF Watchdog, Made, OnlyMade, Shape
  <2>6. ASSUME NEW l \in Links, Called(l) PROVE todo'[Main] # Done => acting' <= started'
    BY <2>0, <2>6 DEF Called, Turns, Made, Shape
  <2>7. CASE Step(Main)
    BY <2>7, MainSteps DEF Made, Step, Done, user
  <2>8. ASSUME NEW l \in Links, Step(l) PROVE todo'[Main] # Done => acting' <= started'
    BY <2>0, <2>8, CallSteps DEF Made, Step, Shape, user
  <2> QED
    BY <2>1, <2>2, <2>3, <2>4, <2>5, <2>6, <2>7, <2>8, Steps, CallbackCases
<1> QED
  BY <1>1, OnlyMadeStep, LinksMadeStep DEF Made

\* A thread whose body is not touched, of a link that is not or that is closed.
LEMMA FitsKept ==
    ASSUME StateFits, NEW l \in Links, todo'[l] = todo[l],
           link'[l] = link[l] \/ link'[l].st = "closed"
    PROVE  Fits(l)'
BY DEF StateFits, Fits, Open

LEMMA StateFitsStep == ASSUME Types, Made, StateFits, [Next]_vars PROVE StateFits'
<1>0. Shape
  BY Shapes
<1>1. CASE \A l \in Links :
             todo'[l] = todo[l] /\ (link'[l] = link[l] \/ link'[l].st = "closed")
  BY <1>1, FitsKept DEF StateFits
<1>2. CASE Started(started + 1) \/ Show \/ UNCHANGED vars
  BY <1>1, <1>2 DEF Started, Show, own, vars
<1>3. CASE Stop
  <2>1. link' = link /\ \A l \in Links : todo'[l] = todo[l]
    BY <1>0, <1>3 DEF Stop, Shape
  <2> QED
    BY <1>1, <2>1
<1>4. CASE Switch
  <2>1. \A l \in Links : todo'[l] = Done
    BY <1>4 DEF Switch, AtRest, Done
  <2> QED
    BY <2>1, NoBody DEF StateFits, Fits, Calling, Retrying
<1>5. ASSUME NEW i \in Controllers, ScanTimeout(i) \/ ScanFailed(i) PROVE StateFits'
  BY <1>1, <1>5 DEF ScanTimeout, ScanFailed
<1>6. ASSUME NEW i \in Controllers, Watchdog(i) PROVE StateFits'
  <2>1. link' = link /\ \A l \in Links : todo'[l] = todo[l]
    BY <1>0, <1>6 DEF Watchdog, Shape
  <2> QED
    BY <1>1, <2>1
<1>7. ASSUME NEW i \in Controllers, NEW l \in Links, Linked(i, l), UNCHANGED todo
      PROVE StateFits'
  <2>1. todo'[l] = Done
    BY <1>7 DEF Linked, Free, Done
  <2>2. Fits(l)'
    BY <2>1, NoBody DEF Fits, Calling, Retrying
  <2>3. \A k \in Links : k # l => Fits(k)'
    BY <1>0, <1>7, LinkedLinks, FitsKept
  <2> QED
    BY <2>2, <2>3 DEF StateFits
<1>8. ASSUME NEW i \in Controllers, Found(i) \/ Reconnect(i) PROVE StateFits'
  <2>1. UNCHANGED link \/ \E l \in Links : Linked(i, l)
    BY <1>8, ConnectCases, AttemptCases DEF Found, Reconnect, NotLinked, Attempt
  <2>2. UNCHANGED todo
    BY <1>8 DEF Found, Reconnect
  <2> QED
    BY <1>1, <1>7, <2>1, <2>2
<1>9. ASSUME NEW l \in Links, Called(l) PROVE StateFits'
  <2>1. \A k \in Links : k # l => todo'[k] = todo[k] /\ link'[k] = link[k]
    BY <1>0, <1>9 DEF Called, Turns, Shape
  <2>2. \/ todo'[l] = Done
        \/ todo'[l] = Sub1 /\ link'[l].st = "subscribed"
        \/ todo'[l] = Fail1 /\ link'[l].st = "useless"
        \/ todo'[l] = Down1 /\ link'[l].st = "gone"
    BY <1>0, <1>9 DEF Called, Turns, Shape
  <2>3. Fits(l)'
    BY <2>2, NoBody, Distinct DEF Fits, Closed, Calling, Retrying
  <2> QED
    BY <2>1, <2>3, FitsKept DEF StateFits
<1>10. CASE Step(Main)
  <2>1. link' = link \/ CloseLink(Main)
    BY <1>10, MainSteps, MainTouches
  <2>2. \A l \in Links : todo'[l] = todo[l]
    BY <1>0, <1>10 DEF Step, Shape
  <2>3. \A l \in Links : link'[l] = link[l] \/ link'[l].st = "closed"
    BY <2>1 DEF CloseLink, Types
  <2> QED
    BY <1>1, <2>2, <2>3
<1>11. ASSUME NEW l \in Links, Step(l) PROVE StateFits'
  <2>1. \A k \in Links : k # l => todo'[k] = todo[k] /\ link'[k] = link[k]
    <3>1. \A k \in Links : k # l => todo'[k] = todo[k]
      BY <1>0, <1>11 DEF Step, Shape
    <3>2. link' = link \/ CloseLink(l)
      BY <1>11, CallSteps, CallTouches
    <3> QED
      BY <1>0, <3>1, <3>2 DEF CloseLink, Shape
  <2>2. Fits(l)'
    <3>1. Fits(l) /\ CallDoes(l)
      BY <1>11, CallSteps DEF StateFits
    <3>2. CloseLink(l) => link'[l].st = "closed"
      BY <1>0 DEF CloseLink, Types, Shape
    <3>3. \/ link'[l] = link[l] /\ todo[l] = Down1 /\ todo'[l] = Down2
          \/ link'[l] = link[l] /\ todo[l] = Fail1 /\ todo'[l] = Dog2
          \/ link'[l] = link[l] /\ todo[l] = Dog2 /\ todo'[l] = Dog3
          \/ link'[l] = link[l] /\ todo[l] = Sub1 /\ todo'[l] = Sub2
          \/ link'[l] = link[l] /\ todo[l] \in Closed /\ todo'[l] \in Closed \cup {Stop6}
          \/ link'[l].st = "closed" \/ todo'[l] = Done
      BY <1>0, <3>1, <3>2 DEF CallDoes, Goes, Closed, Shape
    <3> QED
      BY <3>1, <3>3, NoBody, Distinct DEF Fits, Open, Closed, Calling, Retrying
  <2> QED
    BY <2>1, <2>2, FitsKept DEF StateFits
<1> QED
  BY <1>2, <1>3, <1>4, <1>5, <1>6, <1>8, <1>9, <1>10, <1>11, Steps, CallbackCases
----------------------------------------------------------------------------
(* At most one attempt *)

\* What is on its way for controller i does not grow.
LEMMA OneShrinks ==
    ASSUME Shape, Shape', NEW i \in Controllers, One(i),
           scanning'[i] => scanning[i], pending'[i] <= pending[i],
           MainRetries(i)' => MainRetries(i),
           \A l \in Links : Busy(l)' /\ link'[l].owner = i => Busy(l) /\ link[l].owner = i
    PROVE  One(i)'
<1>1. pending'[i] \in Nat /\ pending[i] \in Nat
  BY DEF Shape
<1>2. HasBusy(i)' => HasBusy(i)
  BY DEF HasBusy
<1>3. \A k, l \in Links :
        Busy(k)' /\ Busy(l)' /\ link'[k].owner = i /\ link'[l].owner = i => k = l
  BY DEF One
<1>4. /\ pending[i] <= 1
      /\ scanning[i] => pending[i] = 0 /\ ~HasBusy(i) /\ ~MainRetries(i)
      /\ pending[i] = 1 => ~HasBusy(i) /\ ~MainRetries(i)
      /\ MainRetries(i) => ~HasBusy(i)
  BY DEF One
<1>5. /\ pending'[i] <= 1
      /\ scanning'[i] => pending'[i] = 0 /\ ~HasBusy(i)' /\ ~MainRetries(i)'
      /\ pending'[i] = 1 => ~HasBusy(i)' /\ ~MainRetries(i)'
      /\ MainRetries(i)' => ~HasBusy(i)'
  BY <1>1, <1>2, <1>4
<1> QED
  BY <1>3, <1>5 DEF One

\* What is busy, after the callback of a link.
LEMMA CalledBusy ==
    ASSUME Shape, NEW l \in Links, Called(l)
    PROVE  /\ \A k \in Links : k # l => (Busy(k)' <=> Busy(k)) /\ (Open(k)' <=> Open(k))
           /\ Open(l) /\ Open(l)'
<1>1. \A k \in Links : k # l => todo'[k] = todo[k] /\ link'[k] = link[k]
  BY DEF Called, Turns, Shape
<1>2. Open(l) /\ Open(l)'
  BY DEF Called, Turns, Open
<1> QED
  BY <1>1, <1>2 DEF Busy, Open

\* What is busy, after a statement of the callback of a link: its link, until
\* the statement that schedules.
LEMMA CallBusy ==
    ASSUME Types, Shape, StateFits, NEW l \in Links, CallDoes(l)
    PROVE  /\ \A k \in Links : link'[k].owner = link[k].owner
           /\ \A k \in Links : k # l => todo'[k] = todo[k] /\ link'[k] = link[k]
           /\ \A k \in Links : Open(k)' => Open(k)
           /\ Busy(l)' => Busy(l)
           /\ todo[l] = Dog5 => ~Busy(l)'
<1>1. \A k \in Links : k # l => todo'[k] = todo[k]
  BY DEF CallDoes, Goes, Shape
<1>2. /\ \A k \in Links : link'[k].owner = link[k].owner
      /\ \A k \in Links : k # l => link'[k] = link[k]
      /\ link'[l].st = link[l].st \/ link'[l].st = "closed"
  <2>1. link' = link \/ CloseLink(l)
    BY CallTouches
  <2>2. CASE CloseLink(l)
    <3>1. l \in Links \cup {Main} /\ l # Main
      BY DEF Shape
    <3>2. /\ \A k \in Links : link'[k].owner = link[k].owner
          /\ link'[l].st = "closed"
      BY <2>2, <3>1, CloseTyped
    <3>3. \A k \in Links : k # l => link'[k] = link[k]
      BY <2>2, <3>1 DEF CloseLink
    <3> QED
      BY <3>2, <3>3
  <2> QED
    BY <2>1, <2>2
<1>3. \A k \in Links : Open(k)' => Open(k)
  BY <1>2 DEF Open
<1>4. Busy(l)' => Busy(l)
  <2>1. \/ todo[l] \in Retrying
        \/ todo[l] = Sub1 /\ todo'[l] = Sub2
        \/ todo'[l] = Done
    BY DEF CallDoes, Goes, Retrying, Closed, Shape
  <2>2. Sub2 \notin Retrying /\ Done \notin Retrying
    BY NoBody, Distinct DEF Calling, Retrying, Closed
  <2> QED
    BY <1>3, <2>1, <2>2 DEF Busy
<1>5. todo[l] = Dog5 => ~Busy(l)'
  <2>1. Dog5 \in Closed /\ Done \notin Retrying
    BY NoBody DEF Calling, Closed
  <2>2. Dog5 \notin {Down1, Down2, Down3, Down4, Fail1, Dog2, Dog3, Dog4, Lost1, Sub1, Sub2, Stop6}
    BY Distinct
  <2>3. todo[l] = Dog5 => todo'[l] = Done
    BY <2>2 DEF CallDoes, Goes, Shape
  <2> QED
    BY <1>3, <2>1, <2>3 DEF StateFits, Fits, Busy
<1> QED
  BY <1>1, <1>2, <1>3, <1>4, <1>5

LEMMA MainBusy ==
    ASSUME Types, Shape, MainDoes
    PROVE  /\ \A k \in Links : link'[k].owner = link[k].owner /\ todo'[k] = todo[k]
           /\ \A k \in Links : k # gatt[acting] => link'[k] = link[k]
           /\ \A k \in Links : Open(k)' => Open(k)
           /\ \A k \in Links : Busy(k)' => Busy(k)
<1>1. \A k \in Links : todo'[k] = todo[k]
  BY DEF MainDoes, Goes, Shape
<1>2. link' = link \/ CloseLink(Main)
  BY MainTouches
<1>3. CASE CloseLink(Main)
  <2>1. /\ \A k \in Links : link'[k].owner = link[k].owner
        /\ \A k \in Links : link'[k].st = IF k = gatt[acting] THEN "closed" ELSE link[k].st
    BY <1>3, CloseTyped
  <2>2. \A k \in Links : k # gatt[acting] => link'[k] = link[k]
    BY <1>3 DEF CloseLink
  <2> QED
    BY <1>1, <2>1, <2>2 DEF Open, Busy
<1> QED
  BY <1>1, <1>2, <1>3 DEF Open, Busy

LEMMA SwitchBusy ==
    ASSUME Types, Switch
    PROVE  \A l \in Links : /\ link'[l].owner = link[l].owner /\ todo'[l] = todo[l]
                            /\ (Open(l)' <=> Open(l)) /\ (Busy(l)' <=> Busy(l))
<1>1. todo' = todo
  BY DEF Switch
<1>2. \A l \in Links : link'[l].owner = link[l].owner /\ (Open(l)' <=> Open(l))
  BY SwitchLinks DEF Open
<1> QED
  BY <1>1, <1>2 DEF Busy

LEMMA OneAttemptStep ==
    ASSUME Types, Types', Made, StateFits, Core, [Next]_vars
    PROVE  OneAttempt'
<1>0. Shape /\ Shape' /\ OnlyMade /\ LinksMade /\ \A i \in Controllers : One(i)
  <2>1. Shape'
    BY Names DEF Types, Shape, Controllers
  <2> QED
    BY <2>1, Shapes DEF Made, Core, OneAttempt
<1>1. CASE /\ \A i \in Controllers : (scanning'[i] => scanning[i]) /\ pending'[i] <= pending[i]
           /\ \A i \in Controllers : MainRetries(i)' => MainRetries(i)
           /\ \A l \in Links : Busy(l)' => Busy(l) /\ link'[l].owner = link[l].owner
  <2>1. \A i \in Controllers : One(i)'
    BY <1>0, <1>1, OneShrinks
  <2> QED
    BY <2>1 DEF OneAttempt
<1>2. CASE Show \/ UNCHANGED vars
  <2>1. UNCHANGED <<scanning, pending, todo, acting, link>>
    BY <1>2 DEF Show, own, vars
  <2> QED
    BY <1>0, <1>1, <2>1 DEF MainRetries, Busy, Open, Shape
<1>3. CASE Stop
  <2>1. UNCHANGED <<scanning, pending, link>> /\ todo'[Main] = Stop1
        /\ \A l \in Links : todo'[l] = todo[l]
    BY <1>0, <1>3 DEF Stop, own, Shape, StopBody, Stop1
  <2>2. \A i \in Controllers : ~MainRetries(i)'
    BY <2>1, Distinct DEF MainRetries
  <2> QED
    BY <1>0, <1>1, <2>1, <2>2 DEF Busy, Open, Shape
<1>4. CASE Switch
  <2>1. UNCHANGED <<scanning, pending, todo, acting>>
    BY <1>4 DEF Switch, own
  <2> QED
    BY <1>0, <1>1, <1>4, <2>1, SwitchBusy DEF MainRetries, Shape
<1>5. ASSUME NEW i \in Controllers, ScanFailed(i) PROVE OneAttempt'
  <2>1. UNCHANGED <<pending, todo, acting, link>> /\ scanning' = [scanning EXCEPT ![i] = FALSE]
    BY <1>5 DEF ScanFailed
  <2>2. \A j \in Controllers : (scanning'[j] => scanning[j]) /\ pending'[j] <= pending[j]
    BY <1>0, <2>1 DEF Shape
  <2> QED
    BY <1>1, <2>1, <2>2 DEF MainRetries, Busy, Open
<1>6. ASSUME NEW i \in Controllers, Watchdog(i) PROVE OneAttempt'
  <2>1. UNCHANGED <<scanning, pending, link>> /\ todo'[Main] = Dog1
        /\ \A l \in Links : todo'[l] = todo[l]
    BY <1>0, <1>6 DEF Watchdog, Shape, WatchdogBody, Dog1
  <2>2. \A j \in Controllers : ~MainRetries(j)'
    BY <2>1, Distinct DEF MainRetries
  <2> QED
    BY <1>0, <1>1, <2>1, <2>2 DEF Busy, Open, Shape
<1>7. ASSUME NEW l \in Links, Called(l) PROVE OneAttempt'
  <2>1. UNCHANGED <<scanning, pending, acting>> /\ todo'[Main] = todo[Main]
        /\ \A k \in Links : link'[k].owner = link[k].owner
    BY <1>0, <1>7 DEF Called, Turns, Shape
  <2>2. \A k \in Links : Busy(k)' => Busy(k)
    BY <1>0, <1>7, CalledBusy DEF Busy
  <2> QED
    BY <1>0, <1>1, <2>1, <2>2 DEF MainRetries, Shape
<1>8. CASE Started(started + 1)
  <2>0. PICK n \in Controllers : n = started + 1
    BY <1>8 DEF Started
  <2>1. n \in Controllers /\ n > started /\ todo[Main] = Done
        /\ UNCHANGED <<pending, todo, acting, link>>
        /\ (scanning' = scanning \/ scanning' = [scanning EXCEPT ![n] = TRUE])
    BY <1>0, <1>8, <2>0 DEF Started, MainIdle, Done, Shape
  <2>2. pending[n] = 0 /\ \A l \in Links : ~(Busy(l) /\ link[l].owner = n)
    <3>1. \A l \in Links : Busy(l) => link[l].st # "none"
      BY <1>0, NoBody DEF LinksMade, Busy, Open, Calling
    <3>2. \A l \in Links : Busy(l) => link[l].owner <= started
      BY <1>0, <3>1 DEF LinksMade
    <3>3. n \in Nat /\ \A l \in Links : link[l].owner \in Nat
      BY <1>0, <2>1 DEF Shape
    <3>4. pending[n] = 0
      BY <1>0, <2>1 DEF OnlyMade
    <3> QED
      BY <1>0, <2>1, <3>2, <3>3, <3>4 DEF Shape
  <2>3. \A l \in Links : (Busy(l)' <=> Busy(l)) /\ link'[l].owner = link[l].owner
    BY <2>1 DEF Busy, Open
  <2>4. \A i \in Controllers : ~MainRetries(i)'
    BY <2>1, NoBody DEF MainRetries, Watching
  <2>5. One(n)'
    BY <2>1, <2>2, <2>3, <2>4 DEF One, HasBusy
  <2>6. ASSUME NEW i \in Controllers, i # n PROVE One(i)'
    <3>1. scanning'[i] = scanning[i] /\ pending'[i] = pending[i]
      BY <1>0, <2>1, <2>6 DEF Shape
    <3> QED
      BY <1>0, <2>3, <2>4, <3>1, OneShrinks DEF Shape
  <2> QED
    BY <2>5, <2>6 DEF OneAttempt
<1>9. ASSUME NEW i \in Controllers, NEW l \in Links, Linked(i, l), todo[Main] = Done,
             UNCHANGED <<todo, acting>>, ~scanning'[i], pending'[i] = 0,
             scanning[i] \/ pending[i] > 0,
             \A j \in Controllers : j # i => scanning'[j] = scanning[j] /\ pending'[j] = pending[j]
      PROVE  OneAttempt'
  <2>1. \A k \in Links : ~(Busy(k) /\ link[k].owner = i)
    <3>1. scanning[i] \/ pending[i] = 1
      BY <1>0, <1>9 DEF One, Shape
    <3> QED
      BY <1>0, <3>1 DEF One, HasBusy
  <2>2. \A j \in Controllers : ~MainRetries(j)'
    BY <1>9, NoBody DEF MainRetries, Watching
  <2>3. \A k \in Links : k # l => link'[k] = link[k] /\ (Busy(k)' <=> Busy(k))
    BY <1>0, <1>9, LinkedLinks DEF Busy, Open
  <2>4. link'[l].owner = i
    BY <1>0, <1>9, LinkedLinks
  <2>5. One(i)'
    BY <1>9, <2>1, <2>2, <2>3, <2>4 DEF One, HasBusy
  <2>6. ASSUME NEW j \in Controllers, j # i PROVE One(j)'
    <3>1. \A k \in Links : Busy(k)' /\ link'[k].owner = j => Busy(k) /\ link[k].owner = j
      BY <2>3, <2>4, <2>6
    <3>2. (scanning'[j] => scanning[j]) /\ pending'[j] <= pending[j]
      BY <1>0, <1>9, <2>6 DEF Shape
    <3> QED
      BY <1>0, <2>2, <3>1, <3>2, OneShrinks
  <2> QED
    BY <2>5, <2>6 DEF OneAttempt
<1>10. ASSUME NEW i \in Controllers, Found(i) PROVE OneAttempt'
  <2>1. /\ scanning[i] /\ scanning' = [scanning EXCEPT ![i] = FALSE]
        /\ UNCHANGED <<pending, todo, acting>> /\ todo[Main] = Done
    BY <1>10 DEF Found, MainIdle, Done
  <2>2. CASE NotLinked(i)
    <3>1. UNCHANGED link
      BY <2>2 DEF NotLinked
    <3> QED
      BY <1>0, <1>1, <2>1, <3>1 DEF MainRetries, Busy, Open, Shape
  <2>3. ASSUME NEW l \in Links, Linked(i, l) PROVE OneAttempt'
    <3>1. pending[i] = 0
      BY <1>0, <2>1 DEF One
    <3> QED
      BY <1>0, <1>9, <2>1, <2>3, <3>1 DEF Shape
  <2> QED
    BY <1>10, <2>2, <2>3, ConnectCases DEF Found
<1>11. ASSUME NEW i \in Controllers, ScanTimeout(i) PROVE OneAttempt'
  <2>1. UNCHANGED <<todo, acting, link>> /\ todo[Main] = Done
    BY <1>11 DEF ScanTimeout, MainIdle, Done
  <2>2. CASE ~scanning[i]
    <3>1. UNCHANGED <<scanning, pending>>
      BY <1>11, <2>2 DEF ScanTimeout
    <3> QED
      BY <1>0, <1>1, <2>1, <3>1 DEF MainRetries, Busy, Open, Shape
  <2>3. CASE scanning[i]
    <3>1. scanning' = [scanning EXCEPT ![i] = FALSE] /\ pending' = [pending EXCEPT ![i] = @ + 1]
      BY <1>11, <2>3 DEF ScanTimeout
    <3>2. pending[i] = 0 /\ ~HasBusy(i)
      BY <1>0, <2>3 DEF One
    <3>3. \A l \in Links : (Busy(l)' <=> Busy(l)) /\ link'[l].owner = link[l].owner
      BY <2>1 DEF Busy, Open
    <3>4. \A j \in Controllers : ~MainRetries(j)'
      BY <2>1, NoBody DEF MainRetries, Watching
    <3>5. pending'[i] = 1 /\ ~scanning'[i]
      BY <1>0, <3>1, <3>2 DEF Shape
    <3>6. One(i)'
      BY <3>2, <3>3, <3>4, <3>5 DEF One, HasBusy
    <3>7. ASSUME NEW j \in Controllers, j # i PROVE One(j)'
      <4>1. scanning'[j] = scanning[j] /\ pending'[j] = pending[j]
        BY <1>0, <3>1, <3>7 DEF Shape
      <4> QED
        BY <1>0, <3>3, <3>4, <4>1, OneShrinks DEF Shape
    <3> QED
      BY <3>6, <3>7 DEF OneAttempt
  <2> QED
    BY <2>2, <2>3
<1>12. ASSUME NEW i \in Controllers, Reconnect(i) PROVE OneAttempt'
  <2>1. /\ pending[i] > 0 /\ pending' = [pending EXCEPT ![i] = @ - 1]
        /\ UNCHANGED <<todo, acting>> /\ todo[Main] = Done
    BY <1>12 DEF Reconnect, MainIdle, Done
  <2>2. /\ pending[i] = 1 /\ pending'[i] = 0 /\ ~scanning[i] /\ ~HasBusy(i)
        /\ \A j \in Controllers : pending'[j] <= pending[j]
    BY <1>0, <2>1 DEF One, Shape
  <2>3. CASE UNCHANGED <<scanning, link>>
    BY <1>0, <1>1, <2>1, <2>2, <2>3 DEF MainRetries, Busy, Open
  <2>4. CASE scanning' = [scanning EXCEPT ![i] = TRUE] /\ UNCHANGED link
    <3>1. \A l \in Links : (Busy(l)' <=> Busy(l)) /\ link'[l].owner = link[l].owner
      BY <2>1, <2>4 DEF Busy, Open
    <3>2. \A j \in Controllers : ~MainRetries(j)'
      BY <2>1, NoBody DEF MainRetries, Watching
    <3>3. One(i)'
      BY <2>2, <3>1, <3>2 DEF One, HasBusy
    <3>4. ASSUME NEW j \in Controllers, j # i PROVE One(j)'
      <4>1. scanning'[j] = scanning[j]
        BY <1>0, <2>4, <3>4 DEF Shape
      <4> QED
        BY <1>0, <2>2, <3>1, <3>2, <4>1, OneShrinks
    <3> QED
      BY <3>3, <3>4 DEF OneAttempt
  <2>5. ASSUME NEW l \in Links, Linked(i, l), UNCHANGED scanning PROVE OneAttempt'
    BY <1>0, <1>9, <2>1, <2>2, <2>5 DEF Shape
  <2> QED
    BY <1>12, <2>3, <2>4, <2>5, AttemptCases DEF Reconnect, Attempt
<1>13. CASE Step(Main)
  <2>1. MainDoes /\ acting' = (IF todo'[Main] = Done THEN 1 ELSE acting)
    BY <1>13, MainSteps
  <2>2. /\ \A k \in Links : Busy(k)' => Busy(k) /\ link'[k].owner = link[k].owner
        /\ \A i \in Controllers : scanning'[i] => scanning[i]
    BY <1>0, <2>1, MainBusy, MainTouches DEF Shape
  <2>3. CASE UNCHANGED pending /\ \A i \in Controllers : MainRetries(i)' => MainRetries(i)
    BY <1>0, <1>1, <2>2, <2>3 DEF Shape
  <2>4. CASE Goes(Main, Dog3, Dog4) /\ CloseLink(Main) /\ UNCHANGED own
    <3>1. todo[Main] = Dog3 /\ todo'[Main] = Dog4 /\ acting' = acting
      BY <1>0, <2>1, <2>4, NoBody DEF Goes, Shape, Watching
    <3>2. PICK i \in Controllers : i = acting
      BY DEF Types
    <3>3. PICK c \in Links : c = gatt[i] /\ Open(c) /\ link[c].owner = i /\ todo[c] = Done
      <4>1. Dog3 \in Watching /\ Dog3 # Dog1
        BY Distinct DEF Watching
      <4>2. gatt[i] # None /\ Open(gatt[i]) /\ Callbacks = {}
        BY <3>1, <3>2, <4>1 DEF Core, InWatchdog
      <4> QED
        BY <1>0, <4>2 DEF Made, GattMade, Shape, Callbacks, Done
    <3>4. ~Busy(c)'
      <4>1. link'[c].st = "closed"
        BY <2>4, <3>2, <3>3, CloseTyped
      <4>2. todo'[c] = Done
        BY <1>0, <2>1, <3>3, MainBusy
      <4> QED
        BY <4>1, <4>2, NoBody DEF Busy, Open, Calling
    <3>5. Busy(c) /\ HasBusy(i)
      BY <3>3 DEF Busy, HasBusy
    <3>6. ~scanning[i] /\ pending[i] = 0
      BY <1>0, <3>5 DEF One, Shape
    <3>7. \A k \in Links : ~(Busy(k)' /\ link'[k].owner = i)
      <4>1. \A k \in Links : Busy(k) /\ link[k].owner = i => k = c
        BY <1>0, <3>3, <3>5 DEF One
      <4> QED
        BY <2>2, <3>4, <4>1
    <3>8. UNCHANGED <<scanning, pending>>
      BY <2>4 DEF own
    <3>9. One(i)'
      BY <3>6, <3>7, <3>8 DEF One, HasBusy
    <3>10. ASSUME NEW j \in Controllers, j # i PROVE One(j)'
      <4>1. ~MainRetries(j)'
        BY <3>1, <3>2, <3>10 DEF MainRetries
      <4>2. scanning'[j] = scanning[j] /\ pending'[j] <= pending[j]
        BY <1>0, <3>8 DEF Shape
      <4> QED
        BY <1>0, <2>2, <4>1, <4>2, OneShrinks
    <3> QED
      BY <3>9, <3>10 DEF OneAttempt
  <2>5. CASE Goes(Main, Dog5, Done) /\ Schedule(acting) /\ UNCHANGED link
    <3>1. todo[Main] = Dog5 /\ todo'[Main] = Done /\ MainRetries(acting) /\ acting \in Controllers
      BY <1>0, <2>5 DEF Goes, Shape, MainRetries, Types
    <3>2. ~HasBusy(acting) /\ ~scanning[acting] /\ pending[acting] = 0
      BY <1>0, <3>1 DEF One, Shape
    <3>3. \A j \in Controllers : ~MainRetries(j)'
      BY <3>1, NoBody DEF MainRetries, Watching
    <3>4. UNCHANGED scanning /\ pending' = [pending EXCEPT ![acting] = @ + 1]
      BY <2>5 DEF Schedule
    <3>5. ASSUME NEW j \in Controllers PROVE One(j)'
      <4>1. CASE j = acting
        <5>1. \A k \in Links : ~(Busy(k)' /\ link'[k].owner = j)
          BY <2>2, <3>2, <4>1 DEF HasBusy
        <5>2. pending'[j] = 1 /\ ~scanning'[j]
          BY <1>0, <3>2, <3>4, <4>1 DEF Shape
        <5> QED
          BY <3>3, <5>1, <5>2 DEF One, HasBusy
      <4>2. CASE j # acting
        <5>1. scanning'[j] = scanning[j] /\ pending'[j] <= pending[j]
          BY <1>0, <3>4, <4>2 DEF Shape
        <5> QED
          BY <1>0, <2>2, <3>3, <5>1, OneShrinks
      <4> QED
        BY <4>1, <4>2
    <3> QED
      BY <3>5 DEF OneAttempt
  <2>6. CASE Goes(Main, Dog4, Dog5) /\ Clear(acting)
    <3>1. todo[Main] = Dog4 /\ todo'[Main] = Dog5 /\ acting' = acting /\ UNCHANGED pending
      BY <1>0, <2>1, <2>6, NoBody DEF Goes, Shape, Watching, Clear
    <3> QED
      BY <2>3, <3>1 DEF MainRetries
  <2>7. CASE /\ UNCHANGED pending
             /\ todo'[Main] \in {Stop2, Stop3, Stop4, Stop5, Stop6, Done, Dog2, Dog3}
    <3>1. \A i \in Controllers : ~MainRetries(i)'
      BY <2>7, Distinct DEF MainRetries
    <3> QED
      BY <2>3, <2>7, <3>1
  <2>8. \/ Goes(Main, Dog3, Dog4) /\ CloseLink(Main) /\ UNCHANGED own
        \/ Goes(Main, Dog5, Done) /\ Schedule(acting) /\ UNCHANGED link
        \/ Goes(Main, Dog4, Dog5) /\ Clear(acting)
        \/ /\ UNCHANGED pending
           /\ todo'[Main] \in {Stop2, Stop3, Stop4, Stop5, Stop6, Done, Dog2, Dog3}
    BY <1>0, <2>1 DEF MainDoes, Goes, Shape, own, SetStopped, Cancel, StopScan, Clear
  <2> QED
    BY <2>4, <2>5, <2>6, <2>7, <2>8
<1>14. ASSUME NEW l \in Links, Step(l) PROVE OneAttempt'
  <2>1. CallDoes(l) /\ acting' = (IF todo'[Main] = Done THEN 1 ELSE acting)
        /\ todo'[Main] = todo[Main]
    BY <1>0, <1>14, CallSteps DEF Step, Shape
  <2>2. /\ \A k \in Links : Busy(k)' => Busy(k) /\ link'[k].owner = link[k].owner
        /\ UNCHANGED scanning
        /\ todo[l] = Dog5 => ~Busy(l)'
    <3>1. \A k \in Links : k # l => (Busy(k)' => Busy(k))
      BY <1>0, <2>1, CallBusy DEF Busy, Open
    <3> QED
      BY <1>0, <2>1, <3>1, CallBusy, CallTouches
  <2>3. \A j \in Controllers : MainRetries(j)' => MainRetries(j)
    BY <2>1, NoBody DEF MainRetries, Watching
  <2>4. CASE UNCHANGED pending
    BY <1>0, <1>1, <2>2, <2>3, <2>4 DEF Shape
  <2>5. CASE todo[l] = Dog5 /\ pending' = [pending EXCEPT ![link[l].owner] = @ + 1]
    <3>0. PICK i \in Controllers : i = link[l].owner
      BY <1>0 DEF Shape
    <3>1. Busy(l) /\ HasBusy(i)
      BY <2>5, <3>0 DEF Busy, HasBusy, Retrying, Closed
    <3>2. ~scanning[i] /\ pending[i] = 0 /\ ~MainRetries(i)
      BY <1>0, <3>1 DEF One, Shape
    <3>3. \A k \in Links : ~(Busy(k)' /\ link'[k].owner = i)
      <4>1. \A k \in Links : Busy(k) /\ link[k].owner = i => k = l
        BY <1>0, <3>0, <3>1 DEF One
      <4> QED
        BY <2>2, <2>5, <4>1
    <3>4. pending'[i] = 1 /\ ~scanning'[i] /\ ~MainRetries(i)'
      BY <1>0, <2>2, <2>3, <2>5, <3>0, <3>2 DEF Shape
    <3>5. One(i)'
      BY <3>3, <3>4 DEF One, HasBusy
    <3>6. ASSUME NEW j \in Controllers, j # i PROVE One(j)'
      <4>1. scanning'[j] = scanning[j] /\ pending'[j] <= pending[j]
        BY <1>0, <2>2, <2>5, <3>0, <3>6 DEF Shape
      <4> QED
        BY <1>0, <2>2, <2>3, <4>1, OneShrinks
    <3> QED
      BY <3>5, <3>6 DEF OneAttempt
  <2>6. UNCHANGED pending
        \/ (todo[l] = Dog5 /\ pending' = [pending EXCEPT ![link[l].owner] = @ + 1])
    BY <2>1 DEF CallDoes, Goes, own, Cancel, Clear, Schedule
  <2> QED
    BY <2>4, <2>5, <2>6
<1> QED
  BY <1>2, <1>3, <1>4, <1>5, <1>6, <1>7, <1>8, <1>10, <1>11, <1>12, <1>13, <1>14, Steps,
     CallbackCases
----------------------------------------------------------------------------
(* Links, the watchdog and the stop *)

\* Who clears gatt has closed the link, and there is no other.
LEMMA HeldStep ==
    ASSUME Types, Types', Made, StateFits, Core, overlap # "watchdog", [Next]_vars
    PROVE  Held'
<1>0. Shape /\ GattMade /\ Held /\ \A i \in Controllers : One(i)
  BY Shapes DEF Made, Core, OneAttempt
<1>1. CASE /\ \A l \in Links : (Open(l)' => Open(l)) /\ link'[l].owner = link[l].owner
           /\ \A l \in Links : Open(l)' => gatt'[link[l].owner] = gatt[link[l].owner]
  BY <1>0, <1>1 DEF Held
<1>2. CASE Started(started + 1) \/ Stop \/ Show \/ UNCHANGED vars
  <2>1. UNCHANGED <<link, gatt>>
    BY <1>2 DEF Started, Stop, Show, own, vars
  <2> QED
    BY <1>1, <2>1 DEF Open
<1>3. CASE Switch
  <2>1. UNCHANGED gatt
    BY <1>3 DEF Switch, own
  <2> QED
    BY <1>1, <1>3, <2>1, SwitchBusy
<1>4. ASSUME NEW i \in Controllers, ScanTimeout(i) \/ ScanFailed(i) \/ Watchdog(i) PROVE Held'
  <2>1. UNCHANGED <<link, gatt>>
    BY <1>4 DEF ScanTimeout, ScanFailed, Watchdog
  <2> QED
    BY <1>1, <2>1 DEF Open
<1>5. ASSUME NEW i \in Controllers, NEW l \in Links, Linked(i, l),
             scanning[i] \/ pending[i] > 0
      PROVE  Held'
  <2>1. \A k \in Links : Open(k) => link[k].owner # i
    <3>1. scanning[i] \/ pending[i] = 1
      BY <1>0, <1>5 DEF One, Shape
    <3> QED
      BY <1>0, <3>1 DEF One, HasBusy, Busy
  <2> QED
    BY <1>0, <1>5, <2>1, LinkedLinks DEF Held, Open, Shape
<1>6. ASSUME NEW i \in Controllers, Found(i) \/ Reconnect(i) PROVE Held'
  <2>1. scanning[i] \/ pending[i] > 0
    BY <1>6 DEF Found, Reconnect
  <2>2. UNCHANGED <<link, gatt>> \/ \E l \in Links : Linked(i, l)
    BY <1>6, ConnectCases, AttemptCases DEF Found, Reconnect, NotLinked, Attempt
  <2> QED
    BY <1>1, <1>5, <2>1, <2>2 DEF Open
<1>7. ASSUME NEW l \in Links, Called(l) PROVE Held'
  <2>1. UNCHANGED gatt /\ \A k \in Links : link'[k].owner = link[k].owner
    BY <1>7 DEF Called
  <2>2. \A k \in Links : Open(k)' => Open(k)
    BY <1>0, <1>7, CalledBusy
  <2> QED
    BY <1>1, <2>1, <2>2
<1>8. CASE Step(Main)
  <2>1. MainDoes /\ acting \in Controllers
    BY <1>8, MainSteps DEF Types
  <2>2. \A l \in Links : (Open(l)' => Open(l)) /\ link'[l].owner = link[l].owner
    BY <1>0, <2>1, MainBusy
  <2>3. CASE gatt' = gatt
    BY <1>1, <2>2, <2>3
  <2>4. CASE gatt' = [gatt EXCEPT ![acting] = None] /\ todo[Main] \in {Stop5, Dog4}
    <3>1. \A l \in Links : Open(l) => link[l].owner # acting
      <4>1. CASE todo[Main] = Stop5
        <5>1. Stop5 \in Stopping \ {Stop1} /\ Stop5 \notin {Stop2, Stop3, Stop4}
          BY Distinct DEF Stopping
        <5> QED
          BY <2>1, <4>1, <5>1 DEF Core, InStop
      <4>2. CASE todo[Main] = Dog4
        BY <1>0, <2>1, <4>2 DEF One, MainRetries, HasBusy, Busy
      <4> QED
        BY <2>4, <4>1, <4>2
    <3> QED
      BY <1>0, <1>1, <2>2, <2>4, <3>1 DEF Shape
  <2>5. gatt' = gatt \/ (gatt' = [gatt EXCEPT ![acting] = None] /\ todo[Main] \in {Stop5, Dog4})
    BY <2>1 DEF MainDoes, Goes, own, SetStopped, Cancel, StopScan, Clear, Schedule
  <2> QED
    BY <2>3, <2>4, <2>5
<1>9. ASSUME NEW l \in Links, Step(l) PROVE Held'
  <2>1. CallDoes(l) /\ Fits(l)
    BY <1>9, CallSteps DEF StateFits
  <2>2. \A k \in Links : (Open(k)' => Open(k)) /\ link'[k].owner = link[k].owner
    BY <1>0, <2>1, CallBusy
  <2>3. CASE gatt' = gatt
    BY <1>1, <2>2, <2>3
  <2>4. CASE gatt' = [gatt EXCEPT ![link[l].owner] = None] /\ todo[l] \in {Down3, Dog4}
    <3>1. Busy(l) /\ ~Open(l)
      BY <2>1, <2>4 DEF Fits, Busy, Retrying, Closed
    <3>2. \A k \in Links : Open(k) => link[k].owner # link[l].owner
      BY <1>0, <3>1 DEF One, Busy, Shape
    <3> QED
      BY <1>0, <1>1, <2>2, <2>4, <3>2 DEF Shape
  <2>5. gatt' = gatt \/ (gatt' = [gatt EXCEPT ![link[l].owner] = None] /\ todo[l] \in {Down3, Dog4})
    BY <2>1 DEF CallDoes, Goes, own, Cancel, Clear, Schedule
  <2> QED
    BY <2>3, <2>4, <2>5
<1> QED
  BY <1>2, <1>3, <1>4, <1>6, <1>7, <1>8, <1>9, Steps, CallbackCases

LEMMA InStopStep ==
    ASSUME Types, Types', Made, StateFits, Core, overlap # "watchdog", [Next]_vars
    PROVE  InStop'
<1>0. Shape /\ Held /\ InStop /\ OnlyMade
  BY Shapes DEF Made, Core
<1>1. CASE /\ UNCHANGED stopped
           /\ \A i \in Controllers : scanning'[i] => scanning[i]
           /\ \A l \in Links : (Open(l)' => Open(l)) /\ link'[l].owner = link[l].owner
           /\ \/ todo'[Main] = todo[Main] /\ acting' = acting
              \/ /\ todo[Main] \notin {Stop2, Stop3, Stop4}
                 /\ todo'[Main] \in Stopping \ {Stop1} => stopped[acting] /\ acting' = acting
  BY <1>0, <1>1 DEF InStop, Shape
<1>2. CASE Show \/ UNCHANGED vars
  <2>1. UNCHANGED <<stopped, scanning, link, todo, acting>>
    BY <1>2 DEF Show, own, vars
  <2> QED
    BY <1>1, <2>1 DEF Open
<1>3. CASE Started(started + 1)
  <2>0. PICK n \in Controllers : n = started + 1
    BY <1>3 DEF Started
  <2>1. /\ UNCHANGED <<stopped, link, todo, acting>>
        /\ scanning' = scanning \/ scanning' = [scanning EXCEPT ![n] = TRUE]
    BY <1>3, <2>0 DEF Started
  <2>2. ~stopped[n]
    BY <1>0, <2>0 DEF OnlyMade, Shape
  <2> QED
    <3>1. \A j \in Controllers : stopped[j] /\ scanning'[j] => scanning[j]
      BY <1>0, <2>1, <2>2 DEF Shape
    <3>2. \A l \in Links : Open(l)' <=> Open(l)
      BY <2>1 DEF Open
    <3> QED
      BY <1>0, <2>1, <3>1, <3>2 DEF InStop
<1>4. CASE Stop
  <2>1. UNCHANGED <<stopped, scanning, link>> /\ todo'[Main] = Stop1 /\ todo[Main] = Done
    BY <1>0, <1>4 DEF Stop, own, Shape, StopBody, Stop1, MainIdle, Done
  <2>2. Done \notin {Stop2, Stop3, Stop4}
    BY Distinct
  <2> QED
    BY <1>1, <2>1, <2>2 DEF Open
<1>5. CASE Switch
  <2>1. UNCHANGED <<stopped, scanning, todo, acting>>
    BY <1>5 DEF Switch, own
  <2> QED
    BY <1>1, <1>5, <2>1, SwitchBusy
<1>6. ASSUME NEW i \in Controllers, ScanTimeout(i) \/ ScanFailed(i) PROVE InStop'
  <2>1. /\ UNCHANGED <<stopped, link, todo, acting>>
        /\ scanning' = scanning \/ scanning' = [scanning EXCEPT ![i] = FALSE]
    BY <1>6 DEF ScanTimeout, ScanFailed
  <2> QED
    BY <1>0, <1>1, <2>1 DEF Open, Shape
<1>7. ASSUME NEW i \in Controllers, Watchdog(i) PROVE InStop'
  <2>1. UNCHANGED <<stopped, scanning, link>> /\ todo'[Main] = Dog1 /\ todo[Main] = Done
    BY <1>0, <1>7 DEF Watchdog, Shape, WatchdogBody, Dog1, MainIdle, Done
  <2>2. Done \notin {Stop2, Stop3, Stop4} /\ Dog1 \notin Stopping
    BY Distinct DEF Stopping
  <2> QED
    BY <1>1, <2>1, <2>2 DEF Open
<1>8. ASSUME NEW i \in Controllers, NEW l \in Links, Linked(i, l), ~stopped[i],
             \A j \in Controllers : scanning'[j] => scanning[j],
             UNCHANGED <<stopped, todo, acting>>
      PROVE InStop'
  <2>1. \A k \in Links : k # l => link'[k] = link[k]
    BY <1>0, <1>8, LinkedLinks
  <2>2. link'[l].owner = i
    BY <1>0, <1>8, LinkedLinks
  <2> QED
    BY <1>0, <1>8, <2>1, <2>2 DEF InStop, Open
<1>9. ASSUME NEW i \in Controllers, Found(i) PROVE InStop'
  <2>1. /\ scanning[i] /\ todo[Main] = Done /\ UNCHANGED <<stopped, todo, acting>>
        /\ scanning' = [scanning EXCEPT ![i] = FALSE]
    BY <1>9 DEF Found, MainIdle, Done
  <2>2. ~stopped[i]
    <3>1. Done \notin {Stop2, Stop3}
      BY Distinct
    <3> QED
      BY <1>0, <2>1, <3>1 DEF InStop
  <2>3. UNCHANGED link \/ \E l \in Links : Linked(i, l)
    BY <1>9, ConnectCases DEF Found, NotLinked
  <2>4. \A j \in Controllers : scanning'[j] => scanning[j]
    BY <1>0, <2>1 DEF Shape
  <2> QED
    BY <1>1, <1>8, <2>1, <2>2, <2>3, <2>4 DEF Open
<1>10. ASSUME NEW i \in Controllers, Reconnect(i) PROVE InStop'
  <2>1. UNCHANGED <<stopped, todo, acting>>
    BY <1>10 DEF Reconnect
  <2>2. UNCHANGED <<scanning, link>> \/ (~stopped[i] /\ Attempt(i))
    BY <1>10, AttemptCases DEF Reconnect
  <2>3. CASE ~stopped[i] /\ UNCHANGED link /\ scanning' = [scanning EXCEPT ![i] = TRUE]
    BY <1>0, <2>1, <2>3 DEF InStop, Open, Shape
  <2> QED
    BY <1>1, <1>8, <2>1, <2>2, <2>3 DEF Attempt, Open
<1>11. ASSUME NEW l \in Links, Called(l) PROVE InStop'
  <2>1. UNCHANGED <<stopped, scanning, acting>> /\ todo'[Main] = todo[Main]
        /\ \A k \in Links : link'[k].owner = link[k].owner
    BY <1>0, <1>11 DEF Called, Turns, Shape
  <2>2. \A k \in Links : Open(k)' => Open(k)
    BY <1>0, <1>11, CalledBusy
  <2> QED
    BY <1>1, <2>1, <2>2
<1>12. CASE Step(Main)
  <2>0. PICK i \in Controllers : i = acting
    BY DEF Types
  <2>1. MainDoes /\ acting' = (IF todo'[Main] = Done THEN 1 ELSE acting)
    BY <1>12, MainSteps
  <2>2. /\ \A l \in Links : (Open(l)' => Open(l)) /\ link'[l].owner = link[l].owner
        /\ \A j \in Controllers : scanning'[j] => scanning[j]
    BY <1>0, <2>1, MainBusy, MainTouches DEF Shape
  <2>3. CASE Goes(Main, Stop1, Stop2) /\ SetStopped(acting) /\ UNCHANGED link
    <3>1. /\ todo[Main] = Stop1 /\ todo'[Main] = Stop2 /\ acting' = i
          /\ stopped' = [stopped EXCEPT ![i] = TRUE]
      BY <1>0, <2>0, <2>1, <2>3, NoBody DEF Goes, Shape, SetStopped, Stopping
    <3>2. Stop1 \notin {Stop2, Stop3, Stop4}
      BY Distinct
    <3> QED
      BY <1>0, <2>2, <3>1, <3>2 DEF InStop, Shape
  <2>4. CASE Goes(Main, Stop2, Stop3) /\ UNCHANGED <<stopped, link>>
    <3>1. todo[Main] = Stop2 /\ todo'[Main] = Stop3 /\ acting' = i
      BY <1>0, <2>0, <2>1, <2>4, NoBody DEF Goes, Shape, Stopping
    <3>2. stopped[i]
      BY <1>0, <2>0, <3>1, Distinct DEF InStop, Stopping
    <3> QED
      BY <1>0, <2>0, <2>2, <2>4, <3>1, <3>2 DEF InStop
  <2>5. CASE Goes(Main, Stop3, Stop4) /\ StopScan(acting) /\ UNCHANGED link
    <3>1. todo[Main] = Stop3 /\ todo'[Main] = Stop4 /\ acting' = i /\ UNCHANGED stopped
          /\ ~scanning'[i]
      BY <1>0, <2>0, <2>1, <2>5, NoBody DEF Goes, Shape, Stopping, StopScan
    <3>2. stopped[i]
      BY <1>0, <2>0, <3>1, Distinct DEF InStop, Stopping
    <3> QED
      BY <1>0, <2>0, <2>2, <3>1, <3>2 DEF InStop
  <2>6. CASE Goes(Main, Stop4, Stop5) /\ CloseLink(Main) /\ UNCHANGED own
    <3>1. todo[Main] = Stop4 /\ todo'[Main] = Stop5 /\ acting' = i /\ UNCHANGED <<stopped, scanning>>
      BY <1>0, <2>0, <2>1, <2>6, NoBody DEF Goes, Shape, Stopping, own
    <3>2. stopped[i] /\ Stop4 \notin {Stop2, Stop3}
      BY <1>0, <2>0, <3>1, Distinct DEF InStop, Stopping
    <3>3. \A l \in Links : ~(Open(l)' /\ link'[l].owner = i)
      <4>1. \A l \in Links : link'[l].st = IF l = gatt[i] THEN "closed" ELSE link[l].st
        BY <2>0, <2>6, CloseTyped
      <4>2. \A l \in Links : Open(l) /\ link[l].owner = i => gatt[i] = l
        BY <1>0 DEF Held
      <4> QED
        BY <2>2, <4>1, <4>2 DEF Open
    <3>4. \A j \in Controllers : stopped[j] /\ j # i =>
            ~scanning[j] /\ \A l \in Links : ~(Open(l) /\ link[l].owner = j)
      BY <1>0, <2>0 DEF InStop
    <3>5. ~scanning[i]
      BY <1>0, <2>0, <3>1, <3>2 DEF InStop
    <3> QED
      BY <2>2, <3>1, <3>2, <3>3, <3>4, <3>5 DEF InStop
  <2>7. CASE /\ UNCHANGED stopped /\ todo[Main] \in {Stop5, Stop6} \cup Watching
             /\ todo'[Main] = Stop6 => todo[Main] = Stop5
             /\ todo'[Main] \in {Stop6, Done} \cup Watching
    <3>1. /\ todo[Main] \notin {Stop2, Stop3, Stop4}
          /\ Stop5 \in Stopping \ {Stop1}
          /\ todo'[Main] \in Stopping => todo'[Main] = Stop6
          /\ Stop6 # Done
      BY <2>7, Distinct DEF Stopping, Watching
    <3>2. todo'[Main] \in Stopping \ {Stop1} => stopped[acting] /\ acting' = acting
      BY <1>0, <2>1, <2>7, <3>1 DEF InStop
    <3> QED
      BY <1>1, <2>2, <2>7, <3>1, <3>2
  <2>8. \/ Goes(Main, Stop1, Stop2) /\ SetStopped(acting) /\ UNCHANGED link
        \/ Goes(Main, Stop2, Stop3) /\ UNCHANGED <<stopped, link>>
        \/ Goes(Main, Stop3, Stop4) /\ StopScan(acting) /\ UNCHANGED link
        \/ Goes(Main, Stop4, Stop5) /\ CloseLink(Main) /\ UNCHANGED own
        \/ Goes(Main, Stop5, Stop6) /\ UNCHANGED stopped
        \/ Goes(Main, Stop6, Done) /\ UNCHANGED stopped
        \/ todo[Main] \in Watching /\ todo'[Main] \in {Done} \cup Watching /\ UNCHANGED stopped
    BY <1>0, <2>1 DEF MainDoes, Goes, Shape, Watching, own, Cancel, Clear, Schedule
  <2>9. CASE Goes(Main, Stop5, Stop6) /\ UNCHANGED stopped
    BY <1>0, <2>7, <2>9 DEF Goes, Shape
  <2>10. CASE \/ Goes(Main, Stop6, Done) /\ UNCHANGED stopped
              \/ todo[Main] \in Watching /\ todo'[Main] \in {Done} \cup Watching /\ UNCHANGED stopped
    <3>1. Stop6 \notin {Done} \cup Watching
      BY Distinct DEF Watching
    <3> QED
      BY <1>0, <2>7, <2>10, <3>1 DEF Goes, Shape
  <2> QED
    BY <2>3, <2>4, <2>5, <2>6, <2>8, <2>9, <2>10
<1>13. ASSUME NEW l \in Links, Step(l) PROVE InStop'
  <2>1. CallDoes(l) /\ acting' = (IF todo'[Main] = Done THEN 1 ELSE acting)
        /\ todo'[Main] = todo[Main]
    BY <1>0, <1>13, CallSteps DEF Step, Shape
  <2>2. /\ UNCHANGED <<stopped, scanning>>
        /\ \A k \in Links : (Open(k)' => Open(k)) /\ link'[k].owner = link[k].owner
    BY <1>0, <2>1, CallBusy, CallTouches
  <2>3. Done \notin {Stop2, Stop3, Stop4} \cup Stopping
    BY Distinct DEF Stopping
  <2> QED
    BY <1>1, <2>1, <2>2, <2>3
<1> QED
  BY <1>2, <1>3, <1>4, <1>5, <1>6, <1>7, <1>9, <1>10, <1>11, <1>12, <1>13, Steps, CallbackCases

\* Armed, for one controller.
Watches(i) ==
    watchdog[i] /\ ~stopped[i] =>
        /\ gatt[i] # None
        /\ Open(gatt[i])
        /\ \/ todo[gatt[i]] = Done /\ link[gatt[i]].st \in {"cccd", "silent", "down"}
           \/ todo[gatt[i]] \in {Sub1, Fail1, Down1}

LEMMA ArmedStep ==
    ASSUME Types, Types', Made, StateFits, Core, overlap # "watchdog", [Next]_vars
    PROVE  Armed'
<1>0. /\ Shape /\ GattMade /\ Held /\ InStop /\ InWatchdog /\ Armed
      /\ \A i \in Controllers : One(i)
  BY Shapes DEF Made, Core, OneAttempt
<1>1. CASE \A i \in Controllers :
             /\ watchdog'[i] => watchdog[i]
             /\ stopped[i] => stopped'[i]
             /\ watchdog[i] /\ ~stopped[i] =>
                  /\ gatt'[i] = gatt[i]
                  /\ gatt[i] \in Links =>
                       link'[gatt[i]] = link[gatt[i]] /\ todo'[gatt[i]] = todo[gatt[i]]
  <2> SUFFICES ASSUME NEW i \in Controllers PROVE Watches(i)'
    BY DEF Armed, Watches
  <2>1. gatt[i] # None => gatt[i] \in Links
    BY <1>0 DEF Shape
  <2>2. Watches(i)
    BY <1>0 DEF Armed, Watches
  <2> QED
    BY <1>1, <2>1, <2>2 DEF Watches, Open
<1>2. CASE Started(started + 1) \/ Show \/ UNCHANGED vars
  BY <1>1, <1>2 DEF Started, Show, own, vars
<1>3. CASE Stop
  BY <1>0, <1>1, <1>3 DEF Stop, own, Shape
<1>4. CASE Switch
  <2>1. UNCHANGED <<watchdog, stopped, gatt, todo>> /\ \A l \in Links : todo[l] = Done
    BY <1>4 DEF Switch, own, AtRest, Done
  <2>2. Done \notin {Sub1, Fail1, Down1}
    BY Distinct
  <2> SUFFICES ASSUME NEW i \in Controllers, watchdog'[i], ~stopped'[i] PROVE Watches(i)'
    BY DEF Armed, Watches
  <2>3. gatt[i] \in Links /\ Open(gatt[i]) /\ link[gatt[i]].st \in {"cccd", "silent", "down"}
    BY <1>0, <2>1, <2>2 DEF Armed, Shape
  <2>4. link'[gatt[i]].st \in {"cccd", "silent", "down"}
    BY <1>4, <2>3, SwitchLinks
  <2>5. gatt'[i] = gatt[i] /\ gatt[i] # None /\ todo'[gatt[i]] = Done
    BY <1>0, <2>1, <2>3 DEF Shape
  <2>6. link'[gatt'[i]].st \in {"cccd", "silent", "down"}
    BY <2>4, <2>5
  <2> QED
    BY <2>5, <2>6 DEF Watches, Open
<1>5. ASSUME NEW i \in Controllers, ScanTimeout(i) \/ ScanFailed(i) PROVE Armed'
  BY <1>1, <1>5 DEF ScanTimeout, ScanFailed
<1>6. ASSUME NEW i \in Controllers, Watchdog(i) PROVE Armed'
  BY <1>0, <1>1, <1>6 DEF Watchdog, Shape
<1>7. ASSUME NEW i \in Controllers, NEW l \in Links, Linked(i, l),
             scanning[i] \/ pending[i] > 0, UNCHANGED <<watchdog, stopped, todo>>
      PROVE  Armed'
  <2>1. watchdog[i] => stopped[i]
    <3>1. scanning[i] \/ pending[i] = 1
      BY <1>0, <1>7 DEF One, Shape
    <3>2. ~HasBusy(i)
      BY <1>0, <3>1 DEF One
    <3>3. gatt[i] # None /\ Open(gatt[i]) => HasBusy(i)
      BY <1>0 DEF GattMade, HasBusy, Busy, Shape
    <3> QED
      BY <1>0, <3>2, <3>3 DEF Armed
  <2>2. \A j \in Controllers : j # i =>
          gatt'[j] = gatt[j] /\ (gatt[j] \in Links => link'[gatt[j]] = link[gatt[j]])
    BY <1>0, <1>7, LinkedLinks
  <2> QED
    BY <1>1, <1>7, <2>1, <2>2
<1>8. ASSUME NEW i \in Controllers, Found(i) \/ Reconnect(i) PROVE Armed'
  <2>1. scanning[i] \/ pending[i] > 0
    BY <1>8 DEF Found, Reconnect
  <2>2. UNCHANGED <<link, gatt>> \/ \E l \in Links : Linked(i, l)
    BY <1>8, ConnectCases, AttemptCases DEF Found, Reconnect, NotLinked, Attempt
  <2>3. UNCHANGED <<watchdog, stopped, todo>>
    BY <1>8 DEF Found, Reconnect
  <2> QED
    BY <1>1, <1>7, <2>1, <2>2, <2>3
<1>9. ASSUME NEW l \in Links, Called(l) PROVE Armed'
  <2>1. /\ UNCHANGED <<stopped, gatt>> /\ todo[l] = Done /\ Open(l) /\ Open(l)'
        /\ \A k \in Links : k # l => todo'[k] = todo[k] /\ link'[k] = link[k]
        /\ watchdog' = watchdog \/ watchdog' = [watchdog EXCEPT ![link[l].owner] = TRUE]
    BY <1>0, <1>9, CalledBusy DEF Called, Turns, Shape
  <2>2. gatt[link[l].owner] = l /\ link[l].owner \in Controllers
    BY <1>0, <2>1 DEF Held, Shape
  <2> SUFFICES ASSUME NEW i \in Controllers, watchdog'[i], ~stopped'[i] PROVE Watches(i)'
    BY DEF Armed, Watches
  <2>3. CASE i # link[l].owner
    <3>1. watchdog[i] /\ ~stopped[i] /\ gatt[i] # l
      BY <1>0, <2>1, <2>2, <2>3 DEF GattMade, Shape
    <3>2. Watches(i) /\ gatt[i] \in Links
      BY <1>0, <3>1 DEF Armed, Watches, Shape
    <3> QED
      BY <2>1, <3>1, <3>2 DEF Watches, Open
  <2>4. CASE i = link[l].owner
    <3>1. watchdog[i] => link[l].st \in {"cccd", "silent", "down"}
      <4>1. Done \notin {Sub1, Fail1, Down1}
        BY Distinct
      <4> QED
        BY <1>0, <2>1, <2>2, <2>4, <4>1 DEF Armed
    <3>2. \/ todo'[l] = Done /\ link'[l].st \in {"cccd", "silent", "down"}
          \/ todo'[l] \in {Sub1, Fail1, Down1}
      <4>1. ~watchdog[i] => /\ todo'[l] = Done /\ link'[l].st = "cccd"
        BY <1>0, <1>9, <2>4 DEF Called, Turns, Shape
      <4>2. watchdog[i] => \/ todo'[l] = Done /\ link'[l].st \in {"cccd", "silent", "down"}
                           \/ todo'[l] \in {Sub1, Fail1, Down1}
        BY <1>0, <1>9, <3>1 DEF Called, Turns, Shape
      <4> QED
        BY <4>1, <4>2
    <3> QED
      BY <1>0, <2>1, <2>2, <2>4, <3>2 DEF Watches, Shape
  <2> QED
    BY <2>3, <2>4
<1>10. CASE Step(Main)
  <2>0. PICK a \in Controllers : a = acting
    BY DEF Types
  <2>1. MainDoes
    BY <1>10, MainSteps
  <2>2. /\ \A k \in Links : todo'[k] = todo[k] /\ (k # gatt[a] => link'[k] = link[k])
        /\ \A i \in Controllers : i # a => /\ stopped'[i] = stopped[i] /\ watchdog'[i] = watchdog[i]
                                           /\ gatt'[i] = gatt[i]
        /\ \A i \in Controllers : watchdog'[i] => watchdog[i]
        /\ \A i \in Controllers : stopped[i] => stopped'[i]
    BY <1>0, <2>0, <2>1, MainBusy, MainTouches DEF Shape
  <2>3. \A i \in Controllers : i # a /\ gatt[i] \in Links => gatt[i] # gatt[a]
    BY <1>0 DEF GattMade, Shape
  <2>4. CASE ~watchdog[a] \/ stopped[a] \/ (gatt' = gatt /\ link' = link)
    <3> SUFFICES ASSUME NEW i \in Controllers, watchdog[i], ~stopped[i], gatt[i] \in Links
        PROVE gatt'[i] = gatt[i] /\ link'[gatt[i]] = link[gatt[i]]
      <4>1. \A i \in Controllers : watchdog[i] /\ ~stopped[i] => gatt[i] \in Links
        BY <1>0 DEF Armed, Shape
      <4> QED
        BY <1>1, <2>2, <4>1
    <3> QED
      BY <2>2, <2>3, <2>4
  <2>5. CASE todo[Main] \in {Stop4, Stop5}
    <3>1. stopped[a]
      BY <1>0, <2>0, <2>5, Distinct DEF InStop, Stopping
    <3> QED
      BY <2>4, <3>1
  <2>6. CASE todo[Main] \in {Dog3, Dog4}
    <3>1. todo[Main] \in Watching /\ todo[Main] # Dog1
      BY <2>6, Distinct DEF Watching
    <3>2. ~watchdog[a]
      BY <1>0, <2>0, <3>1 DEF InWatchdog
    <3> QED
      BY <2>4, <3>2
  <2>7. todo[Main] \in {Stop4, Stop5, Dog3, Dog4} \/ (gatt' = gatt /\ link' = link)
    BY <2>1 DEF MainDoes, Goes, own, SetStopped, Cancel, StopScan, Schedule
  <2> QED
    BY <2>4, <2>5, <2>6, <2>7
<1>11. ASSUME NEW l \in Links, Step(l) PROVE Armed'
  <2>0. PICK a \in Controllers : a = link[l].owner
    BY <1>0 DEF Shape
  <2>1. CallDoes(l)
    BY <1>11, CallSteps
  <2>2. /\ \A k \in Links : k # l => todo'[k] = todo[k] /\ link'[k] = link[k]
        /\ UNCHANGED stopped
        /\ \A i \in Controllers : i # a => watchdog'[i] = watchdog[i] /\ gatt'[i] = gatt[i]
        /\ \A i \in Controllers : watchdog'[i] => watchdog[i]
    BY <1>0, <2>0, <2>1, CallBusy, CallTouches DEF Shape
  <2>3. \A i \in Controllers : i # a => gatt[i] # l
    BY <1>0, <2>0 DEF GattMade, Shape
  <2>4. CASE ~watchdog'[a] \/ stopped[a]
    <3> SUFFICES ASSUME NEW i \in Controllers, watchdog'[i], ~stopped'[i] PROVE Watches(i)'
      BY DEF Armed, Watches
    <3>1. i # a /\ watchdog[i] /\ ~stopped[i] /\ gatt'[i] = gatt[i] /\ gatt[i] # l
      BY <2>2, <2>3, <2>4
    <3>2. Watches(i) /\ gatt[i] \in Links
      BY <1>0, <3>1 DEF Armed, Watches, Shape
    <3> QED
      BY <2>2, <3>1, <3>2 DEF Watches, Open
  <2>5. CASE watchdog[a] /\ ~stopped[a] /\ Busy(l) /\ todo[l] \notin {Sub1, Fail1, Down1}
    <3>1. gatt[a] \in Links /\ Open(gatt[a]) /\ link[gatt[a]].owner = a
          /\ todo[gatt[a]] \in {Done, Sub1, Fail1, Down1}
      BY <1>0, <2>5 DEF Armed, GattMade, Shape
    <3>2. gatt[a] = l
      BY <1>0, <2>0, <2>5, <3>1 DEF One, Busy
    <3>3. todo[l] # Done
      BY <1>11 DEF Step, Done
    <3> QED
      BY <2>5, <3>1, <3>2, <3>3
  <2>6. CASE todo[l] \in {Sub1, Fail1, Down1}
    <3>1. watchdog' = [watchdog EXCEPT ![a] = FALSE]
      <4>1. Sub1 \notin {Down2, Down3, Down4, Dog2, Dog3, Dog4, Dog5, Lost1, Sub2, Stop6}
        BY Distinct
      <4>2. Fail1 \notin {Down2, Down3, Down4, Dog2, Dog3, Dog4, Dog5, Lost1, Sub2, Stop6}
        BY Distinct
      <4>3. Down1 \notin {Down2, Down3, Down4, Dog2, Dog3, Dog4, Dog5, Lost1, Sub2, Stop6}
        BY Distinct
      <4> QED
        BY <2>0, <2>1, <2>6, <4>1, <4>2, <4>3 DEF CallDoes, Goes, Cancel
    <3> QED
      BY <1>0, <2>4, <3>1 DEF Shape
  <2>7. CASE todo[l] \in {Sub2, Stop6} /\ gatt' = gatt /\ watchdog' = watchdog
             /\ ~stopped[a] /\ watchdog[a]
    <3>1. gatt[a] \in Links /\ todo[gatt[a]] \in {Done, Sub1, Fail1, Down1}
      BY <1>0, <2>7 DEF Armed, Shape
    <3>2. {Sub2, Stop6} \cap {Done, Sub1, Fail1, Down1} = {}
      BY Distinct
    <3>3. gatt[a] # l
      BY <2>7, <3>1, <3>2
    <3> QED
      BY <1>1, <2>2, <2>3, <2>7, <3>3
  <2>8. todo[l] \in {Sub1, Fail1, Down1} \/ todo[l] \in Retrying
        \/ (todo[l] \in {Sub2, Stop6} /\ gatt' = gatt /\ watchdog' = watchdog)
    BY <2>1 DEF CallDoes, Goes, own, Retrying, Closed
  <2> QED
    BY <2>2, <2>4, <2>5, <2>6, <2>7, <2>8 DEF Busy
<1> QED
  BY <1>2, <1>3, <1>4, <1>5, <1>6, <1>8, <1>9, <1>10, <1>11, Steps, CallbackCases

LEMMA InWatchdogStep ==
    ASSUME Types, Types', Made, StateFits, Core, overlap # "watchdog", [Next]_vars
    PROVE  InWatchdog'
<1>0. Shape /\ GattMade /\ InWatchdog /\ Armed
  BY Shapes DEF Made, Core
<1>1. CASE todo'[Main] \notin Watching
  BY <1>1 DEF InWatchdog
<1>2. CASE MainIdle /\ todo'[Main] \in {Done, Stop1}
  <2>1. Done \notin Watching /\ Stop1 \notin Watching
    BY Distinct DEF Watching
  <2> QED
    BY <1>1, <1>2, <2>1
<1>3. CASE Started(started + 1) \/ Show
  BY <1>2, <1>3 DEF Started, Show, MainIdle, Done
<1>4. CASE Stop
  BY <1>0, <1>2, <1>4 DEF Stop, Shape, StopBody, Stop1
<1>5. CASE Switch
  <2>1. todo'[Main] = Done
    BY <1>5 DEF Switch, AtRest, Done
  <2> QED
    BY <1>1, <2>1, NoBody
<1>6. ASSUME NEW i \in Controllers,
             Found(i) \/ ScanTimeout(i) \/ ScanFailed(i) \/ Reconnect(i)
      PROVE InWatchdog'
  BY <1>2, <1>6 DEF Found, ScanTimeout, ScanFailed, Reconnect, MainIdle, Done
<1>7. ASSUME NEW i \in Controllers, Watchdog(i) PROVE InWatchdog'
  <2>1. /\ todo'[Main] = Dog1 /\ acting' = i /\ watchdog[i] /\ ~watchdog'[i]
        /\ UNCHANGED <<stopped, gatt, link, posts>> /\ Callbacks = {} /\ posts = <<>>
        /\ \A l \in Links : todo'[l] = todo[l]
    BY <1>0, <1>7 DEF Watchdog, WatchdogBody, Dog1, Undisturbed, Shape
  <2>2. Callbacks' = {}
    BY <2>1 DEF Callbacks
  <2>3. ~stopped[i] => gatt[i] # None /\ Open(gatt[i]) /\ link[gatt[i]].st # "subscribed"
    <3>1. \A l \in Links : todo[l] = Done
      BY <2>1 DEF Callbacks, Done
    <3> SUFFICES ASSUME ~stopped[i]
        PROVE  gatt[i] # None /\ Open(gatt[i]) /\ link[gatt[i]].st # "subscribed"
      OBVIOUS
    <3>2. /\ gatt[i] # None /\ Open(gatt[i])
          /\ \/ link[gatt[i]].st \in {"cccd", "silent", "down"}
             \/ todo[gatt[i]] \in {Sub1, Fail1, Down1}
      BY <2>1, <1>0 DEF Armed
    <3>3. gatt[i] \in Links
      BY <3>2, <1>0 DEF Shape
    <3>4. todo[gatt[i]] \notin {Sub1, Fail1, Down1}
      BY <3>1, <3>3, NotDone
    <3> QED
      BY <3>2, <3>4
  <2> QED
    BY <2>1, <2>2, <2>3 DEF InWatchdog, Open
<1>8. ASSUME NEW l \in Links, Called(l) PROVE InWatchdog'
  <2> SUFFICES ASSUME todo'[Main] \in Watching PROVE InWatchdog'
    BY <1>1
  <2>1. todo'[Main] = todo[Main] /\ UNCHANGED <<acting, stopped>>
    BY <1>0, <1>8 DEF Called, Turns, Shape
  <2>2. stopped[acting]
    <3>1. todo[Main] # Done
      BY <2>1, NoBody
    <3> QED
      BY <1>8, <3>1 DEF Called, AtRest, MayCall, MainIdle, Done
  <2> QED
    BY <1>0, <2>1, <2>2 DEF InWatchdog
<1>9. CASE Step(Main)
  <2>0. PICK i \in Controllers : i = acting
    BY DEF Types
  <2>1. MainDoes /\ acting' = (IF todo'[Main] = Done THEN 1 ELSE acting) /\ UNCHANGED user
    BY <1>9, MainSteps
  <2>2. /\ \A l \in Links : todo'[l] = todo[l]
        /\ UNCHANGED posts
        /\ watchdog'[i] => watchdog[i]
    BY <1>0, <2>1, MainBusy, MainTouches DEF Shape
  <2>3. Callbacks' = Callbacks
    BY <2>2 DEF Callbacks
  <2>4. CASE todo[Main] \in Watching /\ todo'[Main] \in {Dog2, Dog3, Dog4, Dog5}
    <3>1. todo'[Main] \in Watching /\ todo'[Main] # Dog1 /\ acting' = i
      BY <2>0, <2>1, <2>4, Distinct DEF Watching
    <3>2. ~stopped[i] /\ UNCHANGED stopped
      <4>1. Stop2 \notin {Dog2, Dog3, Dog4, Dog5}
        BY Distinct
      <4>2. UNCHANGED stopped
        BY <1>0, <2>1, <2>4, <4>1
        DEF MainDoes, Goes, Shape, own, Cancel, StopScan, Clear, Schedule
      <4>3. todo[Main] = Dog1 => ~stopped[i]
        <5>1. Dog1 \notin {Stop1, Stop2, Stop3, Stop4, Stop5, Stop6, Dog2, Dog3, Dog4, Dog5}
          BY Distinct
        <5>2. Done \notin {Dog2, Dog3, Dog4, Dog5}
          BY Distinct
        <5> QED
          BY <1>0, <2>0, <2>1, <2>4, <5>1, <5>2 DEF MainDoes, Goes, Shape
      <4> QED
        BY <1>0, <2>0, <2>4, <4>2, <4>3 DEF InWatchdog
    <3>3. Callbacks = {} /\ posts = <<>> /\ ~watchdog[i]
      BY <1>0, <2>0, <2>4, <3>2 DEF InWatchdog
    <3>4. todo'[Main] \in {Dog1, Dog2, Dog3} =>
            /\ todo[Main] \in {Dog1, Dog2, Dog3} /\ UNCHANGED <<link, gatt>>
      <4>1. {Dog4, Dog5, Done, Stop2, Stop3, Stop4, Stop5, Stop6} \cap {Dog1, Dog2, Dog3} = {}
        BY Distinct
      <4> QED
        BY <1>0, <2>1, <4>1 DEF MainDoes, Goes, Shape, own
    <3>5. todo'[Main] \in {Dog1, Dog2, Dog3} =>
            gatt'[i] # None /\ Open(gatt[i])' /\ gatt'[i] = gatt[i]
            /\ link'[gatt'[i]].st # "subscribed"
      BY <1>0, <2>0, <2>4, <3>2, <3>4 DEF InWatchdog, Open
    <3> QED
      BY <2>2, <2>3, <3>1, <3>2, <3>3, <3>5 DEF InWatchdog, Open
  <2>5. \/ todo[Main] \in Watching /\ todo'[Main] \in {Dog2, Dog3, Dog4, Dog5}
        \/ todo'[Main] \in Stopping \cup {Done}
    BY <1>0, <2>1 DEF MainDoes, Goes, Shape, Watching, Stopping
  <2>6. (Stopping \cup {Done}) \cap Watching = {}
    BY Distinct DEF Stopping, Watching
  <2> QED
    BY <1>1, <2>4, <2>5, <2>6
<1>10. ASSUME NEW l \in Links, Step(l) PROVE InWatchdog'
  <2> SUFFICES ASSUME todo'[Main] \in Watching PROVE InWatchdog'
    BY <1>1
  <2>1. CallDoes(l) /\ todo'[Main] = todo[Main] /\ todo[l] # Done
        /\ acting' = (IF todo'[Main] = Done THEN 1 ELSE acting)
    BY <1>0, <1>10, CallSteps DEF Step, Shape, Done
  <2>2. UNCHANGED <<acting, stopped>>
    BY <2>1, NoBody, CallTouches
  <2>3. stopped[acting]
    BY <1>0, <2>1 DEF InWatchdog, Callbacks, Done
  <2> QED
    BY <1>0, <2>1, <2>2, <2>3 DEF InWatchdog
<1>11. CASE UNCHANGED vars
  <2>1. UNCHANGED <<todo, acting, stopped, watchdog, gatt, link, posts>>
    BY <1>11 DEF vars, own
  <2> QED
    BY <1>0, <2>1 DEF InWatchdog, Callbacks, Open
<1> QED
  BY <1>3, <1>4, <1>5, <1>6, <1>7, <1>8, <1>9, <1>10, <1>11, Steps, CallbackCases
----------------------------------------------------------------------------
(* The inductive invariant, and what it implies *)

LEMMA OverlapKept == ASSUME [Next]_vars PROVE overlap' = overlap
BY DEF Next, vars, user, Start, Stop, Show, Switch, OwnStep, Found, ScanTimeout, Reconnect,
   Watchdog, ScanFailed, Callback, Connected, MtuChanged, ServicesDiscovered, DescriptorWrite,
   Disconnected, LinkLost, AnswerLost, Step

LEMMA InitCore == ASSUME Init PROVE Core
<1>1. \A l \in Links : todo[l] = Done /\ ~Open(l)
  BY DEF Init, NoLink, Open, Done
<1>2. todo[Main] = Done /\ Done \notin Retrying
  BY NoBody DEF Init, Done, Calling
<1>3. Done \notin {Dog4, Dog5} /\ Done \notin Watching /\ Done \notin Stopping
  BY NoBody, Distinct
<1>4. \A i \in Controllers : One(i)
  BY <1>1, <1>2, <1>3 DEF Init, One, HasBusy, Busy, MainRetries
<1>5. Held /\ Armed /\ InWatchdog /\ InStop
  BY <1>1, <1>2, <1>3 DEF Init, Held, Armed, InWatchdog, InStop
<1> QED
  BY <1>4, <1>5 DEF Core, OneAttempt

LEMMA InitIInv == ASSUME Init PROVE IInv
BY InitTypes, InitMade, InitCore DEF IInv

LEMMA IInvStep == ASSUME IInv, [Next]_vars PROVE IInv'
<1>1. Types' /\ Made' /\ StateFits'
  BY TypesStep, MadeStep, StateFitsStep DEF IInv
<1>2. ASSUME overlap' # "watchdog" PROVE Core'
  <2>1. overlap # "watchdog"
    BY <1>2, OverlapKept
  <2>2. OneAttempt'
    BY <1>1, <2>1, OneAttemptStep DEF IInv
  <2>3. Held'
    BY <1>1, <2>1, HeldStep DEF IInv
  <2>4. Armed'
    BY <1>1, <2>1, ArmedStep DEF IInv
  <2>5. InWatchdog'
    BY <1>1, <2>1, InWatchdogStep DEF IInv
  <2>6. InStop'
    BY <1>1, <2>1, InStopStep DEF IInv
  <2> QED
    BY <2>2, <2>3, <2>4, <2>5, <2>6 DEF Core
<1> QED
  BY <1>1, <1>2 DEF IInv

\* The inductive invariant of the controller holds in every run.
THEOREM Invariance == Spec => []IInv
<1>1. Init => IInv
  BY InitIInv
<1>2. IInv /\ [Next]_vars => IInv'
  BY IInvStep
<1> QED
  BY <1>1, <1>2, PTL DEF Spec

\* Whatever fails, is late or is clicked, a controller has at most one attempt
\* to reach the device: a scan, a closure that reconnects, or an open link
\* (BluetoothController.kt, scheduleReconnect, doConnect and onScanResult).
THEOREM OneLinkAtATime == Spec => []Inv
<1>1. ASSUME IInv PROVE TypeOK
  <2>1. \A l \in Links : Open(l) => link[l].owner \in 1 .. started
    BY <1>1 DEF IInv, Types, Made, LinksMade, Open, Controllers
  <2>2. \A n \in 1 .. Len(posts) : posts[n] \in States
    BY <1>1 DEF IInv, Types
  <2> QED
    BY <1>1, <2>1, <2>2 DEF IInv, Types, TypeOK
<1>2. ASSUME IInv PROVE OneLink
  <2> SUFFICES ASSUME overlap # "watchdog"
      PROVE  /\ \A k, l \in Links : Open(k) /\ Open(l) /\ link[k].owner = link[l].owner => k = l
             /\ \A i \in Controllers :
                   LET linked == \E l \in Links : Open(l) /\ link[l].owner = i
                   IN /\ pending[i] <= 1
                      /\ scanning[i] => pending[i] = 0 /\ ~linked
                      /\ pending[i] = 1 => ~linked
    BY DEF OneLink
  <2>1. Shape /\ \A i \in Controllers : One(i)
    BY <1>2, Shapes DEF IInv, Core, OneAttempt
  <2>2. \A k, l \in Links : Open(k) /\ Open(l) /\ link[k].owner = link[l].owner => k = l
    <3> SUFFICES ASSUME NEW k \in Links, NEW l \in Links, Open(k), Open(l),
                        link[k].owner = link[l].owner
        PROVE  k = l
      OBVIOUS
    <3>1. PICK i \in Controllers : i = link[l].owner
      BY <2>1 DEF Shape
    <3> QED
      BY <2>1, <3>1 DEF One, Busy
  <2>3. ASSUME NEW i \in Controllers
        PROVE  LET linked == \E l \in Links : Open(l) /\ link[l].owner = i
               IN /\ pending[i] <= 1
                  /\ scanning[i] => pending[i] = 0 /\ ~linked
                  /\ pending[i] = 1 => ~linked
    BY <2>1, <2>3 DEF One, HasBusy, Busy
  <2> QED
    BY <2>2, <2>3
<1>3. IInv => Inv
  BY <1>1, <1>2 DEF Inv
<1> QED
  BY <1>3, Invariance, PTL

\* When no thread is at work, a controller that was stopped has no link open
\* and scans no more, whatever overlapped the stop (stop, l. 90-97).
THEOREM StopsClose == Spec => []StopCloses
<1>1. ASSUME IInv PROVE StopCloses
  <2> SUFFICES ASSUME overlap # "watchdog", Quiet, NEW i \in 1 .. started, stopped[i]
      PROVE  ~scanning[i] /\ \A l \in Links : Open(l) => link[l].owner # i
    BY DEF StopCloses
  <2>1. InStop /\ i \in Controllers
    <3>1. started \in 0 .. Starts /\ Starts \in Nat
      BY <1>1, ControllerAssumption DEF IInv, Types
    <3>2. i \in Controllers
      BY <3>1 DEF Controllers
    <3> QED
      BY <1>1, <3>2 DEF IInv, Core
  <2>2. todo[Main] = Done /\ Done \notin {Stop2, Stop3, Stop4}
    BY NotDone DEF Quiet, AtRest, Done
  <2> QED
    BY <2>1, <2>2 DEF InStop
<1>2. IInv => StopCloses
  BY <1>1
<1> QED
  BY <1>2, Invariance, PTL

\* One step closes no subscribed link but that of a controller that was stopped.
LEMMA SafeStep ==
    ASSUME IInv, [Next]_vars, overlap # "watchdog", NEW l \in Links,
           link[l].st = "subscribed", ~Open(l)'
    PROVE  stopped[link[l].owner]
<1>0. /\ Types /\ Shape /\ StateFits /\ GattMade /\ InStop /\ InWatchdog
  BY Shapes DEF IInv, Made, Core
<1>1. link'[l] # link[l] /\ Open(l)
  BY DEF Open
<1>2. CASE Started(started + 1) \/ Stop \/ Show \/ UNCHANGED vars
  BY <1>1, <1>2 DEF Started, Stop, Show, own, vars
<1>3. CASE Switch
  BY <1>0, <1>1, <1>3, SwitchBusy
<1>4. ASSUME NEW i \in Controllers,
             Found(i) \/ ScanTimeout(i) \/ Reconnect(i) \/ Watchdog(i) \/ ScanFailed(i)
      PROVE FALSE
  <2>1. UNCHANGED link \/ \E k \in Links : Linked(i, k)
    BY <1>0, <1>4, ConnectCases, AttemptCases
    DEF Found, ScanTimeout, Reconnect, Watchdog, ScanFailed, NotLinked, Attempt
  <2>2. ASSUME NEW k \in Links, Linked(i, k) PROVE FALSE
    <3>1. k # l
      BY <1>1, <2>2 DEF Linked, Free
    <3> QED
      BY <1>0, <1>1, <2>2, <3>1, LinkedLinks
  <2> QED
    BY <1>1, <2>1, <2>2
<1>5. ASSUME NEW k \in Links, Called(k) PROVE FALSE
  BY <1>0, <1>1, <1>5, CalledBusy
<1>6. CASE Step(Main)
  <2>0. PICK i \in Controllers : i = acting
    BY <1>0 DEF Types
  <2>1. MainDoes
    BY <1>0, <1>6, MainSteps
  <2>2. gatt[i] = l
    BY <1>0, <1>1, <2>0, <2>1, MainBusy
  <2>3. link[l].owner = i
    BY <1>0, <2>0, <2>2 DEF GattMade, Shape
  <2>4. todo[Main] \in {Stop4, Dog3}
    BY <1>1, <2>1 DEF MainDoes, Goes
  <2>5. todo[Main] # Dog3
    <3>1. Dog3 \in Watching /\ Dog3 # Dog1
      BY Distinct DEF Watching
    <3> QED
      BY <1>0, <2>0, <2>2, <3>1 DEF InWatchdog
  <2>6. Stop4 \in Stopping \ {Stop1}
    BY Distinct DEF Stopping
  <2> QED
    BY <1>0, <2>0, <2>3, <2>4, <2>5, <2>6 DEF InStop
<1>7. ASSUME NEW k \in Links, Step(k) PROVE FALSE
  <2>1. CallDoes(k) /\ Fits(k)
    BY <1>0, <1>7, CallSteps DEF StateFits
  <2>2. k = l
    BY <1>0, <1>1, <2>1, CallBusy
  <2>3. todo[l] \in {Down2, Dog3}
    BY <1>1, <2>1, <2>2 DEF CallDoes, Goes
  <2> QED
    BY <2>1, <2>2, <2>3 DEF Fits
<1> QED
  BY <1>0, <1>2, <1>3, <1>4, <1>5, <1>6, <1>7, Steps, CallbackCases

\* A link that is subscribed is closed by a stop, or after it went down: the
\* watchdog (cccdWatchdog) and the other failures never take it.
THEOREM WatchdogLeavesSubscribed == Spec => WatchdogSafe
<1>1. IInv /\ [Next]_vars =>
        [overlap # "watchdog" =>
           \A l \in Links :
              link[l].st = "subscribed" /\ (~Open(l))' => stopped[link[l].owner]]_vars
  BY SafeStep
<1> QED
  BY <1>1, Invariance, PTL DEF Spec, WatchdogSafe
----------------------------------------------------------------------------
(* The button, when no callback overlaps a stop *)

\* What is known of a state, when overlap = "none".
Calm ==
    /\ Types /\ Shape /\ OnlyMade /\ LinksMade /\ GattMade /\ StateFits
    /\ (\A i \in Controllers : One(i)) /\ Held /\ Armed /\ InWatchdog /\ InStop
    /\ Ours /\ Button /\ Posted /\ (\A l \in Links : OfBt(l)) /\ Green
    /\ bt # None => bt \in Controllers /\ bt \in 1 .. started
    /\ todo[Main] # Done => acting <= started
    /\ overlap = "none"

LEMMA Calms == ASSUME IInv, Ui, overlap = "none" PROVE Calm
<1>1. bt # None => bt \in Controllers /\ bt \in 1 .. started
  BY ControllerAssumption DEF IInv, Types, Controllers, None
<1> QED
  BY <1>1, Shapes DEF IInv, Made, Core, OneAttempt, Ui, Calm

\* What will be on the button.
LEMMA ComingKept == ASSUME UNCHANGED <<posts, shown>> PROVE Coming' = Coming
BY DEF Coming

LEMMA ComingNow == ASSUME posts = <<>> PROVE Coming = shown
BY DEF Coming

LEMMA ComingPosted ==
    ASSUME posts \in Seq(States), NEW s \in States, posts' = Append(posts, s)
    PROVE  Coming' = s /\ posts' # <<>>
<1>1. Len(posts') = Len(posts) + 1 /\ posts'[Len(posts) + 1] = s
  BY AppendProperties
<1> QED
  BY <1>1, EmptySeq DEF Coming

LEMMA ComingShown ==
    ASSUME posts \in Seq(States), Show
    PROVE  Coming' = Coming
<1>1. posts # <<>> /\ shown' = Head(posts) /\ posts' = Tail(posts)
  BY DEF Show
<1>2. /\ Len(posts) \in Nat /\ Len(posts) > 0 /\ Len(posts') = Len(posts) - 1
      /\ \A n \in 1 .. Len(posts') : posts'[n] = posts[n + 1]
  BY <1>1, HeadTailProperties, EmptySeq
<1>3. CASE Len(posts) = 1
  BY <1>1, <1>2, <1>3, HeadTailProperties, EmptySeq DEF Coming
<1>4. CASE Len(posts) > 1
  <2>1. posts' # <<>> /\ posts'[Len(posts')] = posts[Len(posts)]
    <3>1. Len(<<>>) = 0
      OBVIOUS
    <3>2. Len(posts') \in 1 .. Len(posts') /\ Len(posts') + 1 = Len(posts)
      BY <1>2, <1>4
    <3>3. posts' # <<>>
      BY <3>1, <3>2
    <3> QED
      BY <1>2, <3>2, <3>3
  <2> QED
    BY <1>1, <2>1 DEF Coming
<1> QED
  BY <1>2, <1>3, <1>4

\* A link that is open is one of the controller that MainActivity holds.
LEMMA OpenOfBt ==
    ASSUME Calm, todo[Main] \notin {Stop1, Stop2, Stop3, Stop4}, NEW l \in Links, Open(l)
    PROVE  bt # None /\ link[l].owner = bt /\ gatt[bt] = l
<1>1. PICK i \in Controllers : i = link[l].owner
  BY DEF Calm, Shape
<1>2. i \in 1 .. started
  BY <1>1 DEF Calm, LinksMade, Open, Shape, Controllers
<1>3. ~stopped[i]
  BY <1>1 DEF Calm, InStop
<1>4. i = bt /\ bt # None
  <2>1. i # None
    BY DEF Controllers, None
  <2> QED
    BY <1>2, <1>3, <2>1 DEF Calm, Ours
<1> QED
  BY <1>1, <1>4 DEF Calm, Held

LEMMA OneBusy ==
    ASSUME Calm, bt # None, NEW k \in Links, NEW l \in Links, Busy(k), Busy(l),
           link[k].owner = bt, link[l].owner = bt
    PROVE  k = l /\ ~scanning[bt] /\ pending[bt] = 0
BY DEF Calm, One, HasBusy, Shape

\* A link by which the device was subscribed to is busy.
LEMMA ReachedBusy ==
    ASSUME NEW l \in Links, Reached(l)
    PROVE  link[l].owner = bt /\ Busy(l)
BY DEF Reached, Busy, Open, Retrying, Closed

\* A controller that scans, or is to reconnect, has the main thread to itself.
LEMMA Seeking ==
    ASSUME Calm, MainIdle, NEW i \in Controllers,
           scanning[i] \/ (pending[i] > 0 /\ ~stopped[i])
    PROVE  /\ i = bt /\ bt # None /\ ~stopped[i]
           /\ \A l \in Links : todo[l] = Done /\ link[l].st # "subscribed"
           /\ Coming # "connected"
<1>1. todo[Main] = Done /\ Done \notin {Stop1, Stop2, Stop3, Stop4} /\ Done \notin Stopping
  <2>1. todo[Main] = Done
    BY DEF MainIdle, Done
  <2> QED
    BY <2>1, NoBody, NotDone
<1>2. ~stopped[i] /\ i <= started
  BY <1>1 DEF Calm, InStop, OnlyMade, Shape
<1>3. i = bt /\ bt # None
  <2>1. i \in 1 .. started
    BY <1>2 DEF Calm, Controllers, Shape
  <2>2. i # None
    BY Names DEF Controllers, None
  <2> QED
    BY <1>1, <1>2, <2>1, <2>2 DEF Calm, Ours
<1>4. \A l \in Links : link[l].owner = bt => ~Busy(l)
  <2>1. scanning[i] \/ pending[i] = 1
    BY DEF Calm, One, Shape
  <2> QED
    BY <1>3, <2>1 DEF Calm, One, HasBusy
<1>5. \A l \in Links : link[l].st # "subscribed"
  BY <1>1, <1>4, OpenOfBt DEF Open, Busy
<1>6. Coming # "connected"
  BY <1>1, <1>4, ReachedBusy DEF Calm, Green
<1>7. \A l \in Links : todo[l] = Done
  <2> SUFFICES ASSUME NEW l \in Links, todo[l] # Done PROVE FALSE
    OBVIOUS
  <2>1. todo[l] \in Retrying \cup {Sub1, Sub2}
    BY DEF Calm, Types, OfBt, Calling
  <2>2. Busy(l) /\ link[l].owner = bt
    BY <2>1 DEF Calm, OfBt, Busy
  <2> QED
    BY <1>4, <2>2
<1> QED
  BY <1>2, <1>3, <1>5, <1>6, <1>7

\* Such a controller tries: the states it shows are not those of a link.
LEMMA TryUi ==
    ASSUME Calm, MainIdle, posts = <<>>, NEW i \in Controllers,
           scanning[i] \/ (pending[i] > 0 /\ ~stopped[i]),
           shown' \in {"scanning", "connecting", "error"},
           \A l \in Links : link'[l].st = link[l].st \/ link'[l].st = "connecting",
           UNCHANGED <<bt, started, stopped, todo, acting, posts>>
    PROVE  Ui'
<1>1. /\ i = bt /\ bt # None
      /\ \A l \in Links : todo[l] = Done /\ link[l].st # "subscribed"
      /\ todo[Main] = Done /\ Done \notin Stopping /\ Done \notin Watching
  BY Seeking, NoBody DEF MainIdle, Done
<1>2. Ours'
  BY DEF Calm, Ours
<1>3. Button'
  BY <1>1 DEF Button
<1>4. Posted'
  BY DEF Calm, Posted
<1>5. \A l \in Links : OfBt(l)'
  BY <1>1 DEF OfBt
<1>6. Green'
  <2>1. Coming' = shown'
    BY DEF Coming
  <2>2. \A l \in Links : link'[l].st # "subscribed"
    BY <1>1
  <2> QED
    BY <2>1, <2>2 DEF Green
<1> QED
  BY <1>2, <1>3, <1>4, <1>5, <1>6 DEF Ui

\* A step of the main thread or of the world that leaves the button as it is.
LEMMA SameUi ==
    ASSUME Calm, UNCHANGED <<bt, started, stopped, todo, acting, gatt>>, Coming' = Coming,
           shown' = "idle" <=> shown = "idle",
           posts' \in Seq(States \ {"idle"}), posts = <<>> => posts' = <<>>,
           \A i \in Controllers : (scanning'[i] => scanning[i]) /\ (watchdog'[i] => watchdog[i]),
           \A l \in Links :
               /\ link'[l].owner = link[l].owner
               /\ link'[l].st = link[l].st
                  \/ (todo[l] = Done /\ Open(l) /\ link'[l].st = "down")
    PROVE  Ui'
<1>1. Ours'
  BY DEF Calm, Ours
<1>2. Button'
  BY DEF Calm, Button, Callbacks
<1>3. Posted'
  BY DEF Calm, Posted
<1>4. ASSUME NEW l \in Links PROVE OfBt(l)'
  <2>1. OfBt(l) /\ link'[l].owner = link[l].owner
    BY DEF Calm
  <2>2. todo[l] # Done => link'[l].st = link[l].st
    OBVIOUS
  <2> QED
    BY <2>1, <2>2 DEF OfBt, Open
<1>5. Green'
  <2>1. \A l \in Links : link'[l].st = "subscribed" => link[l].st = "subscribed"
    OBVIOUS
  <2>2. \A l \in Links : Reached(l) => Reached(l)'
    BY DEF Reached
  <2>3. Green /\ (bt # None => bt \in Controllers)
    BY DEF Calm
  <2>4. \A l \in Links :
          link'[l].st = "subscribed" => todo'[l] \in {Sub1, Sub2} \/ Coming' = "connected"
    BY <2>1, <2>3 DEF Green
  <2>5. Coming' = "connected" =>
          \/ todo'[Main] \in Stopping
          \/ bt' # None /\ ~watchdog'[bt'] /\ \E l \in Links : Reached(l)'
    BY <2>2, <2>3 DEF Green
  <2>6. todo'[Main] \in Watching /\ ~stopped'[acting'] => Coming' # "connected"
    BY <2>3 DEF Green
  <2> QED
    BY <2>4, <2>5, <2>6 DEF Green
<1> QED
  BY <1>1, <1>2, <1>3, <1>4, <1>5 DEF Ui

LEMMA StartUi == ASSUME Calm, Started(started + 1) PROVE Ui'
<1>0. PICK n \in Controllers : n = started + 1
  BY DEF Started
<1>1. /\ todo[Main] = Done /\ todo' = todo /\ acting' = acting /\ posts' = posts
      /\ bt = None /\ bt' = n /\ started' = n /\ link' = link /\ UNCHANGED stopped
      /\ shown' \in {"error", "scanning"}
  BY <1>0 DEF Started, MainIdle, Done
<1>2. Done \notin Stopping \cup Watching \cup {Stop1, Stop2, Stop3, Stop4}
  BY NoBody, Distinct
<1>3. posts = <<>> /\ \A l \in Links : todo[l] = Done
  BY <1>1 DEF Calm, Posted, OfBt
<1>4. \A l \in Links : ~Open(l)
  BY <1>1, <1>2, OpenOfBt
<1>5. n # None
  BY DEF Controllers, None
<1>6. Ours'
  <2>1. ~stopped[n]
    BY <1>0 DEF Calm, OnlyMade, Shape
  <2>2. \A i \in 1 .. n : i # n => i \in 1 .. started /\ i # None
    BY <1>0 DEF Calm, Shape, None
  <2>3. \A i \in 1 .. n : i # n => stopped[i]
    BY <1>1, <1>2, <2>2 DEF Calm, Ours
  <2> QED
    BY <1>1, <2>1, <2>3 DEF Ours
<1>7. Button' /\ Posted'
  BY <1>1, <1>2, <1>3, <1>5 DEF Button, Posted, Calm
<1>8. \A l \in Links : OfBt(l)'
  BY <1>1, <1>3 DEF OfBt
<1>9. Green'
  <2>1. Coming' = shown'
    BY <1>1, <1>3 DEF Coming
  <2>2. Coming' # "connected"
    BY <1>1, <2>1
  <2>3. \A l \in Links : link'[l].st # "subscribed"
    BY <1>1, <1>4 DEF Open
  <2> QED
    BY <2>2, <2>3 DEF Green
<1> QED
  BY <1>6, <1>7, <1>8, <1>9 DEF Ui

LEMMA StopUi == ASSUME Calm, Stop PROVE Ui'
<1>1. /\ todo[Main] = Done /\ todo'[Main] = Stop1 /\ \A l \in Links : todo'[l] = todo[l]
  BY DEF Calm, Stop, MainIdle, Done, Shape, StopBody, Stop1
<1>2. /\ bt # None /\ bt' = None /\ acting' = bt /\ Undisturbed
      /\ UNCHANGED <<started, stopped, posts, shown, link>>
  BY DEF Calm, Stop, own
<1>3. posts = <<>> /\ Callbacks = {} /\ \A l \in Links : todo[l] = Done
  BY <1>2 DEF Undisturbed, Callbacks, Done
<1>4. Done \notin Stopping \cup Watching \cup {Stop1} /\ Stop1 \in Stopping /\ Stop1 \notin Watching
  BY NoBody, Distinct DEF Stopping, Watching
<1>5. Ours'
  BY <1>1, <1>2, <1>4 DEF Calm, Ours
<1>6. Button' /\ Posted'
  <2>1. Callbacks' = {}
    BY <1>1, <1>3 DEF Callbacks
  <2> QED
    BY <1>1, <1>2, <1>3, <1>4, <2>1 DEF Button, Posted, Calm
<1>7. \A l \in Links : OfBt(l)'
  BY <1>1, <1>3 DEF OfBt
<1>8. Green'
  <2>1. Coming' = Coming
    BY <1>2, ComingKept
  <2> QED
    BY <1>1, <1>2, <1>3, <1>4, <2>1 DEF Calm, Green
<1> QED
  BY <1>5, <1>6, <1>7, <1>8 DEF Ui

LEMMA ShowUi == ASSUME Calm, Show PROVE Ui'
<1>1. /\ posts # <<>> /\ shown' = Head(posts) /\ posts' = Tail(posts)
      /\ UNCHANGED <<bt, started, stopped, todo, acting, gatt, scanning, watchdog, link>>
  BY DEF Show, own, user
<1>2. posts' \in Seq(States \ {"idle"}) /\ shown' # "idle"
  BY <1>1, HeadTailProperties DEF Calm, Posted
<1>3. Coming' = Coming
  BY ComingShown DEF Calm, Types
<1>4. bt # None /\ todo[Main] = Done /\ Done \notin Stopping
  BY <1>1, NoBody DEF Calm, Posted
<1>5. shown # "idle"
  BY <1>4 DEF Calm, Button
<1> QED
  BY <1>1, <1>2, <1>3, <1>5, SameUi

LEMMA WatchdogUi == ASSUME Calm, NEW i \in Controllers, Watchdog(i) PROVE Ui'
<1>1. /\ todo[Main] = Done /\ todo'[Main] = Dog1 /\ \A l \in Links : todo'[l] = todo[l]
      /\ acting' = i /\ Undisturbed /\ watchdog[i]
      /\ watchdog' = [watchdog EXCEPT ![i] = FALSE]
      /\ UNCHANGED <<bt, started, stopped, posts, shown, link, gatt, scanning>>
  BY DEF Calm, Watchdog, MainIdle, Done, Shape, WatchdogBody, Dog1
<1>2. posts = <<>> /\ Callbacks = {} /\ \A l \in Links : todo[l] = Done
  BY <1>1 DEF Undisturbed, Callbacks, Done
<1>3. /\ Done \notin Stopping \cup Watching \cup {Stop1, Stop2, Stop3, Stop4}
      /\ Dog1 \notin Stopping \cup {Stop1}
  BY NoBody, Distinct DEF Stopping
<1>4. Ours'
  BY <1>1, <1>3 DEF Calm, Ours
<1>5. Button' /\ Posted'
  BY <1>1, <1>2, <1>3 DEF Button, Posted, Calm
<1>6. \A l \in Links : OfBt(l)'
  BY <1>1, <1>2 DEF OfBt
<1>7. Coming' = Coming
  BY <1>1, ComingKept
<1>8. ~stopped[i] => i = bt /\ Coming # "connected"
  <2>1. i \in 1 .. started /\ i # None
    BY <1>1 DEF Calm, OnlyMade, Shape, Controllers, None
  <2>2. ~stopped[i] => i = bt
    BY <1>1, <1>3, <2>1 DEF Calm, Ours
  <2> QED
    BY <1>1, <1>3, <2>2 DEF Calm, Green
<1>9. Green'
  <2>1. \A l \in Links : Reached(l) => Reached(l)'
    BY <1>1 DEF Reached
  <2>2. bt # None /\ ~watchdog[bt] => ~watchdog'[bt]
    BY <1>1 DEF Calm, Shape
  <2>3. Green
    BY DEF Calm
  <2>4. \A l \in Links :
          link'[l].st = "subscribed" => todo'[l] \in {Sub1, Sub2} \/ Coming' = "connected"
    BY <1>1, <1>7, <2>3 DEF Green
  <2>5. Coming' = "connected" =>
          \/ todo'[Main] \in Stopping
          \/ bt' # None /\ ~watchdog'[bt'] /\ \E l \in Links : Reached(l)'
    BY <1>1, <1>3, <1>7, <2>1, <2>2, <2>3 DEF Green
  <2>6. ~stopped'[acting'] => Coming' # "connected"
    BY <1>1, <1>7, <1>8
  <2> QED
    BY <2>4, <2>5, <2>6 DEF Green
<1> QED
  BY <1>4, <1>5, <1>6, <1>9 DEF Ui

LEMMA OwnUi ==
    ASSUME Calm, NEW i \in Controllers,
           Found(i) \/ ScanTimeout(i) \/ ScanFailed(i) \/ Reconnect(i)
    PROVE  Ui'
<1>1. MainIdle /\ UNCHANGED <<bt, started, stopped, todo, acting, posts, watchdog>>
  BY DEF Found, ScanTimeout, ScanFailed, Reconnect
<1>2. ASSUME NEW k \in Links, Linked(i, k)
      PROVE  \A l \in Links : link'[l].st = link[l].st \/ link'[l].st = "connecting"
  BY <1>2, LinkedLinks DEF Calm
<1>3. scanning[i] => posts = <<>>
  BY <1>1, Seeking DEF Calm, Posted
<1>4. CASE /\ scanning[i] \/ (pending[i] > 0 /\ ~stopped[i])
           /\ scanning[i] \/ posts = <<>>
           /\ shown' \in {"scanning", "connecting", "error"}
           /\ UNCHANGED link \/ \E k \in Links : Linked(i, k)
  <2>1. \A l \in Links : link'[l].st = link[l].st \/ link'[l].st = "connecting"
    BY <1>2, <1>4
  <2>2. posts = <<>>
    BY <1>3, <1>4
  <2> QED
    BY <1>1, <1>4, <2>1, <2>2, TryUi
<1>5. CASE UNCHANGED <<scanning, shown, link, gatt>>
  <2>1. Coming' = Coming
    BY <1>1, <1>5, ComingKept
  <2> QED
    BY <1>1, <1>5, <2>1, SameUi DEF Calm, Posted
<1>6. CASE Found(i)
  <2>1. scanning[i] /\ DoConnect(i) /\ Types
    BY <1>6 DEF Found, Calm
  <2>2. NotLinked(i) \/ \E k \in Links : Linked(i, k)
    BY <2>1, ConnectCases
  <2> QED
    BY <1>4, <2>1, <2>2 DEF Linked, NotLinked
<1>7. CASE ScanTimeout(i)
  <2>1. CASE scanning[i]
    BY <1>4, <1>7, <2>1 DEF ScanTimeout
  <2>2. CASE ~scanning[i]
    BY <1>5, <1>7, <2>2 DEF ScanTimeout
  <2> QED
    BY <2>1, <2>2
<1>9. CASE ScanFailed(i)
  <2>1. scanning[i]
    BY <1>9 DEF ScanFailed, Calm
  <2> QED
    BY <1>4, <1>9, <2>1 DEF ScanFailed
<1>8. CASE Reconnect(i)
  <2>1. pending[i] > 0 /\ posts = <<>>
    BY <1>8 DEF Reconnect, Undisturbed
  <2>2. UNCHANGED <<scanning, shown, link, gatt>> \/ (~stopped[i] /\ Attempt(i))
    BY <1>8, AttemptCases DEF Calm, Reconnect
  <2>3. CASE ~stopped[i] /\ Attempt(i)
    BY <1>4, <2>1, <2>3 DEF Attempt, Linked
  <2> QED
    BY <1>5, <2>2, <2>3
<1> QED
  BY <1>6, <1>7, <1>8, <1>9

LEMMA SwitchUi == ASSUME Calm, Switch PROVE Ui'
<1>1. /\ \A l \in Links : todo[l] = Done
      /\ UNCHANGED <<bt, started, stopped, todo, acting, gatt, scanning, watchdog, posts, shown>>
  BY DEF Switch, AtRest, Done, own
<1>2. Coming' = Coming
  BY <1>1, ComingKept
<1>3. \A l \in Links :
        /\ link'[l].owner = link[l].owner
        /\ link'[l].st = link[l].st \/ (Open(l) /\ link'[l].st = "down")
  BY SwitchLinks DEF Calm
<1> QED
  BY <1>1, <1>2, <1>3, SameUi DEF Calm, Posted

LEMMA CalledUi == ASSUME Calm, NEW l \in Links, Called(l) PROVE Ui'
<1>0. /\ todo[l] = Done /\ Open(l)
      /\ UNCHANGED <<bt, started, stopped, scanning, gatt, acting, shown>>
      /\ \A k \in Links : link'[k].owner = link[k].owner
      /\ \A k \in Links : k # l => link'[k] = link[k] /\ todo'[k] = todo[k]
      /\ Open(l)' /\ todo'[Main] = todo[Main]
  BY CalledBusy DEF Calm, Called, Turns, Shape
<1>1. todo[Main] = Done
  BY DEF Called, AtRest, MayCall, MainIdle, Done, Calm
<1>2. /\ Done \notin Stopping \cup Watching \cup Calling \cup {Stop1, Stop2, Stop3, Stop4}
      /\ {Sub1, Fail1, Down1} \cap {Stop6, Done} = {}
  BY NoBody, Distinct
<1>3. bt # None /\ link[l].owner = bt /\ gatt[bt] = l
  BY <1>0, <1>1, <1>2, OpenOfBt
<1>4. \A k \in Links : Busy(k) /\ link[k].owner = bt => k = l /\ ~scanning[bt]
  BY <1>0, <1>3, OneBusy DEF Busy
<1>5. ~scanning[bt]
  BY <1>0, <1>3, <1>4 DEF Busy
<1>6. Ours'
  BY <1>0 DEF Calm, Ours
<1>7. posts' = posts \/ posts' = Append(posts, "error")
  BY DEF Called
<1>8. Button'
  BY <1>0, <1>1, <1>2 DEF Calm, Button
<1>9. Posted'
  <2>1. posts' \in Seq(States \ {"idle"})
    BY <1>7, AppendProperties DEF Calm, Posted, States
  <2> QED
    BY <1>0, <1>1, <1>3, <1>5, <2>1 DEF Posted
<1>10. \A k \in Links : OfBt(k)'
  <2>1. ASSUME NEW k \in Links, k # l PROVE OfBt(k)'
    <3>1. OfBt(k) /\ link'[k] = link[k] /\ todo'[k] = todo[k]
      BY <1>0, <2>1 DEF Calm
    <3> QED
      BY <1>0, <3>1 DEF OfBt, Open
  <2>2. todo'[l] \in {Done, Sub1, Fail1, Down1}
    BY DEF Called, Turns, Calm, Shape
  <2>3. OfBt(l)'
    BY <1>0, <1>1, <1>2, <1>3, <2>2 DEF OfBt
  <2> QED
    BY <2>1, <2>3
<1>11. \A k \in Links : k # l => link'[k].st # "subscribed"
  <2>1. \A k \in Links : Open(k) => k = l
    BY <1>1, <1>2, <1>4, OpenOfBt DEF Busy
  <2> QED
    BY <1>0, <2>1 DEF Open
<1>12. link'[l].st = "subscribed" => todo'[l] = Sub1
  BY DEF Called, Turns, Calm, Shape
<1>13. Coming' = "connected" => ~watchdog'[bt] /\ Reached(l)'
  <2>1. CASE posts' = posts
    <3>1. Coming' = Coming
      BY <1>0, <2>1, ComingKept
    <3>2. Coming = "connected" => ~watchdog[bt] /\ Reached(l)
      BY <1>1, <1>2, <1>4, ReachedBusy DEF Calm, Green
    <3>3. Reached(l) => link[l].st \in {"subscribed", "down"}
      BY <1>0, <1>2 DEF Reached, Calling, Retrying, Closed
    <3>4. link[l].st \in {"subscribed", "down"} =>
            /\ watchdog' = watchdog
            /\ \/ link'[l].st = "down" /\ todo'[l] = Done
               \/ todo'[l] = Down1
      BY DEF Called, Turns, Calm, Shape
    <3> QED
      BY <1>0, <1>3, <3>1, <3>2, <3>3, <3>4 DEF Reached
  <2>2. CASE posts' = Append(posts, "error")
    BY <2>2, ComingPosted DEF Calm, Types, States
  <2> QED
    BY <1>7, <2>1, <2>2
<1>14. Green'
  <2>1. \A k \in Links : link'[k].st = "subscribed" => todo'[k] \in {Sub1, Sub2}
    BY <1>11, <1>12
  <2>2. Coming' = "connected" => bt' # None /\ ~watchdog'[bt'] /\ \E k \in Links : Reached(k)'
    BY <1>0, <1>3, <1>13
  <2>3. todo'[Main] \notin Watching
    BY <1>0, <1>1, <1>2
  <2> QED
    BY <2>1, <2>2, <2>3 DEF Green
<1> QED
  BY <1>6, <1>8, <1>9, <1>10, <1>14 DEF Ui

\* A statement of the main thread, while no callback is under way.
LEMMA MainUi ==
    ASSUME Calm, MainDoes, acting' = (IF todo'[Main] = Done THEN 1 ELSE acting),
           UNCHANGED user, todo[Main] # Done
    PROVE  Ui'
<1>0. PICK a \in Controllers : a = acting
  BY DEF Calm, Types
<1>1. /\ UNCHANGED <<bt, started, posts>>
      /\ \A l \in Links : link'[l].owner = link[l].owner /\ todo'[l] = todo[l]
      /\ \A l \in Links : Open(l)' => Open(l)
  BY MainBusy, MainTouches DEF Calm, user
<1>2. posts = <<>> /\ \A l \in Links : todo[l] = Done
  BY DEF Calm, Posted, OfBt
<1>3. Coming = shown /\ Coming' = shown'
  BY <1>1, <1>2 DEF Coming
<1>4. \A l \in Links : link'[l].st = "subscribed" => link[l].st = "subscribed"
  <2>1. link' = link \/ CloseLink(Main)
    BY MainTouches
  <2>2. CASE CloseLink(Main)
    BY <2>2, CloseTyped DEF Calm
  <2> QED
    BY <2>1, <2>2
<1>5. Posted' /\ \A l \in Links : OfBt(l)'
  BY <1>1, <1>2 DEF Calm, Posted, OfBt
<1>6. Callbacks' = {}
  BY <1>1, <1>2 DEF Callbacks, Done
<1>7. /\ Stop1 \in Stopping /\ Stop1 \notin Watching
      /\ Done \notin Stopping \cup Watching
  BY NoBody, Distinct DEF Stopping, Watching
<1>8. /\ Stopping \cap Watching = {}
      /\ Stop6 \notin {Stop1, Stop2, Stop3, Stop4}
      /\ {Dog1, Dog2, Dog3, Dog4, Dog5, Done} \cap {Stop1, Stop2, Stop3, Stop4} = {}
  BY Distinct DEF Stopping, Watching
<1>9. CASE todo[Main] \in Stopping \ {Stop6}
  <2>1. todo'[Main] \in Stopping \ {Stop1} /\ acting' = a /\ shown' = shown
    <3>1. todo[Main] # Stop6 /\ todo[Main] \notin {Dog1, Dog2, Dog3, Dog4, Dog5}
      BY <1>8, <1>9 DEF Watching
    <3>2. {Stop2, Stop3, Stop4, Stop5, Stop6} \subseteq Stopping \ {Stop1}
      BY Distinct DEF Stopping
    <3>3. todo'[Main] \in {Stop2, Stop3, Stop4, Stop5, Stop6} /\ shown' = shown
      BY <3>1 DEF MainDoes, Goes, Calm, Shape
    <3> QED
      BY <1>0, <1>7, <3>2, <3>3
  <2>2. bt = None
    BY <1>9 DEF Calm, Button
  <2>3. Ours'
    <3>1. \A i \in Controllers : stopped[i] => stopped'[i]
      BY <1>0, MainTouches DEF Calm, Shape
    <3>2. \A i \in 1 .. started : i \in Controllers /\ i # None
      BY ControllerAssumption DEF Calm, Types, Controllers, None
    <3>3. \A i \in 1 .. started : stopped[i] \/ (a = i /\ todo[Main] = Stop1)
      BY <1>0, <2>2, <3>2 DEF Calm, Ours
    <3>4. todo[Main] = Stop1 => stopped'[a]
      <4>1. Stop1 \notin {Stop2, Stop3, Stop4, Stop5, Stop6, Dog1, Dog2, Dog3, Dog4, Dog5}
        BY Distinct
      <4>2. todo[Main] = Stop1 => stopped' = [stopped EXCEPT ![a] = TRUE]
        BY <1>0, <4>1 DEF MainDoes, Goes, SetStopped
      <4> QED
        BY <4>2 DEF Calm, Shape
    <3>5. \A i \in 1 .. started : stopped'[i]
      BY <3>1, <3>2, <3>3, <3>4
    <3> QED
      BY <1>1, <2>2, <3>5 DEF Ours
  <2>4. Button'
    BY <1>1, <1>2, <1>6, <2>1, <2>2 DEF Button
  <2>5. Green'
    <3>1. \A l \in Links : link'[l].st = "subscribed" => Coming' = "connected" \/ todo'[l] \in {Sub1, Sub2}
      BY <1>1, <1>3, <1>4, <2>1 DEF Calm, Green
    <3>2. todo'[Main] \notin Watching
      BY <1>8, <2>1
    <3> QED
      BY <2>1, <3>1, <3>2 DEF Green
  <2> QED
    BY <1>5, <2>3, <2>4, <2>5 DEF Ui
<1>10. CASE todo[Main] = Stop6
  <2>1. todo'[Main] = Done /\ shown' = "idle" /\ UNCHANGED <<stopped, link>>
    <3>1. Stop6 \notin {Stop1, Stop2, Stop3, Stop4, Stop5, Dog1, Dog2, Dog3, Dog4, Dog5}
      BY Distinct
    <3> QED
      BY <1>10, <3>1 DEF MainDoes, Goes, Calm, Shape, own
  <2>2. bt = None /\ Stop6 # Stop1
    BY <1>10, Distinct DEF Calm, Button, Stopping
  <2>3. Ours'
    BY <1>1, <1>10, <2>1, <2>2 DEF Calm, Ours
  <2>4. Button'
    BY <1>1, <1>7, <2>1, <2>2 DEF Button
  <2>5. \A l \in Links : ~Open(l)
    BY <1>8, <1>10, <2>2, OpenOfBt
  <2>6. Green'
    <3>1. \A l \in Links : link'[l].st # "subscribed"
      BY <2>1, <2>5 DEF Open
    <3>2. Coming' # "connected"
      BY <1>3, <2>1
    <3> QED
      BY <3>1, <3>2 DEF Green
  <2> QED
    BY <1>5, <2>3, <2>4, <2>6 DEF Ui
<1>11. CASE todo[Main] \in Watching
  <2>0. todo[Main] \notin Stopping
    BY <1>8, <1>11
  <2>1. /\ todo'[Main] \in Watching \cup {Done}
        /\ UNCHANGED stopped
        /\ shown' = shown \/ (shown' = "scanning" /\ todo[Main] = Dog2)
    BY <2>0 DEF MainDoes, Goes, Calm, Shape, own, Clear, Schedule, Stopping, Watching
  <2>2. Ours'
    <3>1. todo[Main] # Stop1
      BY <1>7, <1>11
    <3> QED
      BY <1>1, <2>1, <3>1 DEF Calm, Ours
  <2>3. ~stopped[a] => bt # None
    <3>1. a \in 1 .. started /\ a # None
      BY <1>0, <1>7, <1>11 DEF Calm, Controllers, Shape, None
    <3> QED
      BY <1>7, <1>11, <3>1 DEF Calm, Ours
  <2>4. stopped[a] => todo'[Main] = Done /\ shown' = shown /\ UNCHANGED <<own, link>>
    <3>1. Dog1 \notin {Stop1, Stop2, Stop3, Stop4, Stop5, Stop6, Dog2, Dog3, Dog4, Dog5}
      BY Distinct
    <3>2. stopped[a] => todo[Main] = Dog1
      BY <1>0, <1>11 DEF Calm, InWatchdog
    <3> QED
      BY <1>0, <3>1, <3>2 DEF MainDoes, Goes, Calm, Shape
  <2>5. Button'
    <3>1. todo'[Main] \notin Stopping
      BY <1>7, <1>8, <2>1
    <3>2. shown = "idle" <=> bt = None
      BY <2>0 DEF Calm, Button
    <3>3. shown' = "idle" <=> bt' = None
      BY <1>1, <2>1, <2>3, <2>4, <3>2
    <3> QED
      BY <3>1, <3>3 DEF Button
  <2>6. CASE stopped[a]
    <3>1. Coming' = Coming /\ todo'[Main] \notin Watching
      BY <1>3, <1>7, <2>4, <2>6
    <3>2. UNCHANGED <<bt, gatt, link, watchdog>>
      BY <1>1, <2>4, <2>6 DEF own
    <3>3. \A l \in Links : Reached(l) => Reached(l)'
      BY <1>1, <3>2 DEF Reached
    <3>4. Green'
      BY <1>1, <2>0, <3>1, <3>2, <3>3 DEF Calm, Green
    <3> QED
      BY <1>5, <2>2, <2>5, <3>4 DEF Ui
  <2>7. CASE ~stopped[a]
    <3>1. Coming # "connected"
      BY <1>0, <1>11, <2>7 DEF Calm, Green
    <3>2. Coming' # "connected"
      BY <1>3, <2>1, <3>1
    <3>3. \A l \in Links : link[l].st # "subscribed"
      BY <1>2, <3>1, Places DEF Calm, Green
    <3>4. Green'
      BY <1>4, <3>2, <3>3 DEF Green
    <3> QED
      BY <1>5, <2>2, <2>5, <3>4 DEF Ui
  <2> QED
    BY <2>6, <2>7
<1> QED
  BY <1>9, <1>10, <1>11 DEF Calm, Types

\* A statement of the callback of a link of the controller.
LEMMA CallUi ==
    ASSUME Calm, NEW l \in Links, CallDoes(l), todo[l] # Done,
           acting' = (IF todo'[Main] = Done THEN 1 ELSE acting), UNCHANGED user
    PROVE  Ui'
<1>1. /\ todo[Main] = Done /\ bt # None /\ bt \in Controllers /\ link[l].owner = bt
      /\ todo[l] # Stop6 /\ (todo[l] \in {Sub1, Sub2} => Open(l))
  BY DEF Calm, OfBt
<1>2. /\ UNCHANGED <<bt, started, stopped, scanning, shown>> /\ todo'[Main] = Done
      /\ \A k \in Links : link'[k].owner = link[k].owner /\ (Open(k)' => Open(k))
      /\ \A k \in Links : k # l => link'[k] = link[k] /\ todo'[k] = todo[k]
  <2>1. todo'[Main] = Done
    BY <1>1 DEF CallDoes, Goes, Calm, Shape
  <2> QED
    BY <2>1, CallBusy, CallTouches DEF Calm, user
<1>3. /\ Done \notin Stopping \cup Watching \cup Calling \cup {Stop1, Stop2, Stop3, Stop4}
      /\ {Sub1, Sub2} \cap {Down1, Down2, Down3, Down4, Lost1, Stop6} = {}
      /\ Stop6 \notin {Down2, Down3, Down4, Dog2, Dog3, Dog4, Dog5, Lost1}
  BY NoBody, Distinct
<1>4. Busy(l)
  <2>1. todo[l] \in Retrying \/ todo[l] \in {Sub1, Sub2}
    BY <1>1 DEF CallDoes, Goes, Retrying, Closed
  <2> QED
    BY <1>1, <2>1 DEF Busy
<1>5. \A k \in Links : Busy(k) /\ link[k].owner = bt => k = l /\ ~scanning[bt]
  BY <1>1, <1>4, OneBusy
<1>6. Ours'
  BY <1>1, <1>2, <1>3 DEF Calm, Ours
<1>7. Button'
  BY <1>1, <1>2, <1>3 DEF Calm, Button
<1>8. /\ \/ todo'[l] \in {Down2, Down3, Down4, Dog2, Dog3, Dog4, Dog5, Lost1, Done}
         \/ todo[l] = Sub1 /\ todo'[l] = Sub2 /\ link' = link
      /\ posts' = posts \/ posts' = Append(posts, "scanning")
         \/ (posts' = Append(posts, "connected") /\ todo[l] = Sub2 /\ todo'[l] = Done
             /\ UNCHANGED own)
  <2>1. ~stopped[bt]
    BY <1>1 DEF Calm, Ours
  <2> QED
    BY <1>1, <2>1 DEF CallDoes, Goes, Calm, Shape, own
<1>9. Posted'
  <2>1. posts' \in Seq(States \ {"idle"})
    BY <1>8, AppendProperties DEF Calm, Posted, States
  <2>2. ~scanning[bt]
    BY <1>1, <1>4, <1>5
  <2> QED
    BY <1>1, <1>2, <2>1, <2>2 DEF Posted
<1>10. \A k \in Links : OfBt(k)'
  <2>1. ASSUME NEW k \in Links, k # l PROVE OfBt(k)'
    <3>1. OfBt(k) /\ link'[k] = link[k] /\ todo'[k] = todo[k]
      BY <1>2, <2>1 DEF Calm
    <3> QED
      BY <1>1, <1>2, <3>1 DEF OfBt, Open
  <2>2. todo'[l] # Stop6 /\ (todo'[l] \in {Sub1, Sub2} => link' = link /\ Open(l))
    <3>1. {Sub1, Sub2} \cap {Down2, Down3, Down4, Dog2, Dog3, Dog4, Dog5, Lost1, Done} = {}
      BY Distinct
    <3>2. Stop6 \notin {Down2, Down3, Down4, Dog2, Dog3, Dog4, Dog5, Lost1, Done, Sub2}
      BY Distinct
    <3> QED
      BY <1>1, <1>8, <3>1, <3>2
  <2>3. OfBt(l)'
    BY <1>1, <1>2, <2>2 DEF OfBt, Open
  <2> QED
    BY <2>1, <2>3
<1>11. \A k \in Links : link[k].st = "subscribed" => k = l
  BY <1>1, <1>3, <1>5, OpenOfBt DEF Open, Busy
<1>12. link'[l].st = "subscribed" => link[l].st = "subscribed" /\ Open(l)
  <2>1. link' = link \/ link'[l].st = "closed"
    <3>1. link' = link \/ CloseLink(l)
      BY CallTouches
    <3>2. CASE CloseLink(l)
      BY <3>2, CloseTyped DEF Calm, Shape
    <3> QED
      BY <3>1, <3>2
  <2> QED
    BY <2>1 DEF Open
<1>13. link'[l].st = "subscribed" => todo[l] \in {Sub1, Sub2}
  <2>1. todo[l] \in {Down1, Down2, Fail1, Dog2, Dog3} \cup Closed \cup {Sub1, Sub2}
    BY <1>1 DEF CallDoes, Goes, Closed
  <2>2. todo[l] \notin {Sub1, Sub2} => link[l].st # "subscribed" \/ ~Open(l)
    BY <2>1 DEF Calm, StateFits, Fits
  <2> QED
    BY <1>12, <2>2
<1>14. CASE todo[l] = Sub2
  <2>1. posts' = Append(posts, "connected") /\ todo'[l] = Done /\ UNCHANGED <<own, link>>
    <3>1. Sub2 \notin {Sub1, Down1, Down2, Down3, Down4, Fail1, Dog2, Dog3, Dog4, Dog5, Lost1, Stop6}
      BY Distinct
    <3> QED
      BY <1>14, <3>1 DEF CallDoes, Goes, Calm, Shape
  <2>2. Coming' = "connected"
    BY <2>1, ComingPosted DEF Calm, Types, States
  <2>3. Open(l) /\ link[l].st = "subscribed" /\ gatt[bt] = l
    <3>1. Open(l)
      BY <1>1, <1>14
    <3> QED
      BY <1>1, <1>14, <3>1 DEF Calm, StateFits, Fits, Held, Open
  <2>4. ~watchdog[bt]
    <3>1. Sub2 \notin {Done, Sub1, Fail1, Down1}
      BY Distinct
    <3>2. ~stopped[bt]
      BY <1>1 DEF Calm, Ours
    <3> QED
      BY <1>1, <1>14, <2>3, <3>1, <3>2 DEF Calm, Armed
  <2>5. Reached(l)' /\ ~watchdog'[bt]
    BY <1>1, <1>2, <2>1, <2>3, <2>4 DEF Reached, own
  <2>6. Green'
    BY <1>1, <1>2, <1>3, <2>2, <2>5 DEF Green
  <2> QED
    BY <1>6, <1>7, <1>9, <1>10, <2>6 DEF Ui
<1>15. CASE todo[l] # Sub2
  <2>1. \A k \in Links : link'[k].st = "subscribed" => k = l /\ todo[l] = Sub1
    BY <1>2, <1>11, <1>13, <1>15
  <2>2. todo[l] = Sub1 => todo'[l] = Sub2
    <3>1. Sub1 \notin {Sub2, Down1, Down2, Down3, Down4, Fail1, Dog2, Dog3, Dog4, Dog5, Lost1, Stop6}
      BY Distinct
    <3> QED
      BY <3>1 DEF CallDoes, Goes, Calm, Shape
  <2>3. \A k \in Links : link'[k].st = "subscribed" => todo'[k] \in {Sub1, Sub2}
    BY <2>1, <2>2
  <2>4. Coming' = "connected" => ~watchdog'[bt] /\ Reached(l)'
    <3> SUFFICES ASSUME Coming' = "connected" PROVE ~watchdog'[bt] /\ Reached(l)'
      OBVIOUS
    <3>1. posts' = posts
      <4>1. posts' # Append(posts, "scanning")
        BY ComingPosted DEF Calm, Types, States
      <4> QED
        BY <1>8, <1>15, <4>1
    <3>2. Coming = "connected"
      BY <1>2, <3>1, ComingKept
    <3>3. ~watchdog[bt] /\ Reached(l)
      BY <1>1, <1>3, <1>5, <3>2, ReachedBusy DEF Calm, Green
    <3>4. todo[l] \in {Down1, Down2, Down3, Down4, Lost1}
      BY <3>3 DEF Reached
    <3>5. ~watchdog'[bt]
      BY <1>1, <3>3, CallTouches DEF Calm, Shape
    <3>6. todo'[l] \in {Down2, Down3, Down4, Lost1}
      <4>1. {Down1, Down2, Down3, Down4, Lost1} \cap {Sub1, Sub2, Fail1, Dog2, Dog3, Dog4, Dog5, Stop6} = {}
        BY Distinct
      <4>2. todo[l] # Lost1
        <5>1. Lost1 \notin {Down1, Down2, Down3, Down4, Sub1, Sub2, Fail1, Dog2, Dog3, Dog4, Dog5, Stop6}
          BY Distinct
        <5>2. posts \in Seq(States) /\ "scanning" \in States
          BY DEF Calm, Types, States
        <5>3. posts' # Append(posts, "scanning")
          BY <5>2, ComingPosted
        <5> QED
          BY <5>1, <5>3 DEF CallDoes, Goes
      <4>3. ~stopped[bt]
        BY <1>1 DEF Calm, Ours
      <4> QED
        BY <1>1, <3>4, <4>1, <4>2, <4>3 DEF CallDoes, Goes, Calm, Shape
    <3> QED
      BY <1>1, <1>2, <3>5, <3>6 DEF Reached
  <2>5. Green'
    BY <1>1, <1>2, <1>3, <2>3, <2>4 DEF Green
  <2> QED
    BY <1>6, <1>7, <1>9, <1>10, <2>5 DEF Ui
<1> QED
  BY <1>14, <1>15

LEMMA UiStep == ASSUME IInv, Ui, overlap = "none", [Next]_vars PROVE Ui'
<1>0. Calm /\ Types
  BY Calms DEF Calm
<1>1. CASE Step(Main)
  <2>1. todo[Main] # Done
    BY <1>1 DEF Step, Done
  <2> QED
    BY <1>0, <1>1, <2>1, MainSteps, MainUi
<1>2. ASSUME NEW l \in Links, Step(l) PROVE Ui'
  <2>1. todo[l] # Done
    BY <1>2 DEF Step, Done
  <2> QED
    BY <1>0, <1>2, <2>1, CallSteps, CallUi
<1>3. CASE UNCHANGED vars
  <2>1. UNCHANGED <<bt, started, stopped, todo, acting, gatt, posts, shown, scanning, watchdog, link>>
    BY <1>3 DEF vars, user, own
  <2> QED
    BY <1>0, <2>1, ComingKept, SameUi DEF Calm, Posted
<1> QED
  BY <1>0, <1>1, <1>2, <1>3, Steps, CallbackCases, StartUi, StopUi, ShowUi, SwitchUi, OwnUi,
     WatchdogUi, CalledUi

LEMMA InitUi == ASSUME Init PROVE Ui
<1>1. /\ todo[Main] = Done /\ \A l \in Links : todo[l] = Done /\ link[l].st = "none"
      /\ started = 0 /\ bt = None /\ posts = <<>> /\ shown = "idle"
  BY DEF Init, NoLink, Done
<1>2. Done \notin Stopping \cup Watching
  BY NoBody
<1>3. posts \in Seq(States \ {"idle"})
  BY <1>1, EmptySeq
<1>4. Coming = "idle"
  BY <1>1 DEF Coming
<1>5. Ours /\ Button /\ Posted
  BY <1>1, <1>2, <1>3 DEF Ours, Button, Posted
<1>6. (\A l \in Links : OfBt(l)) /\ Green
  BY <1>1, <1>2, <1>4 DEF OfBt, Green
<1> QED
  BY <1>5, <1>6 DEF Ui

\* When no thread is at work and no callback overlaps a stop, the button tells
\* the truth: it offers to connect exactly when there is no controller, and is
\* green exactly when the device was subscribed to (MainActivity.kt, toggleBt).
THEOREM HonestButton == Spec => []UiHonest
<1>1. Init => UiInv
  BY InitIInv, InitUi DEF UiInv
<1>2. UiInv /\ [Next]_vars => UiInv'
  BY IInvStep, UiStep, OverlapKept DEF UiInv
<1>3. ASSUME UiInv PROVE UiHonest
  <2> SUFFICES ASSUME overlap = "none", Quiet
      PROVE  /\ shown = "idle" <=> bt = None
             /\ shown = "connected" =>
                   gatt[bt] # None /\ link[gatt[bt]].st \in {"subscribed", "down"}
             /\ \A l \in Links : link[l].st = "subscribed" => shown = "connected"
    BY DEF UiHonest
  <2>1. Calm
    BY <1>3, Calms DEF UiInv
  <2>2. todo[Main] = Done /\ (\A l \in Links : todo[l] = Done) /\ posts = <<>>
    BY DEF Quiet, AtRest, Done
  <2>3. Coming = shown /\ Done \notin Stopping \cup Watching \cup Calling
    BY <2>2, ComingNow, NoBody
  <2>4. shown = "idle" <=> bt = None
    BY <2>1, <2>2, <2>3 DEF Calm, Button
  <2>5. ASSUME shown = "connected"
        PROVE  gatt[bt] # None /\ link[gatt[bt]].st \in {"subscribed", "down"}
    <3>1. PICK l \in Links : Reached(l)
      BY <2>1, <2>2, <2>3, <2>5 DEF Calm, Green
    <3>2. gatt[bt] = l /\ link[l].st \in {"subscribed", "down"}
      BY <2>2, <2>3, <3>1 DEF Reached, Calling, Retrying, Closed
    <3> QED
      BY <3>2, Names
  <2>6. \A l \in Links : link[l].st = "subscribed" => shown = "connected"
    BY <2>1, <2>2, <2>3 DEF Calm, Green, Calling
  <2> QED
    BY <2>4, <2>5, <2>6
<1>4. UiInv => UiHonest
  BY <1>3
<1> QED
  BY <1>1, <1>2, <1>4, PTL DEF Spec
=============================================================================
