----------------------------- MODULE Ota_proofs -----------------------------
(***************************************************************************)
(* For any images, tasks and numbers of updates and resets: the device     *)
(* always boots, and a confirmed application is not taken back.            *)
(*                                                                         *)
(* The argument is about the slot that runs: it is complete and nobody     *)
(* writes into it, because updates go to the other slot.  A reset, asked   *)
(* for or not, is the one step that changes it (lemma RestartKeeps).       *)
(***************************************************************************)
EXTENDS Ota, TLAPS

\* The initial state.
LEMMA InitInv == Init => IInv
<1> SUFFICES ASSUME Init PROVE IInv
  OBVIOUS
<1>1. image \in [Slots -> Images \cup {Built, Broken}] /\ Good(image, running)
  BY DEF Init, Good, Slots, Built, Broken
<1>2. mark \in [Slots -> Marks] /\ mark[running] = "none" /\ mark[boot] = "none"
  BY DEF Init, Slots, Marks
<1>3. task \in [Tasks -> [step : {"none", "start", "write", "finish", "done"},
                         image : Images \cup {Built}, alone : BOOLEAN]]
  BY DEF Init, NoTask
<1>4. updates \in 0 .. Updates /\ resets \in 0 .. Resets
  BY OtaAssumption DEF Init
<1>5. TypeOK
  BY <1>1, <1>2, <1>3, <1>4 DEF Init, TypeOK, Slots
<1> QED
  BY <1>1, <1>2, <1>5 DEF Init, IInv

\* A reset, by whatever hand: m is what the marks are by then, with the
\* running application refused if there is another one to run.
LEMMA RestartKeeps ==
  ASSUME IInv, resets' \in 0 .. Resets, NEW m,
         \/ m = mark
         \/ MayRollBack /\ m = [mark EXCEPT ![running] = "invalid"],
         Restart(m)
  PROVE  IInv'
<1> DEFINE n == AfterTrial(m)
<1>1. m \in [Slots -> Marks]
  BY DEF IInv, TypeOK, Marks
<1>2. /\ m[Other(running)] = mark[Other(running)]
      /\ m[running] \in {mark[running], "invalid"}
  BY DEF IInv, TypeOK, Slots, Other
<1>3. /\ n \in [Slots -> Marks]
      /\ \A s \in Slots : n[s] = IF m[s] = "pending" THEN "aborted" ELSE m[s]
  BY <1>1 DEF AfterTrial, Marks
<1> HIDE DEF n
<1>4. /\ mark' = OnTrial(n) /\ running' = Runs(image, n)
      /\ timer' = Armed(OnTrial(n), Runs(image, n))
      /\ image' = image /\ boot' = boot
  BY DEF Restart, n
<1>5. Selected(n) \in Slots /\ Runs(image, n) \in Slots
  BY DEF Selected, Runs, Other, Slots, IInv, TypeOK
<1>6. /\ mark' \in [Slots -> Marks]
      /\ \A s \in Slots : mark'[s] = IF s = Selected(n) /\ n[s] = "new" THEN "pending" ELSE n[s]
  BY <1>3, <1>4, <1>5 DEF OnTrial, Marks
<1>7. TypeOK'
  BY <1>4, <1>5, <1>6, OtaAssumption DEF TypeOK, IInv, Restart, Armed, NoTask, Slots
<1>8. Good(image, running) /\ Good(image', running')
  BY <1>4, <1>5 DEF Runs, Good, Other, Slots, IInv, TypeOK, Selected
<1>9. n[running] # "new"
  BY <1>2, <1>3 DEF IInv, TypeOK
<1>10. mark'[running'] # "new"
  BY <1>4, <1>5, <1>6, <1>8, <1>9 DEF Runs, Good, Other, Slots, IInv, TypeOK
<1>11. mark'[running'] = "pending" => Good(image', Other(running'))
  BY <1>3, <1>4, <1>5, <1>6, <1>8, <1>9 DEF Runs, Good, Other, Slots, IInv, TypeOK
<1>14. \A t \in Tasks : task'[t].step # "write"
  BY DEF Restart, NoTask
<1>12. running' # boot' => mark'[boot'] # "valid"
  <2> SUFFICES ASSUME running' # boot, mark'[boot] = "valid" PROVE FALSE
    BY <1>4
  <2>1. boot \in Slots /\ m[boot] = "valid" /\ n[boot] = "valid"
    BY <1>3, <1>6 DEF IInv, TypeOK
  <2>2. Selected(n) = boot
    BY <2>1 DEF Selected, Usable
  <2>3. ~Good(image, boot)
    BY <2>2, <1>4 DEF Runs
  <2>4. running # boot
    BY <2>3, <1>8
  <2>5. mark[boot] = "valid"
    BY <2>1, <2>4, <1>2 DEF IInv, TypeOK, Slots, Other
  <2> QED
    BY <2>4, <2>5 DEF IInv
<1>13. timer' => mark'[running'] # "valid" \/ confirming'
  BY <1>4 DEF Armed
<1> QED
  BY <1>7, <1>8, <1>10, <1>11, <1>12, <1>13, <1>14 DEF IInv

\* A reset that refuses no application, from a confirmed one.
LEMMA RestartLeaves ==
  ASSUME IInv, Restart(mark), mark[running] = "valid", running' # running
  PROVE  mark[Other(running)] = "new"
<1> DEFINE n == AfterTrial(mark)
<1>1. \A s \in Slots : n[s] = IF mark[s] = "pending" THEN "aborted" ELSE mark[s]
  BY DEF AfterTrial
<1> HIDE DEF n
<1>2. running' = Runs(image, n)
  BY DEF Restart, n
<1>3. Selected(n) # running
  BY <1>2 DEF Runs, IInv
<1>4. n[running] = "valid" /\ running \in Slots /\ boot \in Slots
  BY <1>1 DEF IInv, TypeOK
<1>5. boot = Other(running) /\ n[boot] \in {"new", "valid"}
  BY <1>3, <1>4 DEF Selected, Usable, Slots, Other
<1> QED
  BY <1>1, <1>4, <1>5 DEF IInv, Slots, Other

\* Updates go to the slot that does not run.
LEMMA OtherSlot ==
  ASSUME IInv
  PROVE  /\ running \in Slots /\ Other(running) \in Slots /\ Other(running) # running
         /\ Staging = Other(running) /\ Other(Other(running)) = running
  BY DEF IInv, TypeOK, Slots, Other, Staging

\* A new image in the other slot.
LEMMA ImageKeeps ==
  ASSUME IInv, NEW i \in Images \cup {Built, Broken},
         image' = [image EXCEPT ![Staging] = i], mark[running] # "pending",
         UNCHANGED <<mark, boot, running, timer, request, confirming, resets>>,
         task' \in [Tasks -> [step : {"none", "start", "write", "finish", "done"},
                             image : Images \cup {Built}, alone : BOOLEAN]]
  PROVE  IInv'
<1>1. image' \in [Slots -> Images \cup {Built, Broken}] /\ image'[running] = image[running]
  BY OtherSlot DEF IInv, TypeOK
<1> QED
  BY <1>1 DEF IInv, TypeOK, Good, request

\* A new mark for the other slot, which is booted next.
LEMMA SetBootKeeps ==
  ASSUME IInv, SetBoot(Other(running)),
         \A t \in Tasks : task'[t].step = "write" => task[t].step = "write",
         UNCHANGED <<image, running, timer, request, confirming, resets>>,
         task' \in [Tasks -> [step : {"none", "start", "write", "finish", "done"},
                             image : Images \cup {Built}, alone : BOOLEAN]]
  PROVE  IInv'
<1>1. /\ mark' \in [Slots -> Marks] /\ mark'[running] = mark[running]
      /\ mark'[Other(running)] = "new" /\ boot' = Other(running)
  BY OtherSlot DEF SetBoot, IInv, TypeOK, Marks
<1> QED
  BY <1>1, OtherSlot DEF IInv, TypeOK, Good, request

\* A step of a task.
LEMMA TaskKeeps == ASSUME IInv, NEW t \in Tasks, TaskStep(t) PROVE IInv'
<1> DEFINE Steps == {"none", "start", "write", "finish", "done"}
           TaskSet == [Tasks -> [step : Steps, image : Images \cup {Built}, alone : BOOLEAN]]
<1>1. /\ task \in TaskSet /\ End(t) \in TaskSet
      /\ \A u \in Tasks : End(t)[u].step = "write" => task[u].step = "write"
  BY DEF IInv, TypeOK, End, NoTask
<1>2. CASE Begin(t)
  <2>1. task' \in TaskSet
    BY <1>1, <1>2 DEF Begin, IInv, TypeOK
  <2> QED
    BY <1>2, <2>1, ImageKeeps DEF Begin
<1>3. CASE Write(t)
  <2>1. task' \in TaskSet /\ mark[running] # "pending"
    BY <1>1, <1>3 DEF Write, IInv
  <2>2. PICK i \in Images \cup {Built, Broken} : image' = [image EXCEPT ![Staging] = i]
    BY <1>1, <1>3 DEF Write
  <2> QED
    BY <1>3, <2>1, <2>2, ImageKeeps DEF Write
<1>4. CASE Finish(t)
  <2>1. task' \in TaskSet
    BY <1>1, <1>4 DEF Finish, Only
  <2>2. \A u \in Tasks : task'[u].step = "write" => task[u].step = "write"
    BY <1>1, <1>4 DEF Finish, Only
  <2> QED
    BY <1>4, <2>1, <2>2, SetBootKeeps, OtherSlot DEF Finish
<1>5. CASE Fail(t)
  BY <1>1, <1>5 DEF Fail, IInv, TypeOK, flash, request, Good
<1>6. CASE Done(t)
  <2>1. CASE reboot
    <3>1. resets' \in 0 .. Resets
      BY <1>6 DEF Done, IInv, TypeOK
    <3> QED
      BY <1>6, <2>1, <3>1, RestartKeeps DEF Done
  <2>2. CASE ~reboot
    BY <1>1, <1>6, <2>2 DEF Done, IInv, TypeOK, flash, request, Good
  <2> QED
    BY <2>1, <2>2
<1> QED
  BY <1>2, <1>3, <1>4, <1>5, <1>6 DEF TaskStep

\* Every step preserves the strengthened invariant.
LEMMA StepInv == IInv /\ [Next]_vars => IInv'
<1> SUFFICES ASSUME IInv, [Next]_vars PROVE IInv'
  OBVIOUS
<1>1. CASE Confirm
  <2>1. mark' \in [Slots -> Marks] /\ mark'[running] = "valid"
    BY <1>1 DEF Confirm, IInv, TypeOK, Marks
  <2>2. running # boot => mark'[boot] = mark[boot]
    BY <1>1 DEF Confirm, IInv, TypeOK
  <2> QED
    BY <1>1, <2>1, <2>2 DEF Confirm, IInv, TypeOK, Good, request
<1>2. CASE StopTimer
  BY <1>2 DEF StopTimer, IInv, TypeOK, Good, flash, request
<1>3. CASE AskRollBack
  <2>1. resets' \in 0 .. Resets
    BY <1>3 DEF AskRollBack, IInv, TypeOK
  <2> QED
    BY <1>3, <2>1, RestartKeeps DEF AskRollBack, RollBack
<1>4. CASE Switch
  BY <1>4, SetBootKeeps DEF Switch, IInv, TypeOK
<1>5. CASE AskUpdate
  <2>1. PICK t \in Tasks : task' = [task EXCEPT ![t].step = "start"]
    BY <1>5 DEF AskUpdate
  <2>2. /\ task' \in [Tasks -> [step : {"none", "start", "write", "finish", "done"},
                              image : Images \cup {Built}, alone : BOOLEAN]]
        /\ \A u \in Tasks : task'[u].step = "write" => task[u].step = "write"
    BY <2>1 DEF IInv, TypeOK
  <2>3. updates' \in 0 .. Updates
    BY <1>5, OtaAssumption DEF AskUpdate, IInv, TypeOK
  <2> QED
    BY <1>5, <2>2, <2>3 DEF AskUpdate, IInv, TypeOK, Good, flash
<1>6. CASE \E t \in Tasks : TaskStep(t)
  BY <1>6, TaskKeeps
<1>7. CASE TimerFires
  <2>1. resets' \in 0 .. Resets
    BY <1>7 DEF TimerFires, IInv, TypeOK
  <2>2. CASE RollBack
    BY <2>1, <2>2, RestartKeeps DEF RollBack
  <2>3. CASE ~MayRollBack /\ timer' = FALSE /\ UNCHANGED <<flash, running, request, task, confirming>>
    BY <2>1, <2>3 DEF IInv, TypeOK, Good, flash, request
  <2> QED
    BY <1>7, <2>2, <2>3 DEF TimerFires
<1>8. CASE Reset
  <2>1. resets' \in 0 .. Resets
    BY <1>8, OtaAssumption DEF Reset, IInv, TypeOK
  <2> QED
    BY <1>8, <2>1, RestartKeeps DEF Reset
<1>9. CASE UNCHANGED vars
  BY <1>9 DEF vars, IInv, TypeOK, Good, flash, request
<1> QED
  BY <1>1, <1>2, <1>3, <1>4, <1>5, <1>6, <1>7, <1>8, <1>9 DEF Next

\* The strengthened invariant holds in every reachable state.
THEOREM Invariance == Spec => []IInv
  BY InitInv, StepInv, PTL DEF Spec

\* What a reset boots when the running slot holds a complete image.
LEMMA AlwaysBootsHolds == IInv => Inv
<1> SUFFICES ASSUME IInv PROVE Inv
  OBVIOUS
<1>1. AfterTrial(mark) \in [Slots -> Marks]
  BY DEF AfterTrial, IInv, TypeOK, Marks
<1>2. Selected(AfterTrial(mark)) \in Slots
  BY DEF Selected, Slots, Other, IInv, TypeOK
<1>3. Good(image, Runs(image, AfterTrial(mark)))
  BY <1>2 DEF Runs, Good, Slots, Other, IInv, TypeOK
<1> QED
  BY <1>3 DEF Inv, AlwaysBoots, IInv

\* Whatever is asked of it and whenever it is reset, the device boots a
\* complete image, and an application on trial has one to go back to.
THEOREM Boots == Spec => []Inv
  BY Invariance, AlwaysBootsHolds, PTL

\* A step that leaves a confirmed application.
LEMMA StepConfirmed ==
  ASSUME IInv, Next, mark[running] = "valid", ~confirming
  PROVE  /\ ~timer
         /\ running' # running => mark[Other(running)] = "new" \/ AskRollBack
<1>1. ~timer
  BY DEF IInv
<1>2. ASSUME running' # running, ~AskRollBack PROVE Restart(mark)
  <2>1. CASE Confirm \/ StopTimer \/ Switch \/ AskUpdate
    BY <1>2, <2>1 DEF Confirm, StopTimer, Switch, AskUpdate
  <2>2. CASE \E t \in Tasks : TaskStep(t)
    BY <1>2, <2>2 DEF TaskStep, Begin, Write, Finish, Fail, Done
  <2>3. CASE TimerFires
    BY <1>1, <2>3 DEF TimerFires
  <2>4. CASE Reset
    BY <2>4 DEF Reset
  <2> QED
    BY <1>2, <2>1, <2>2, <2>3, <2>4 DEF Next
<1> QED
  BY <1>1, <1>2, RestartLeaves

\* Once "ota -C" has returned, only the user's next operation can make the
\* device leave the application, however resets and the timer fall.
THEOREM Confirmation == Spec => ConfirmedStays
<1>1. IInv /\ [Next]_vars =>
        [mark[running] = "valid" /\ ~confirming =>
           /\ ~timer
           /\ running' # running => mark[Other(running)] = "new" \/ AskRollBack]_vars
  BY StepConfirmed
<1> QED
  BY <1>1, Invariance, PTL DEF Spec, ConfirmedStays
=============================================================================
