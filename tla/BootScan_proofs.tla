-------------------------- MODULE BootScan_proofs --------------------------
(***************************************************************************)
(* For any number of SCAN commands and any timeouts: the flag and the air  *)
(* agree, what a scan has heard is reported if memory and the host allow,  *)
(* and the main task waits.                                                *)
(*                                                                         *)
(* The argument is about priorities.  A host sends the next SCAN when the  *)
(* last task has come to its end or nearly so, and the two overlap then;   *)
(* but the 300 ms before a scan pass only when no task is ready, so a task *)
(* whose scan is under way has the driver for itself (Late).               *)
(***************************************************************************)
EXTENDS BootScan, TLAPS

\* Before SCAN_DONE; and from the scan until its result is read.
Active == {"created", "begun", "delay", "settled", "scanning", "report"}
Late == {"settled", "scanning", "report"}

\* How long the main task has waited.
Clock ==
    /\ main = "base" => waited < BaseWait
    /\ main = "scan" => waited <= ScanTimeout

\* One task at a time is before SCAN_DONE; the others are done with the driver
\* when it has a scan.
Overlaps ==
    \A s, t \in Scans : s # t =>
        /\ pc[s] \in Active => pc[t] \notin Active
        /\ pc[s] \in Late => pc[t] \in {"none", "gone"}

\* A patient host has one task, which sets the flag first and clears it last.
Patience ==
    patient => /\ FlagSet
               /\ \A s, t \in Scans : s # t /\ pc[s] \notin {"none", "gone"} => pc[t] \in {"none", "gone"}

\* Without the manager, a list that was heard waits for its task.
Heard ==
    ~manager => \A s \in found : \/ s \in told \cup unheard
                                 \/ pc[s] = "report" /\ apList

IInv ==
    /\ TypeOK /\ Clock /\ Overlaps /\ Patience /\ Heard
    /\ \A s \in found : pc[s] \in {"report", "done", "stopped", "gone"}

----------------------------------------------------------------------------
(* The steps *)

\* Nobody has asked for a scan.
LEMMA InitInv == Init => IInv
<1> SUFFICES ASSUME Init PROVE IInv
  OBVIOUS
<1>1. TypeOK
  <2>1. {manager, patient, scanning, advertising, wifi, apList} \subseteq BOOLEAN
    <3>1. manager \in BOOLEAN /\ patient \in BOOLEAN /\ scanning \in BOOLEAN
          /\ advertising \in BOOLEAN /\ wifi \in BOOLEAN /\ apList \in BOOLEAN
      BY DEF Init
    <3> QED
      BY <3>1
  <2>2. waited \in 0 .. (BaseWait + ScanTimeout) /\ age \in 0 .. ScanTime
    BY BootAssumption DEF Init
  <2> QED
    BY <2>1, <2>2 DEF Init, TypeOK
<1>2. Clock
  BY BootAssumption DEF Init, Clock
<1> QED
  BY <1>1, <1>2 DEF Init, IInv, Overlaps, Active, Late, Patience, FlagSet, Heard

\* SCAN.
LEMMA CommandKeeps == ASSUME IInv, NEW s \in Scans, Command(s) PROVE IInv'
<1>1. /\ pc[s] = "none" /\ pc' = [pc EXCEPT ![s] = "created"]
      /\ UNCHANGED <<manager, patient, main, waited, scanning, advertising, wifi, air, age,
                     apList, found, station, told, unheard>>
  BY DEF Command, Go, boot, choice, radio, reports
<1>2. \A t \in Scans : pc[t] \in Awaited
  BY DEF Command
<1>3. TypeOK'
  BY <1>1 DEF IInv, TypeOK
<1>4. Overlaps'
  BY <1>1, <1>2 DEF IInv, TypeOK, Overlaps, Active, Late, Awaited
<1>5. Patience'
  BY <1>1, <1>2 DEF IInv, TypeOK, Patience, FlagSet, Awaited
<1> QED
  BY <1>1, <1>3, <1>4, <1>5 DEF IInv, TypeOK, Clock, Heard

\* The flag, then the radio.
LEMMA BeginKeeps == ASSUME IInv, NEW s \in Scans, Begin(s) PROVE IInv'
<1>1. /\ pc[s] = "created" /\ pc' = [pc EXCEPT ![s] = "begun"] /\ scanning' = TRUE
      /\ advertising' = FALSE
      /\ UNCHANGED <<manager, patient, main, waited, wifi, air, age, apList, found, station, told, unheard>>
  BY DEF Begin, Go, boot, choice, radio, reports
<1>2. TypeOK'
  BY <1>1 DEF IInv, TypeOK
<1>3. Overlaps'
  BY <1>1 DEF IInv, TypeOK, Overlaps, Active, Late
<1>4. Patience'
  BY <1>1 DEF IInv, TypeOK, Patience, FlagSet
<1> QED
  BY <1>1, <1>2, <1>3, <1>4 DEF IInv, TypeOK, Clock, Heard

\* A task that goes on within its time before SCAN_DONE, or gives up.
LEMMA GoKeeps ==
  ASSUME IInv, NEW s \in Scans, NEW to \in {"delay", "done"},
         pc[s] = "begun", pc' = [pc EXCEPT ![s] = to],
         UNCHANGED <<manager, patient, main, waited, scanning, advertising, air, age, apList,
                     found, told, unheard>>,
         wifi' \in BOOLEAN, station' \in {"off", "idle", "connecting"}
  PROVE  IInv'
<1>1. TypeOK'
  BY DEF IInv, TypeOK
<1>2. Overlaps'
  BY DEF IInv, TypeOK, Overlaps, Active, Late
<1>3. Patience'
  BY DEF IInv, TypeOK, Patience, FlagSet
<1> QED
  BY <1>1, <1>2, <1>3 DEF IInv, TypeOK, Clock, Heard

\* esp_wifi_set_mode and esp_wifi_start.
LEMMA StartWifiKeeps == ASSUME IInv, NEW s \in Scans, StartWifi(s) PROVE IInv'
<1>1. CASE Go(s, "begun", "delay") /\ StationStarts
           /\ UNCHANGED <<boot, scanning, advertising, air, age, apList, found, reports>>
  <2>1. wifi' \in BOOLEAN /\ station' \in {"off", "idle", "connecting"}
    BY <1>1 DEF StationStarts, IInv, TypeOK
  <2> QED
    BY <1>1, <2>1, GoKeeps DEF Go, boot, choice, reports
<1>2. CASE Go(s, "begun", "done") /\ UNCHANGED <<boot, scanning, advertising, radio, reports>>
  BY <1>2, GoKeeps DEF Go, boot, choice, radio, IInv, TypeOK, reports
<1> QED
  BY <1>1, <1>2 DEF StartWifi

\* The driver takes the scan or refuses it.
LEMMA StartScanKeeps == ASSUME IInv, NEW s \in Scans, StartScan(s) PROVE IInv'
<1>1. /\ pc[s] = "settled"
      /\ UNCHANGED <<manager, patient, main, waited, scanning, advertising, wifi, apList, found,
                     station, told, unheard>>
      /\ \/ pc' = [pc EXCEPT ![s] = "scanning"] /\ air = {} /\ air' = {s} /\ age' = 0
         \/ pc' = [pc EXCEPT ![s] = "done"] /\ air' = air /\ age' = age
  BY DEF StartScan, Go, boot, choice, reports
<1>2. TypeOK'
  <2>1. age' \in 0 .. ScanTime
    BY <1>1, BootAssumption DEF IInv, TypeOK
  <2>2. air' = {t \in Scans : pc'[t] = "scanning"}
    BY <1>1 DEF IInv, TypeOK
  <2> QED
    BY <1>1, <2>1, <2>2 DEF IInv, TypeOK
<1>3. Overlaps'
  BY <1>1 DEF IInv, TypeOK, Overlaps, Active, Late
<1>4. Patience'
  BY <1>1 DEF IInv, TypeOK, Patience, FlagSet
<1> QED
  BY <1>1, <1>2, <1>3, <1>4 DEF IInv, TypeOK, Clock, Heard

\* A scan in the air is the only one.
LEMMA OneInTheAir ==
  ASSUME IInv, NEW s \in air
  PROVE  s \in Scans /\ pc[s] = "scanning" /\ air = {s}
  BY DEF IInv, TypeOK, Overlaps, Active

\* SCAN_DONE of the driver.
LEMMA ScanOverKeeps == ASSUME IInv, NEW s \in Scans, ScanOver(s) PROVE IInv'
<1>1. /\ pc[s] = "scanning" /\ pc' = [pc EXCEPT ![s] = "report"]
      /\ air = {s} /\ air' = {} /\ age' = 0 /\ found \subseteq found' /\ found' \subseteq found \cup {s}
      /\ UNCHANGED <<manager, patient, main, waited, scanning, advertising, wifi, told, unheard>>
  BY OneInTheAir DEF ScanOver, Go, boot, choice, reports
<1>2. /\ apList' \in BOOLEAN /\ station' \in {"off", "idle", "connecting"}
      /\ ~manager /\ s \in found' => apList'
  BY <1>1 DEF ScanOver, IInv, TypeOK
<1>3. TypeOK'
  <2>1. age' \in 0 .. ScanTime
    BY <1>1, BootAssumption
  <2>2. air' = {t \in Scans : pc'[t] = "scanning"}
    BY <1>1 DEF IInv, TypeOK
  <2> QED
    BY <1>1, <1>2, <2>1, <2>2 DEF IInv, TypeOK
<1>4. Overlaps'
  BY <1>1 DEF IInv, TypeOK, Overlaps, Active, Late
<1>5. Patience'
  BY <1>1 DEF IInv, TypeOK, Patience, FlagSet
<1>6. Heard'
  <2> SUFFICES ASSUME ~manager, NEW t \in found'
               PROVE  t \in told \cup unheard \/ (pc'[t] = "report" /\ apList')
    BY <1>1 DEF Heard
  <2>1. CASE t = s
    BY <1>1, <1>2, <2>1 DEF IInv, TypeOK
  <2>2. CASE t # s
    BY <1>1, <2>2 DEF IInv, TypeOK, Heard, Overlaps, Late
  <2> QED
    BY <2>1, <2>2
<1> QED
  BY <1>1, <1>3, <1>4, <1>5, <1>6 DEF IInv, TypeOK, Clock

\* SCAN_N, SCAN_AP.
LEMMA ReportKeeps == ASSUME IInv, NEW s \in Scans, Report(s) PROVE IInv'
<1>1. /\ pc[s] = "report" /\ pc' = [pc EXCEPT ![s] = "done"] /\ apList' \in BOOLEAN
      /\ told \cup unheard \subseteq told' \cup unheard'
      /\ told' \cup unheard' \subseteq told \cup unheard \cup {s}
      /\ apList => s \in told' \cup unheard'
      /\ UNCHANGED <<manager, patient, main, waited, scanning, advertising, wifi, air, age, found,
                     station>>
  BY DEF Report, Go, boot, choice, reports
<1>2. TypeOK'
  BY <1>1 DEF IInv, TypeOK
<1>3. Overlaps'
  BY <1>1 DEF IInv, TypeOK, Overlaps, Active, Late
<1>4. Patience'
  BY <1>1 DEF IInv, TypeOK, Patience, FlagSet
<1>5. Heard'
  <2> SUFFICES ASSUME ~manager, NEW t \in found PROVE t \in told' \cup unheard'
    BY <1>1 DEF Heard
  <2>1. t \in Scans /\ (t \in told \cup unheard \/ (pc[t] = "report" /\ apList))
    BY DEF IInv, TypeOK, Heard
  <2>2. pc[t] = "report" => t = s
    BY <1>1, <2>1 DEF IInv, Overlaps, Active
  <2> QED
    BY <1>1, <2>1, <2>2
<1> QED
  BY <1>1, <1>2, <1>3, <1>4, <1>5 DEF IInv, TypeOK, Clock

\* esp_wifi_stop: no other task has a scan or a result then.
LEMMA StopWifiKeeps == ASSUME IInv, NEW s \in Scans, StopWifi(s) PROVE IInv'
<1>1. \A t \in Scans : pc[t] \notin Late
  BY DEF StopWifi, IInv, TypeOK, Overlaps, Late
<1>2. air = {} /\ pc[s] = "done"
  BY <1>1 DEF StopWifi, IInv, TypeOK, Late
<1>3. /\ pc' = [pc EXCEPT ![s] = "stopped"]
      /\ wifi' = FALSE /\ air' = {} /\ age' = 0 /\ apList' = FALSE /\ station' = "off"
      /\ UNCHANGED <<manager, patient, main, waited, scanning, advertising, found, told, unheard>>
  BY <1>2 DEF StopWifi, IInv, TypeOK, boot, choice, reports
<1>4. TypeOK'
  <2>1. age' \in 0 .. ScanTime
    BY <1>3, BootAssumption
  <2>2. air' = {t \in Scans : pc'[t] = "scanning"}
    BY <1>2, <1>3 DEF IInv, TypeOK
  <2> QED
    BY <1>3, <2>1, <2>2 DEF IInv, TypeOK
<1>5. Overlaps'
  BY <1>1, <1>2, <1>3 DEF IInv, TypeOK, Overlaps, Active, Late
<1>6. Patience'
  BY <1>2, <1>3 DEF IInv, TypeOK, Patience, FlagSet
<1>7. Heard'
  BY <1>1, <1>3 DEF IInv, TypeOK, Heard, Late
<1> QED
  BY <1>2, <1>3, <1>4, <1>5, <1>6, <1>7 DEF IInv, TypeOK, Clock

\* The task deletes itself.
LEMMA FinishKeeps == ASSUME IInv, NEW s \in Scans, Finish(s) PROVE IInv'
<1>1. /\ pc[s] = "stopped" /\ pc' = [pc EXCEPT ![s] = "gone"] /\ scanning' = FALSE
      /\ advertising' = TRUE
      /\ UNCHANGED <<manager, patient, main, waited, wifi, air, age, apList, found, station, told, unheard>>
  BY DEF Finish, Go, boot, choice, radio, reports
<1>2. TypeOK'
  BY <1>1 DEF IInv, TypeOK
<1>3. Overlaps'
  BY <1>1 DEF IInv, TypeOK, Overlaps, Active, Late
<1>4. Patience'
  BY <1>1 DEF IInv, TypeOK, Patience, FlagSet
<1> QED
  BY <1>1, <1>2, <1>3, <1>4 DEF IInv, TypeOK, Clock, Heard

\* A poll lets the time of a task in its delay pass.  No task is ready, so the
\* others have not begun or are gone.
LEMMA PollKeeps ==
  ASSUME IInv, Poll, ~Preempted, main' \in {"base", "scan", "start", "up"}, Clock',
         waited' \in 0 .. (BaseWait + ScanTimeout)
  PROVE  IInv'
<1>1. /\ \A s \in Scans : pc[s] \in {"none", "delay", "scanning", "gone"}
      /\ pc' = [s \in Scans |-> IF pc[s] = "delay" THEN "settled" ELSE pc[s]]
      /\ UNCHANGED <<manager, patient, scanning, advertising, wifi, air, apList, found, station, told, unheard>>
  BY DEF Poll, Preempted, choice, reports
<1>2. age' \in 0 .. ScanTime
  BY BootAssumption DEF Poll, IInv, TypeOK
<1>3. TypeOK'
  <2>1. pc' \in [Scans -> {"none", "created", "begun", "delay", "settled", "scanning",
                          "report", "done", "stopped", "gone"}]
    BY <1>1
  <2>2. air' = {t \in Scans : pc'[t] = "scanning"}
    BY <1>1 DEF IInv, TypeOK
  <2> QED
    BY <1>1, <1>2, <2>1, <2>2 DEF IInv, TypeOK
<1>4. Overlaps'
  BY <1>1 DEF IInv, Overlaps, Active, Late
<1>5. Patience'
  BY <1>1 DEF IInv, Patience, FlagSet
<1>6. \A s \in found' : pc'[s] = pc[s]
  BY <1>1 DEF IInv, TypeOK
<1> QED
  BY <1>1, <1>3, <1>4, <1>5, <1>6 DEF IInv, Heard

\* The main task.
LEMMA MainKeeps == ASSUME IInv, MainTask PROVE IInv'
<1>1. /\ waited \in Nat /\ BaseWait \in Nat \ {0} /\ ScanTimeout \in Nat \ {0}
      /\ waited <= BaseWait + ScanTimeout
  BY BootAssumption DEF IInv, TypeOK
<1>2. CASE BaseWaits
  <2>1. main = "base" /\ waited < BaseWait /\ ~Preempted /\ Poll
    BY <1>2 DEF BaseWaits, IInv, Clock
  <2>2. /\ main' \in {"base", "scan", "start"} /\ Clock'
        /\ waited' \in 0 .. (BaseWait + ScanTimeout)
    BY <1>1, <1>2, <2>1 DEF BaseWaits, Clock
  <2> QED
    BY <2>1, <2>2, PollKeeps
<1>3. CASE ScanWaits /\ scanning /\ waited < ScanTimeout
  <2>1. main = "scan" /\ main' = "scan" /\ waited' = waited + 1 /\ ~Preempted /\ Poll
    BY <1>3 DEF ScanWaits
  <2> QED
    BY <1>1, <1>3, <2>1, PollKeeps DEF Clock
<1>4. CASE ScanWaits /\ ~(scanning /\ waited < ScanTimeout)
  BY <1>4 DEF ScanWaits, choice, radio, IInv, TypeOK, Clock, Overlaps, Patience, FlagSet, Heard, reports
<1>5. CASE Start
  <2>1. /\ main' = "up" /\ wifi' \in BOOLEAN /\ station' \in {"off", "idle", "connecting"}
        /\ UNCHANGED <<manager, patient, waited, pc, scanning, advertising, air, age, apList, found, told, unheard>>
    BY <1>5 DEF Start, StationStarts, choice, IInv, TypeOK, reports
  <2> QED
    BY <2>1 DEF IInv, TypeOK, Clock, Overlaps, Patience, FlagSet, Heard
<1>6. CASE TimePasses
  <2>1. main' = main /\ waited' = waited /\ main = "up" /\ ~Preempted /\ Poll
    BY <1>6 DEF TimePasses
  <2>2. Clock'
    BY <2>1 DEF Clock
  <2> QED
    BY <2>1, <2>2, PollKeeps DEF IInv, TypeOK
<1> QED
  BY <1>2, <1>3, <1>4, <1>5, <1>6 DEF MainTask

\* Every step preserves the invariant.
LEMMA StepInv == IInv /\ [Next]_vars => IInv'
<1> SUFFICES ASSUME IInv, [Next]_vars PROVE IInv'
  OBVIOUS
<1>1. CASE MainTask
  BY <1>1, MainKeeps
<1>2. ASSUME NEW s \in Scans, Command(s) \/ ScanTask(s) PROVE IInv'
  BY <1>2, CommandKeeps, BeginKeeps, StartWifiKeeps, StartScanKeeps, ScanOverKeeps, ReportKeeps,
     StopWifiKeeps, FinishKeeps DEF ScanTask
<1>3. CASE UNCHANGED vars
  BY <1>3 DEF vars, boot, choice, radio, IInv, TypeOK, Clock, Overlaps, Patience, FlagSet, Heard, reports
<1> QED
  BY <1>1, <1>2, <1>3 DEF Next

----------------------------------------------------------------------------
(* The results *)

\* The inductive invariant holds in every reachable state.
THEOREM Invariance == Spec => []IInv
  BY InitInv, StepInv, PTL DEF Spec

\* The flag tells a patient host's scans, and on a node without a manager
\* everything that is heard is reported.
THEOREM ScansReported == Spec => []Inv
<1>1. IInv => Inv
  <2> SUFFICES ASSUME IInv PROVE TypeOK /\ FlagHonest /\ ScanReported
    BY DEF Inv
  <2>1. FlagHonest
    BY DEF IInv, Patience, FlagHonest
  <2>2. ScanReported
    BY DEF IInv, Heard, ScanReported, AllReported
  <2> QED
    BY <2>1, <2>2 DEF IInv
<1> QED
  BY <1>1, Invariance, PTL

\* The step with which the main task goes on.
LEMMA StartStep ==
  ASSUME IInv, Next, patient, main' = "start", main # "start"
  PROVE  \/ main = "scan" /\ waited = ScanTimeout
         \/ \A s \in Scans : pc[s] \in {"none", "created", "gone"}
<1>1. CASE BaseWaits
  BY <1>1 DEF BaseWaits, IInv, Patience, FlagSet
<1>2. CASE ScanWaits
  <2>1. CASE scanning
    <3>1. main = "scan" /\ ~(waited < ScanTimeout)
      BY <1>2, <2>1 DEF ScanWaits
    <3>2. waited \in Nat /\ ScanTimeout \in Nat /\ waited <= ScanTimeout
      BY <3>1, BootAssumption DEF IInv, Clock, TypeOK
    <3> QED
      BY <3>1, <3>2
  <2>2. CASE ~scanning
    BY <1>2, <2>2 DEF ScanWaits, IInv, Patience, FlagSet
  <2> QED
    BY <2>1, <2>2
<1>3. CASE Start
  BY <1>3 DEF Start
<1>4. CASE TimePasses
  BY <1>4 DEF TimePasses
<1>5. ASSUME NEW s \in Scans, Command(s) \/ ScanTask(s) PROVE main' = main
  BY <1>5 DEF Command, ScanTask, Begin, StartWifi, StartScan, ScanOver, Report, StopWifi, Finish, boot, reports
<1> QED
  BY <1>1, <1>2, <1>3, <1>4, <1>5 DEF Next, MainTask

\* With a patient host the sniffer starts when no scan task is at work, or
\* after the whole timeout.
THEOREM BootAwaitsScans == Spec => BootWaits
<1>1. IInv /\ [Next]_vars =>
        [patient /\ main' = "start" /\ main # "start" =>
           \/ main = "scan" /\ waited = ScanTimeout
           \/ \A s \in Scans : pc[s] \in {"none", "created", "gone"}]_vars
  BY StartStep
<1> QED
  BY <1>1, Invariance, PTL DEF Spec, BootWaits
=============================================================================
