------------------------------ MODULE BootScan ------------------------------
(***************************************************************************)
(* The window at boot in which a setup wizard may scan for access points:  *)
(* the main task waits before it starts the sniffer, which spoils the PHY  *)
(* for 2.4 GHz (main.c); the SCAN command of the USB configuration channel *)
(* creates a task that scans (usb_stream.c); the handler of the Wi-Fi      *)
(* manager sees the events of the driver that the scan causes              *)
(* (wifi_manager.c).                                                       *)
(*                                                                         *)
(* The clock is the poll of the main task, every 200 ms.  The main task    *)
(* has the lowest priority and the event loop the highest: a handler runs  *)
(* together with the step that raises its event.                           *)
(***************************************************************************)
EXTENDS Naturals

CONSTANTS Scans,        \* SCAN commands
          BaseWait,     \* BASE_WAIT_MS, in polls
          ScanTimeout,  \* SCAN_TIMEOUT_MS, in polls
          ScanTime      \* bound: polls that the driver needs for a scan

ASSUME BootAssumption ==
    {BaseWait, ScanTimeout, ScanTime} \subseteq Nat \ {0}

VARIABLES
    manager,      \* the Wi-Fi manager is active, in real-time mode (s_conn_mode)
    patient,      \* the host awaits the end of a scan task, not only SCAN_DONE
    main,         \* the main task: base, scan, start, up
    waited,       \* waited, then scan_wait
    pc,           \* the scan tasks
    scanning,     \* s_cfg_scanning
    advertising,  \* BLE advertising
    wifi,         \* the driver runs, as a station
    air,          \* the tasks whose scan the driver carries out
    age,          \* for how many polls
    apList,       \* the driver holds the result of a scan
    found,        \* the scan tasks whose scan has heard an access point
    told,         \* the scan tasks that have reported one
    unheard,      \* the scan tasks that had no memory, or a host that did not read
    station       \* off, idle or connecting

choice == <<manager, patient>>
boot == <<choice, main, waited>>
radio == <<wifi, air, age, apList, found, station>>
reports == <<told, unheard>>
vars == <<boot, pc, scanning, advertising, radio, reports>>

Go(s, from, to) == pc[s] = from /\ pc' = [pc EXCEPT ![s] = to]

----------------------------------------------------------------------------
(* The scan task *)

\* What the host awaits before it sends another SCAN.
Awaited == IF patient THEN {"none", "gone"} ELSE {"none", "done", "stopped", "gone"}

\* SCAN: the task is created.  The wizard is done before the sniffer starts.
Command(s) ==
    /\ main \in {"base", "scan"}
    /\ \A t \in Scans : pc[t] \in Awaited
    /\ Go(s, "none", "created")
    /\ UNCHANGED <<boot, scanning, advertising, radio, reports>>

\* Mutant: the flag is left to the end of the scan.
BeginUnflagged(s) ==
    /\ Go(s, "created", "begun")
    /\ advertising' = FALSE
    /\ UNCHANGED <<boot, scanning, radio, reports>>

Begin(s) ==
    /\ Go(s, "created", "begun")
    /\ scanning' = TRUE
    /\ advertising' = FALSE
    /\ UNCHANGED <<boot, radio, reports>>

\* esp_wifi_start raises STA_START if the station did not run: the manager
\* connects unless a scan is in progress.
StationStarts ==
    /\ wifi' = TRUE
    /\ station' = IF wifi THEN station
                  ELSE IF manager /\ ~scanning THEN "connecting" ELSE "idle"

\* esp_wifi_set_mode, esp_wifi_start; an error of either ends the task.
StartWifi(s) ==
    \/ /\ Go(s, "begun", "delay")
       /\ StationStarts
       /\ UNCHANGED <<boot, scanning, advertising, air, age, apList, found, reports>>
    \/ /\ Go(s, "begun", "done")
       /\ UNCHANGED <<boot, scanning, advertising, radio, reports>>

\* The driver refuses a scan without a station, during one, or while connecting.
StartScan(s) ==
    /\ IF wifi /\ air = {} /\ station = "idle"
       THEN Go(s, "settled", "scanning") /\ air' = {s} /\ age' = 0
       ELSE Go(s, "settled", "done") /\ UNCHANGED <<air, age>>
    /\ UNCHANGED <<boot, scanning, advertising, wifi, apList, found, station, reports>>

\* Mutant: the driver is taken to be busy still.
ScanOverUnseen(s) ==
    /\ s \in air
    /\ Go(s, "scanning", "report")
    /\ UNCHANGED <<boot, scanning, advertising, radio, reports>>

\* The scan is over.  SCAN_DONE runs the handler of the manager before the
\* task: it takes the list, which frees it, and connects to an open network.
ScanOver(s) ==
    /\ s \in air
    /\ Go(s, "scanning", "report")
    /\ air' = {}
    /\ age' = 0
    /\ \E heard \in BOOLEAN, open \in BOOLEAN :
         /\ found' = IF heard THEN found \cup {s} ELSE found
         /\ apList' = (heard /\ ~manager)
         /\ station' = IF manager /\ heard /\ open THEN "connecting" ELSE station
    /\ UNCHANGED <<boot, scanning, advertising, wifi, reports>>

\* Mutant: the list is freed before it is read.
ReportFreed(s) ==
    /\ Go(s, "report", "done")
    /\ apList' = FALSE
    /\ UNCHANGED <<boot, scanning, advertising, wifi, air, age, found, station, reports>>

\* SCAN_N, SCAN_AP and, at the label done, SCAN_DONE.  There may be no memory for
\* the list, which stays with the driver; or the host does not read for 200 ms.
Report(s) ==
    /\ Go(s, "report", "done")
    /\ \/ /\ apList' = FALSE
          /\ told' = IF apList THEN told \cup {s} ELSE told
          /\ UNCHANGED unheard
       \/ /\ apList
          /\ apList' \in BOOLEAN
          /\ unheard' = unheard \cup {s}
          /\ UNCHANGED told
    /\ UNCHANGED <<boot, scanning, advertising, wifi, air, age, found, station>>

\* esp_wifi_stop and WIFI_MODE_NULL: a scan under way is given up.
StopWifi(s) ==
    /\ pc[s] = "done"
    /\ pc' = [t \in Scans |-> IF t = s THEN "stopped"
                              ELSE IF t \in air THEN "report" ELSE pc[t]]
    /\ wifi' = FALSE /\ air' = {} /\ age' = 0 /\ apList' = FALSE /\ station' = "off"
    /\ UNCHANGED <<boot, scanning, advertising, found, reports>>

\* Mutant: the flag stays set.
FinishFlagged(s) ==
    /\ Go(s, "stopped", "gone")
    /\ advertising' = TRUE
    /\ UNCHANGED <<boot, scanning, radio, reports>>

\* Mutant: advertising is not taken up again.
FinishSilent(s) ==
    /\ Go(s, "stopped", "gone")
    /\ scanning' = FALSE
    /\ UNCHANGED <<boot, advertising, radio, reports>>

Finish(s) ==
    /\ Go(s, "stopped", "gone")
    /\ advertising' = TRUE
    /\ scanning' = FALSE
    /\ UNCHANGED <<boot, radio, reports>>

ScanTask(s) == Begin(s) \/ StartWifi(s) \/ StartScan(s) \/ ScanOver(s) \/ Report(s)
               \/ StopWifi(s) \/ Finish(s)

----------------------------------------------------------------------------
(* The main task *)

\* With every poll the 300 ms of a task that has started the station pass, and
\* a scan goes on.
Poll ==
    /\ pc' = [s \in Scans |-> IF pc[s] = "delay" THEN "settled" ELSE pc[s]]
    /\ air # {} => age < ScanTime
    /\ age' = IF air = {} THEN age ELSE age + 1
    /\ UNCHANGED <<choice, scanning, advertising, wifi, air, apList, found, station, reports>>

\* A task that is ready runs before the main task does.
Preempted == \E s \in Scans : pc[s] \notin {"none", "delay", "scanning", "gone"}

\* Mutant: the flag is looked at only once.
BaseWaitOnce ==
    /\ main = "base" /\ ~Preempted
    /\ Poll
    /\ waited' = waited + 1
    /\ main' = IF waited' < BaseWait THEN "base" ELSE "start"

\* Three seconds for a scan to start ...
BaseWaits ==
    /\ main = "base" /\ ~Preempted
    /\ Poll
    /\ IF scanning
       THEN main' = "scan" /\ waited' = 0
       ELSE /\ waited' = waited + 1
            /\ main' = IF waited' < BaseWait THEN "base" ELSE "start"

\* ... and sixty for it to end.
ScanWaits ==
    /\ main = "scan" /\ ~Preempted
    /\ IF scanning /\ waited < ScanTimeout
       THEN Poll /\ waited' = waited + 1 /\ UNCHANGED main
       ELSE main' = "start" /\ UNCHANGED <<choice, waited, pc, scanning, advertising,
                                          radio, reports>>

\* sniffer_autostart and wifi_manager_start.
Start ==
    /\ main = "start" /\ ~Preempted
    /\ main' = "up"
    /\ IF manager THEN StationStarts ELSE UNCHANGED <<wifi, station>>
    /\ UNCHANGED <<choice, waited, pc, scanning, advertising, air, age, apList, found, reports>>

\* A scan that the main task has not awaited goes on.
TimePasses ==
    /\ main = "up" /\ ~Preempted
    /\ Poll
    /\ UNCHANGED <<main, waited>>

MainTask == BaseWaits \/ ScanWaits \/ Start \/ TimePasses

----------------------------------------------------------------------------

Init ==
    /\ manager \in BOOLEAN /\ patient \in BOOLEAN
    /\ main = "base" /\ waited = 0
    /\ pc = [s \in Scans |-> "none"]
    /\ scanning = FALSE /\ advertising = TRUE
    /\ wifi = FALSE /\ air = {} /\ age = 0 /\ apList = FALSE /\ found = {}
    /\ station = "off"
    /\ told = {} /\ unheard = {}

Next == MainTask \/ \E s \in Scans : Command(s) \/ ScanTask(s)

Spec == Init /\ [][Next]_vars

\* Ready tasks run and the driver ends its scans; the host is free.
FairSpec ==
    /\ Spec
    /\ WF_vars(MainTask)
    /\ \A s \in Scans : WF_vars(ScanTask(s))

----------------------------------------------------------------------------
(* Properties *)

\* Types; and only a task that waits for the driver has a scan in the air.
TypeOK ==
    /\ main \in {"base", "scan", "start", "up"}
    /\ waited \in 0 .. (BaseWait + ScanTimeout)
    /\ pc \in [Scans -> {"none", "created", "begun", "delay", "settled", "scanning",
                         "report", "done", "stopped", "gone"}]
    /\ {manager, patient, scanning, advertising, wifi, apList} \subseteq BOOLEAN
    /\ {found, told, unheard} \subseteq SUBSET Scans
    /\ age \in 0 .. ScanTime
    /\ station \in {"off", "idle", "connecting"}
    /\ air = {s \in Scans : pc[s] = "scanning"}

\* The flag is set while a scan is in progress (usb_stream.c:112).
FlagSet == (\E s \in Scans : pc[s] \notin {"none", "created", "gone"}) => scanning

\* It is with a host that awaits the end of a task, however the starts fail.
FlagHonest == patient => FlagSet

\* With such a host the main task does not go on while a scan task is at work,
\* unless the whole timeout has passed (main.c:178 "if one does, wait up to
\* 60 s for completion").
BootWaits ==
    [][patient /\ main' = "start" /\ main # "start" =>
         \/ main = "scan" /\ waited = ScanTimeout
         \/ \A s \in Scans : pc[s] \in {"none", "created", "gone"}]_vars

\* What a scan has heard is reported to the wizard (main.c:170 "so the wizard
\* can run SCAN while the PHY is still in clean 2.4 GHz state"), but for want of
\* memory or of a host that reads.
AllReported == \A s \in Scans : pc[s] = "gone" /\ s \in found => s \in told \cup unheard

\* It is on a node without a manager.
ScanReported == ~manager => AllReported

\* The flag, the air and what is reported agree, however the scans overlap.
Inv == TypeOK /\ FlagHonest /\ ScanReported

\* Advertising comes back after the scans, and stays.
AdvertisingReturns == <>[]advertising

\* The main task has lost patience and started the manager under a scan, which
\* switches the radio off at its end (main.c:191, usb_stream.c:200-201).
Outwaited == main = "up" /\ \E s \in Scans : pc[s] \in {"delay", "scanning"}

\* Whatever a patient host scanned at boot, one scan or several, however they
\* ended: if they end before the timeout, the manager's station gets to connect.
StationConnects == manager /\ patient => <>[](station = "connecting") \/ <>Outwaited

(* What the repository says and the code does not keep (see the README):   *)
(* FlagSet with a host that awaits SCAN_DONE only, AllReported with the    *)
(* manager, StationConnects after the timeout.                             *)
=============================================================================
