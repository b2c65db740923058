---------------------------- MODULE SnifferTask ----------------------------
(***************************************************************************)
(* The capture task of cmd_sniffer.c: the driver callback that copies      *)
(* frames into work_queue, the sniffer task that publishes them, and       *)
(* sniffer_start and sniffer_stop, which create the task, join it through  *)
(* a binary semaphore and open and close the pcap session (cmd_pcap.c).    *)
(* Commands come from the console REPL and, through esp_console_run, from  *)
(* the MQTT task; no lock keeps them apart.                                *)
(***************************************************************************)
EXTENDS Integers, Sequences, FiniteSets

CONSTANTS Callers,     \* tasks that run `sniffer' commands
          QueueLen,    \* CONFIG_SNIFFER_WORK_QUEUE_LEN
          MaxFrames,   \* bound: frames that arrive on an interface
          MaxStarts    \* bound: sniffer tasks that are created

ASSUME TaskAssumption ==
    /\ Callers # {}
    /\ QueueLen \in Nat \ {0}
    /\ MaxFrames \in Nat
    /\ MaxStarts \in Nat

Tasks == 1 .. MaxStarts
Interfaces == {"wlan", "eth"}
Frames == [id : 1 .. MaxFrames, from : Interfaces]
NoFrame == [id |-> 0, from |-> "none"]

VARIABLES
    running,     \* is_running
    interf,      \* interf
    writePcap,   \* write_pcap
    overwritten, \* a refused command has changed the options of a capture
    coexists,    \* chosen once: another task pauses and resumes the capture
    delivering,  \* interfaces whose driver hands its frames to the callback
    callback,    \* the frame wifi_sniffer_cb or eth_sniffer_cb holds
    arrived,     \* number of the last frame each driver has delivered
    queue,       \* work_queue
    sem,         \* sem_task_over
    pcap,        \* pcap_cmd_rt: closed, opened, or writing as well
    session,     \* how many sniffer tasks have been created
    work,        \* program counter of each sniffer task
    inHand,      \* packet_info of each sniffer task
    published,   \* the last frame of each interface that was published
    passed,      \* how many frames of each interface have been published
    pc,          \* where each caller is in sniffer_start or sniffer_stop
    left         \* left_items of each caller

options == <<interf, writePcap, overwritten, coexists>>
capture == <<delivering, callback, arrived>>
threads == <<session, work, inHand, published, passed>>
calls == <<pc, left>>
vars == <<running, capture, queue, sem, options, pcap, threads, calls>>

----------------------------------------------------------------------------
(* The driver callbacks; each driver has one task, which runs its callback *)

\* wifi_sniffer_cb, eth_sniffer_cb: a frame that is no broadcast, or that
\* malloc has no room for, is gone; the others are copied.
FrameArrives(i) ==
    /\ i \in delivering
    /\ callback[i] = NoFrame
    /\ arrived[i] < MaxFrames
    /\ arrived' = [arrived EXCEPT ![i] = @ + 1]
    /\ \E f \in {NoFrame, [id |-> arrived'[i], from |-> i]} :
          callback' = [callback EXCEPT ![i] = f]
    /\ UNCHANGED <<running, delivering, queue, sem, options, pcap, threads, calls>>

\* queue_packet: into the queue, or, when it has been full for 100 ms, freed.
QueuePacket(i) ==
    /\ callback[i] # NoFrame
    /\ queue' = IF Len(queue) < QueueLen THEN Append(queue, callback[i]) ELSE queue
    /\ callback' = [callback EXCEPT ![i] = NoFrame]
    /\ UNCHANGED <<running, delivering, arrived, sem, options, pcap, threads, calls>>

----------------------------------------------------------------------------
(* sniffer_task *)

\* while (is_running): another turn, or the semaphore and the end of the task.
TestRunning(t) ==
    /\ work[t] = "test"
    /\ work' = [work EXCEPT ![t] = IF running THEN "receive" ELSE "over"]
    /\ sem' = IF running THEN sem ELSE 1
    /\ UNCHANGED <<running, capture, queue, options, pcap,
                   session, inHand, published, passed, calls>>

\* xQueueReceive: a frame, or 100 ms without one.
Receive(t) ==
    /\ work[t] = "receive"
    /\ IF queue = <<>>
       THEN /\ work' = [work EXCEPT ![t] = "test"]
            /\ UNCHANGED <<queue, inHand>>
       ELSE /\ work' = [work EXCEPT ![t] = "publish"]
            /\ inHand' = [inHand EXCEPT ![t] = Head(queue)]
            /\ queue' = Tail(queue)
    /\ UNCHANGED <<running, capture, sem, options, pcap,
                   session, published, passed, calls>>

\* packet_capture, MQTT, USB and BLE get the frame; the copy is freed.
Publish(t) ==
    /\ work[t] = "publish"
    /\ published' = [published EXCEPT ![inHand[t].from] = inHand[t].id]
    /\ passed' = [passed EXCEPT ![inHand[t].from] = @ + 1]
    /\ work' = [work EXCEPT ![t] = "test"]
    /\ inHand' = [inHand EXCEPT ![t] = NoFrame]
    /\ UNCHANGED <<running, capture, queue, sem, options, pcap, session, calls>>

Worker(t) == TestRunning(t) \/ Receive(t) \/ Publish(t)

----------------------------------------------------------------------------
(* sniffer_start *)

Goto(c, label) == pc' = [pc EXCEPT ![c] = label]

\* sniff_packet_stop, if the options of the last command ask for pcap: the
\* session no longer writes; pcap_del_session may fail to close it.
PcapStopped ==
    pcap' \in IF ~writePcap THEN {pcap}
              ELSE IF pcap = "closed" THEN {"closed"} ELSE {"closed", "opened"}

\* The options of a command are stored in any case.
StoreOptions ==
    /\ interf' \in Interfaces
    /\ writePcap' \in BOOLEAN
    /\ overwritten' = \/ overwritten
                      \/ running /\ <<interf', writePcap'>> # <<interf, writePcap>>
    /\ UNCHANGED coexists

\* Mutant: is_running is not looked at.
CommandHeedless(c) ==
    /\ pc[c] = "idle"
    /\ session < MaxStarts
    /\ StoreOptions
    /\ \/ Goto(c, "idle")
       \/ Goto(c, IF writePcap' THEN "open_pcap" ELSE "create")
    /\ UNCHANGED <<running, capture, queue, sem, pcap, threads, left>>

\* do_sniffer_cmd: an error in its arguments or of config_get_u8 ends it;
\* sniffer_start looks at is_running.
Command(c) ==
    /\ pc[c] = "idle"
    /\ session < MaxStarts
    /\ StoreOptions
    /\ \/ Goto(c, "idle")
       \/ ~running /\ Goto(c, IF writePcap' THEN "open_pcap" ELSE "create")
    /\ UNCHANGED <<running, capture, queue, sem, pcap, threads, left>>

\* sniff_packet_start: waits for the host for seconds, opens the file and
\* writes the header of the session.  It fails without a host or a file, with
\* a session that is writing, and, with the file open, if it was left open by
\* a capture of the other link type or if there is no timer for Ethernet.
OpenPcap(c) ==
    /\ pc[c] = "open_pcap"
    /\ \/ pcap # "writing" /\ pcap' = "writing" /\ Goto(c, "create")
       \/ pcap # "writing" /\ pcap' = "opened" /\ Goto(c, "idle")
       \/ UNCHANGED pcap /\ Goto(c, "idle")
    /\ UNCHANGED <<running, capture, queue, sem, options, threads, left>>

\* is_running = true, xTaskCreate.
Create(c) ==
    /\ pc[c] = "create"
    /\ session < MaxStarts
    /\ running' = TRUE
    /\ session' = session + 1
    /\ work' = [work EXCEPT ![session'] = "test"]
    /\ Goto(c, "radio")
    /\ UNCHANGED <<capture, queue, sem, options, pcap, inHand, published, passed, left>>

\* Mutant: err_task forgets the pcap session.
CreateFailsKeepsPcap(c) ==
    /\ pc[c] = "create"
    /\ running' = FALSE
    /\ Goto(c, "idle")
    /\ UNCHANGED <<capture, queue, sem, options, pcap, threads, left>>

\* xTaskCreate has no memory for the task: err_task.
CreateFails(c) ==
    /\ pc[c] = "create"
    /\ running' = FALSE
    /\ PcapStopped
    /\ Goto(c, "idle")
    /\ UNCHANGED <<capture, queue, sem, options, threads, left>>

\* The driver is told to deliver.  On Wi-Fi esp_wifi_set_channel comes after
\* that and may fail, which leaves promiscuous mode on.
Radio(c) ==
    /\ pc[c] = "radio"
    /\ \/ /\ delivering' = delivering \cup {interf}
          /\ Goto(c, "idle")
          /\ UNCHANGED running
       \/ /\ delivering' \in {delivering, delivering \cup ({interf} \cap {"wlan"})}
          /\ running' = FALSE
          /\ Goto(c, "undo")
    /\ UNCHANGED <<callback, arrived, queue, sem, options, pcap, threads, left>>

\* Mutant: the start is undone without joining the task.
UndoUnjoined(c) ==
    /\ pc[c] = "undo"
    /\ running' = FALSE
    /\ PcapStopped
    /\ Goto(c, "idle")
    /\ UNCHANGED <<capture, queue, sem, options, threads, left>>

\* err_start: the task is joined and the session closed.
Undo(c) ==
    /\ pc[c] = "undo"
    /\ sem = 1
    /\ sem' = 0
    /\ running' = FALSE
    /\ PcapStopped
    /\ Goto(c, "idle")
    /\ UNCHANGED <<capture, queue, options, threads, left>>

----------------------------------------------------------------------------
(* sniffer_stop *)

\* The driver of the current interface stops first; if it refuses, that is all.
\* esp_wifi_set_promiscuous is served by the Wi-Fi task, which also runs the
\* callback: none is under way when it returns.  The Ethernet driver's task may
\* still be in its callback, waiting for room in the queue.
StopRadio(c) ==
    /\ pc[c] = "idle"
    /\ running
    /\ interf = "wlan" => callback["wlan"] = NoFrame
    /\ delivering' = delivering \ {interf}
    /\ Goto(c, "mark")
    /\ UNCHANGED <<running, callback, arrived, queue, sem, options, pcap, threads, left>>

\* Mutant: the flag is not cleared before the join.
MarkForgotten(c) ==
    /\ pc[c] = "mark"
    /\ Goto(c, "join")
    /\ UNCHANGED <<running, capture, queue, sem, options, pcap, threads, left>>

\* is_running = false.
Mark(c) ==
    /\ pc[c] = "mark"
    /\ running' = FALSE
    /\ Goto(c, "join")
    /\ UNCHANGED <<capture, queue, sem, options, pcap, threads, left>>

\* Mutant: one item is left behind.
JoinOneShort(c) ==
    /\ pc[c] = "join"
    /\ sem = 1
    /\ sem' = 0
    /\ left' = [left EXCEPT ![c] = IF queue = <<>> THEN 0 ELSE Len(queue) - 1]
    /\ Goto(c, "drain")
    /\ UNCHANGED <<running, capture, queue, options, pcap, threads>>

\* xSemaphoreTake without a timeout, then the items that are left are counted.
Join(c) ==
    /\ pc[c] = "join"
    /\ sem = 1
    /\ sem' = 0
    /\ left' = [left EXCEPT ![c] = Len(queue)]
    /\ Goto(c, "drain")
    /\ UNCHANGED <<running, capture, queue, options, pcap, threads>>

\* while (left_items--): each is received, or waited for, and freed.
Drain(c) ==
    /\ pc[c] = "drain"
    /\ left[c] > 0
    /\ left' = [left EXCEPT ![c] = @ - 1]
    /\ queue' = IF queue = <<>> THEN queue ELSE Tail(queue)
    /\ UNCHANGED <<running, capture, sem, options, pcap, threads, pc>>

StopEnd(c) ==
    /\ pc[c] = "drain"
    /\ left[c] = 0
    /\ PcapStopped
    /\ Goto(c, "idle")
    /\ UNCHANGED <<running, capture, queue, sem, options, threads, left>>

----------------------------------------------------------------------------

\* The coex task: sniffer_pause (which waits for the Wi-Fi task as well) and
\* sniffer_resume, neither of which looks at is_running; what they look at,
\* s_paused and interf, may have changed when they act.
Coex ==
    /\ coexists
    /\ \/ delivering' = delivering \cup {"wlan"}
       \/ callback["wlan"] = NoFrame /\ delivering' = delivering \ {"wlan"}
    /\ UNCHANGED <<running, callback, arrived, queue, sem, options, pcap, threads, calls>>

Init ==
    /\ running = FALSE
    /\ interf = "wlan"
    /\ writePcap = FALSE
    /\ overwritten = FALSE
    /\ coexists \in BOOLEAN
    /\ delivering = {}
    /\ callback = [i \in Interfaces |-> NoFrame]
    /\ arrived = [i \in Interfaces |-> 0]
    /\ queue = <<>>
    /\ sem = 0
    /\ pcap = "closed"
    /\ session = 0
    /\ work = [t \in Tasks |-> "none"]
    /\ inHand = [t \in Tasks |-> NoFrame]
    /\ published = [i \in Interfaces |-> 0]
    /\ passed = [i \in Interfaces |-> 0]
    /\ pc = [c \in Callers |-> "idle"]
    /\ left = [c \in Callers |-> 0]

\* What a call does once it was made.
Call(c) ==
    \/ OpenPcap(c) \/ Create(c) \/ CreateFails(c) \/ Radio(c) \/ Undo(c)
    \/ Mark(c) \/ Join(c) \/ Drain(c) \/ StopEnd(c)

Next ==
    \/ \E i \in Interfaces : FrameArrives(i) \/ QueuePacket(i)
    \/ Coex
    \/ \E t \in Tasks : Worker(t)
    \/ \E c \in Callers : Command(c) \/ StopRadio(c) \/ Call(c)

Spec == Init /\ [][Next]_vars

\* The scheduler runs every task that can run; no command has to be typed.
FairSpec ==
    /\ Spec
    /\ \A i \in Interfaces : WF_vars(QueuePacket(i))
    /\ \A t \in Tasks : WF_vars(Worker(t))
    /\ \A c \in Callers : WF_vars(Call(c))

----------------------------------------------------------------------------
(* Properties *)

TypeOK ==
    /\ running \in BOOLEAN /\ writePcap \in BOOLEAN
    /\ overwritten \in BOOLEAN /\ coexists \in BOOLEAN
    /\ interf \in Interfaces
    /\ delivering \subseteq Interfaces
    /\ callback \in [Interfaces -> Frames \cup {NoFrame}]
    /\ arrived \in [Interfaces -> 0 .. MaxFrames]
    /\ queue \in Seq(Frames) /\ Len(queue) <= QueueLen
    /\ sem \in 0 .. 1
    /\ pcap \in {"closed", "opened", "writing"}
    /\ session \in 0 .. MaxStarts
    /\ work \in [Tasks -> {"none", "test", "receive", "publish", "over"}]
    /\ inHand \in [Tasks -> Frames \cup {NoFrame}]
    /\ published \in [Interfaces -> 0 .. MaxFrames]
    /\ passed \in [Interfaces -> 0 .. MaxFrames]
    /\ pc \in [Callers -> {"idle", "open_pcap", "create", "radio", "undo",
                           "mark", "join", "drain"}]
    /\ left \in [Callers -> 0 .. QueueLen]

Alive(t) == work[t] \in {"test", "receive", "publish"}

\* There is one sniffer task at a time, so frames are published by one hand:
\* a start that fails half-way and a stop both join the task they leave.
OneTask == Cardinality({t \in Tasks : Alive(t)}) <= 1

\* The capture path loses frames but never repeats or reorders them, across
\* any number of stops and starts, on either interface.
AirPath == INSTANCE LossyFifo
    WITH offered <- arrived["wlan"], last <- published["wlan"], passed <- passed["wlan"]
WirePath == INSTANCE LossyFifo
    WITH offered <- arrived["eth"], last <- published["eth"], passed <- passed["eth"]
FifoSpec == AirPath!Spec /\ WirePath!Spec

Quiet == ~running /\ \A c \in Callers : pc[c] = "idle"

\* sniffer_stop frees what is left in the queue (cmd_sniffer.c:184): of all that
\* was captured before it at most one frame can come out of the next capture, the
\* one the task of the Ethernet driver was about to queue.  Not claimed while a
\* driver still delivers: one that a failed start has left on, or one that a
\* refused command has put out of the stop's reach.
LeftItemsFreed ==
    ~coexists /\ Quiet /\ delivering = {} =>
        /\ callback["wlan"] = NoFrame
        /\ Len(queue) + (IF callback["eth"] = NoFrame THEN 0 ELSE 1) <= 1
        /\ \A n \in 1 .. Len(queue) : queue[n].from = "eth"

\* A stop, and a start that failed at any point, has ended the pcap session
\* (cmd_sniffer.c:193), unless a refused command has changed the options.
PcapSessionEnds == ~overwritten /\ Quiet => pcap # "writing"

\* The task writes into a session that is open.
CaptureInSession ==
    \A t \in Tasks : ~overwritten /\ work[t] = "publish" /\ writePcap => pcap = "writing"

\* One task, within its session: no order of starts and stops breaks it.
Inv == TypeOK /\ OneTask /\ CaptureInSession

\* A caller that waits for the task to be over comes back; this holds of one
\* caller.
StopReturns == \A c \in Callers : pc[c] \in {"undo", "join"} ~> pc[c] = "idle"
=============================================================================
