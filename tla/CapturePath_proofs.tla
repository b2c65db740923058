------------------------- MODULE CapturePath_proofs -------------------------
(***************************************************************************)
(* The way of a captured frame, from the radio's callback to the program   *)
(* at the other end of the USB cable or to the phone: the sniffer task     *)
(* that hands it on (SnifferTask), the streams it is written into          *)
(* (UsbStream, BleStream), the reader that finds it again (FrameReader).   *)
(* The parts follow below; those of the streams rest on that of the        *)
(* reader, which therefore comes first.                                    *)
(***************************************************************************)
EXTENDS SnifferTask, FrameReader, UsbStream, BleStream, FiniteSetTheorems,
        SequenceTheorems, WellFoundedInduction, TLAPS

----------------------------------------------------------------------------
(***************************************************************************)
(* PART I: the sniffer task.                                               *)
(*                                                                         *)
(* For a queue of any length and any number of frames and starts, with     *)
(* commands from one task: one sniffer task at a time, at most one frame   *)
(* left over from a capture, a pcap session that is closed when the        *)
(* sniffer rests, and two paths that keep the order.  With commands from   *)
(* two tasks none of it holds.                                             *)
(*                                                                         *)
(* The argument is that the place of the caller in sniffer_start or        *)
(* sniffer_stop tells all there is to know of the flag, the task and the   *)
(* semaphore (Stage); that the frames of each interface are numbered in    *)
(* the order of their path (Ordered), and only one task has a hand between *)
(* the queue and the publishers (Hands); and that the place of the caller  *)
(* also bounds what is in the queue and the callbacks (Remains) and tells  *)
(* whether the pcap session is open (Sessions).                            *)
(***************************************************************************)

----------------------------------------------------------------------------
(* The inductive invariant *)

\* The task of the last start has not ended.
Working == session \in Tasks /\ Alive(session)

\* Where a caller is tells whether the flag is set, whether there is a task and
\* whether the semaphore has been given.
Stage(c) ==
    /\ pc[c] = "idle" => sem = 0 /\ (running <=> Working)
    /\ pc[c] \in {"open_pcap", "create", "drain"} => sem = 0 /\ ~running /\ ~Working
    /\ pc[c] \in {"radio", "mark"} => sem = 0 /\ running /\ Working
    /\ pc[c] \in {"undo", "join"} => ~running /\ (sem = 1 <=> ~Working)

\* The places in the queue that hold a frame of an interface.
Places(i) == {n \in 1 .. Len(queue) : queue[n].from = i}

\* Frames of an interface are numbered in the order of the path: published, in
\* the hand of the task, in the queue, in the callback.
Ordered(i) ==
    /\ passed[i] <= published[i] /\ published[i] <= arrived[i]
    /\ \A n \in Places(i) : published[i] < queue[n].id /\ queue[n].id <= arrived[i]
    /\ \A m, n \in Places(i) : m < n => queue[m].id < queue[n].id
    /\ callback[i] # NoFrame =>
         /\ callback[i].id = arrived[i] /\ published[i] < arrived[i]
         /\ \A n \in Places(i) : queue[n].id < arrived[i]
    /\ \A t \in Tasks : work[t] = "publish" /\ inHand[t].from = i =>
         /\ published[i] < inHand[t].id /\ inHand[t].id <= arrived[i]
         /\ \A n \in Places(i) : inHand[t].id < queue[n].id
         /\ callback[i] # NoFrame => inHand[t].id < arrived[i]

\* What the hands that frames go through hold; but for another task that pauses
\* the capture, the callback of Wi-Fi is idle once the driver has stopped.
Hands ==
    /\ \A i \in Interfaces : callback[i] # NoFrame => callback[i].from = i
    /\ \A t \in Tasks : work[t] = "publish" => inHand[t] \in Frames
    /\ ~coexists /\ callback["wlan"] # NoFrame => "wlan" \in delivering

\* The frames at the head of the queue that the stop of a caller will free.
Doomed(c) == IF pc[c] = "drain" THEN left[c] ELSE 0

\* What no stop frees once no driver delivers: a frame of Ethernet, at most.
Remains(c) ==
    delivering = {} /\ pc[c] \notin {"mark", "join"} =>
        /\ Doomed(c) <= Len(queue)
        /\ Len(queue) - Doomed(c) + (IF callback["eth"] = NoFrame THEN 0 ELSE 1) <= 1
        /\ \A n \in 1 .. Len(queue) : n > Doomed(c) => queue[n].from = "eth"

\* Where a caller is tells whether the pcap session is open.
Sessions(c) ==
    /\ pc[c] = "open_pcap" => writePcap
    /\ pcap = "writing" => writePcap /\ (running \/ pc[c] \in {"create", "undo", "join", "drain"})
    /\ writePcap /\ (pc[c] = "create" \/ Working) => pcap = "writing"

IInv ==
    /\ TypeOK
    /\ \A t \in Tasks : Alive(t) => t = session
    /\ Hands
    /\ \A i \in Interfaces : Ordered(i)
    /\ \A c \in Callers : /\ Stage(c)
                          /\ ~coexists => Remains(c)
                          /\ ~overwritten => Sessions(c)

\* Commands come from one task.
Alone == \A c, d \in Callers : c = d

----------------------------------------------------------------------------
(* Lemmas *)

\* A step that leaves the path alone leaves it in order.
LEMMA PathKept ==
  ASSUME NEW i \in Interfaces, Ordered(i),
         UNCHANGED <<callback, arrived, queue, inHand, published, passed>>,
         \A t \in Tasks : work'[t] = "publish" => work[t] = "publish"
  PROVE  Ordered(i)'
  BY DEF Ordered, Places

\* What the queue holds after a frame was put in or taken out.
LEMMA QueueAppend ==
  ASSUME NEW q \in Seq(Frames), NEW f \in Frames
  PROVE  /\ Append(q, f) \in Seq(Frames) /\ Len(Append(q, f)) = Len(q) + 1
         /\ \A n \in 1 .. Len(q) : Append(q, f)[n] = q[n]
         /\ Append(q, f)[Len(q) + 1] = f
  OBVIOUS

LEMMA QueueTail ==
  ASSUME NEW q \in Seq(Frames), q # <<>>
  PROVE  /\ Len(q) \in Nat \ {0} /\ Head(q) = q[1] /\ Head(q) \in Frames
         /\ Tail(q) \in Seq(Frames) /\ Len(Tail(q)) = Len(q) - 1
         /\ \A n \in 1 .. Len(Tail(q)) : Tail(q)[n] = q[n + 1]
  BY HeadTailProperties, EmptySeq

\* The numbers of the frames.
LEMMA Numbers ==
  ASSUME TypeOK, NEW i \in Interfaces
  PROVE  /\ arrived[i] \in Nat /\ published[i] \in Nat /\ passed[i] \in Nat
         /\ callback[i].id \in Nat
         /\ Len(queue) \in Nat
         /\ \A n \in 1 .. Len(queue) : queue[n] \in Frames /\ queue[n].id \in Nat
         /\ \A t \in Tasks : inHand[t].id \in Nat
<1>1. \A n \in 1 .. Len(queue) : queue[n] \in Frames
  BY ElementOfSeq DEF TypeOK
<1>2. \A f \in Frames : f.id \in Nat
  BY TaskAssumption DEF Frames
<1>3. NoFrame.id \in Nat
  BY DEF NoFrame
<1> QED
  BY <1>1, <1>2, <1>3, TaskAssumption DEF TypeOK

\* What is no frame.
LEMMA NoFrameFacts ==
  NoFrame \notin Frames /\ NoFrame.from \notin Interfaces
  BY DEF NoFrame, Frames, Interfaces

\* Fewer frames in the queue, in the same order.
LEMMA TailKept ==
  ASSUME TypeOK, NEW i \in Interfaces, Ordered(i), queue # <<>>, queue' = Tail(queue),
         UNCHANGED <<callback, arrived, inHand, published, passed>>,
         \A t \in Tasks : work'[t] = "publish" => work[t] = "publish"
  PROVE  Ordered(i)'
<1>1. /\ Len(queue) \in Nat \ {0} /\ Len(queue') = Len(queue) - 1
      /\ \A n \in 1 .. Len(queue') : queue'[n] = queue[n + 1] /\ n + 1 \in 1 .. Len(queue)
  BY QueueTail DEF TypeOK
<1>2. \A n \in Places(i)' : n \in Nat /\ n + 1 \in Places(i) /\ queue'[n] = queue[n + 1]
  BY <1>1 DEF Places
<1>3. \A n \in Places(i)' : published[i] < queue'[n].id /\ queue'[n].id <= arrived[i]
  BY <1>2 DEF Ordered
<1>4. ASSUME NEW m \in Places(i)', NEW n \in Places(i)', m < n
      PROVE  queue'[m].id < queue'[n].id
  <2>1. m + 1 \in Places(i) /\ n + 1 \in Places(i) /\ m + 1 < n + 1
    BY <1>2, <1>4
  <2>2. queue[m + 1].id < queue[n + 1].id
    BY <2>1 DEF Ordered
  <2> QED
    BY <1>2, <2>2
<1>5. callback[i] # NoFrame => \A n \in Places(i)' : queue'[n].id < arrived[i]
  BY <1>2 DEF Ordered
<1>6. \A t \in Tasks : work[t] = "publish" /\ inHand[t].from = i =>
        \A n \in Places(i)' : inHand[t].id < queue'[n].id
  BY <1>2 DEF Ordered
<1> QED
  BY <1>3, <1>4, <1>5, <1>6 DEF Ordered

----------------------------------------------------------------------------
(* The steps *)

\* Nothing runs and nothing has arrived.
LEMMA InitInv == Init => IInv
<1> SUFFICES ASSUME Init PROVE IInv
  OBVIOUS
<1>1. Len(queue) = 0 /\ queue \in Seq(Frames) /\ 1 .. Len(queue) = {}
  BY DEF Init
<1>2. TypeOK
  <2>1. /\ 0 \in 0 .. MaxFrames /\ 0 \in 0 .. MaxStarts /\ 0 \in 0 .. QueueLen
        /\ Len(queue) <= QueueLen
    BY <1>1, TaskAssumption
  <2>2. /\ work \in [Tasks -> {"none", "test", "receive", "publish", "over"}]
        /\ inHand \in [Tasks -> Frames \cup {NoFrame}] /\ left \in [Callers -> 0 .. QueueLen]
        /\ pc \in [Callers -> {"idle", "open_pcap", "create", "radio", "undo",
                               "mark", "join", "drain"}]
    BY <2>1 DEF Init
  <2>3. /\ running \in BOOLEAN /\ writePcap \in BOOLEAN /\ overwritten \in BOOLEAN
        /\ coexists \in BOOLEAN /\ interf \in Interfaces /\ delivering \subseteq Interfaces
    BY DEF Init, Interfaces
  <2>4. /\ callback \in [Interfaces -> Frames \cup {NoFrame}]
        /\ arrived \in [Interfaces -> 0 .. MaxFrames]
        /\ published \in [Interfaces -> 0 .. MaxFrames]
        /\ passed \in [Interfaces -> 0 .. MaxFrames]
    BY <2>1 DEF Init
  <2>5. session \in 0 .. MaxStarts /\ sem \in 0 .. 1 /\ pcap \in {"closed", "opened", "writing"}
    BY <2>1 DEF Init
  <2> QED
    BY <1>1, <2>1, <2>2, <2>3, <2>4, <2>5 DEF TypeOK
<1>3. \A t \in Tasks : work[t] = "none" /\ ~Alive(t)
  BY DEF Init, Alive
<1>4. \A i \in Interfaces : callback[i] = NoFrame
  BY DEF Init
<1>5. Hands
  BY <1>3, <1>4 DEF Hands, Interfaces
<1>6. ASSUME NEW i \in Interfaces PROVE Ordered(i)
  <2>1. Places(i) = {}
    BY <1>1 DEF Places
  <2>2. passed[i] = 0 /\ published[i] = 0 /\ arrived[i] = 0
    BY DEF Init
  <2> QED
    BY <1>3, <1>4, <2>1, <2>2 DEF Ordered
<1>7. ASSUME NEW c \in Callers PROVE Stage(c) /\ Remains(c) /\ Sessions(c)
  <2>1. pc[c] = "idle"
    BY DEF Init
  <2>2. Stage(c)
    BY <1>3, <2>1 DEF Init, Stage, Working
  <2>3. Remains(c)
    BY <1>1, <1>4, <2>1 DEF Remains, Doomed, Interfaces
  <2>4. Sessions(c)
    BY <1>3, <2>1 DEF Init, Sessions, Working
  <2> QED
    BY <2>2, <2>3, <2>4
<1> QED
  BY <1>2, <1>3, <1>5, <1>6, <1>7 DEF IInv

\* wifi_sniffer_cb, eth_sniffer_cb.
LEMMA FrameArrivesKeeps ==
  ASSUME IInv, NEW i \in Interfaces, FrameArrives(i) PROVE IInv'
<1>1. /\ arrived[i] \in Nat /\ arrived[i] < MaxFrames /\ callback[i] = NoFrame /\ i \in delivering
      /\ arrived' = [arrived EXCEPT ![i] = @ + 1] /\ arrived'[i] = arrived[i] + 1
      /\ arrived'[i] \in 1 .. MaxFrames
  BY Numbers, TaskAssumption DEF FrameArrives, IInv, TypeOK
<1>2. PICK f \in {NoFrame, [id |-> arrived'[i], from |-> i]} : callback' = [callback EXCEPT ![i] = f]
  BY DEF FrameArrives
<1>3. f \in Frames \cup {NoFrame} /\ (f # NoFrame => f.from = i /\ f.id = arrived'[i])
  BY <1>1, <1>2 DEF Frames
<1>4. /\ callback' \in [Interfaces -> Frames \cup {NoFrame}]
      /\ callback'[i] = f /\ \A j \in Interfaces : j # i => callback'[j] = callback[j]
      /\ arrived' \in [Interfaces -> 0 .. MaxFrames]
      /\ \A j \in Interfaces : j # i => arrived'[j] = arrived[j]
  BY <1>1, <1>2, <1>3, TaskAssumption DEF IInv, TypeOK
<1>5. /\ UNCHANGED <<running, delivering, queue, sem, interf, writePcap, overwritten, coexists, pcap>>
      /\ UNCHANGED <<session, work, inHand, published, passed, pc, left>>
  BY DEF FrameArrives, options, threads, calls
<1>6. TypeOK'
  BY <1>4, <1>5 DEF IInv, TypeOK
<1>7. Hands'
  BY <1>1, <1>3, <1>4, <1>5 DEF IInv, Hands, Interfaces
<1>8. ASSUME NEW j \in Interfaces PROVE Ordered(j)'
  <2>1. Ordered(j) /\ TypeOK /\ Places(j)' = Places(j)
    BY <1>5 DEF IInv, Places
  <2>2. CASE j # i
    BY <1>4, <1>5, <2>1, <2>2 DEF Ordered
  <2>3. CASE j = i
    <3>1. /\ passed[i] \in Nat /\ published[i] \in Nat
          /\ \A n \in Places(i) : queue[n].id \in Nat
          /\ \A t \in Tasks : inHand[t].id \in Nat
      BY <2>1, Numbers DEF Places
    <3>2. passed[i] <= published[i] /\ published[i] < arrived'[i]
      BY <1>1, <2>1, <2>3, <3>1 DEF Ordered
    <3>3. \A n \in Places(i) : published[i] < queue[n].id /\ queue[n].id < arrived'[i]
      BY <1>1, <2>1, <2>3, <3>1 DEF Ordered
    <3>4. \A t \in Tasks : work[t] = "publish" /\ inHand[t].from = i =>
            /\ published[i] < inHand[t].id /\ inHand[t].id < arrived'[i]
            /\ \A n \in Places(i) : inHand[t].id < queue[n].id
      BY <1>1, <2>1, <2>3, <3>1 DEF Ordered
    <3>5. \A m, n \in Places(i) : m < n => queue[m].id < queue[n].id
      BY <2>1, <2>3 DEF Ordered
    <3>6. callback'[i] # NoFrame => callback'[i].id = arrived'[i]
      BY <1>3, <1>4
    <3>7. arrived'[i] \in Nat
      BY <1>1
    <3> QED
      BY <1>5, <2>1, <2>3, <3>1, <3>2, <3>3, <3>4, <3>5, <3>6, <3>7 DEF Ordered
  <2> QED
    BY <2>2, <2>3
<1>9. ASSUME NEW c \in Callers
      PROVE Stage(c)' /\ (~coexists' => Remains(c)') /\ (~overwritten' => Sessions(c)')
  <2>1. Stage(c)' /\ (~overwritten' => Sessions(c)')
    BY <1>5 DEF IInv, Stage, Sessions, Working, Alive
  <2>2. delivering' # {}
    BY <1>1, <1>5
  <2> QED
    BY <2>1, <2>2 DEF Remains
<1> QED
  BY <1>5, <1>6, <1>7, <1>8, <1>9 DEF IInv, Alive

\* queue_packet.
LEMMA QueuePacketKeeps ==
  ASSUME IInv, NEW i \in Interfaces, QueuePacket(i) PROVE IInv'
<1>1. /\ callback[i] # NoFrame /\ callback[i] \in Frames /\ callback[i].from = i
      /\ callback'[i] = NoFrame /\ \A j \in Interfaces : j # i => callback'[j] = callback[j]
      /\ callback' \in [Interfaces -> Frames \cup {NoFrame}]
      /\ queue \in Seq(Frames) /\ Len(queue) \in Nat
  BY DEF QueuePacket, IInv, TypeOK, Hands
<1>2. /\ UNCHANGED <<running, delivering, arrived, sem, interf, writePcap, overwritten, coexists>>
      /\ UNCHANGED <<pcap, session, work, inHand, published, passed, pc, left>>
  BY DEF QueuePacket, options, threads, calls
<1>3. Hands'
  BY <1>1, <1>2 DEF IInv, Hands, Interfaces
<1>4. ASSUME NEW c \in Callers PROVE Stage(c)' /\ (~overwritten' => Sessions(c)')
  BY <1>2 DEF IInv, Stage, Sessions, Working, Alive
<1>5. CASE Len(queue) < QueueLen
  <2>1. queue' = Append(queue, callback[i])
    BY <1>5 DEF QueuePacket
  <2>2. /\ queue' \in Seq(Frames) /\ Len(queue') = Len(queue) + 1
        /\ \A n \in 1 .. Len(queue') : n = Len(queue') \/ n \in 1 .. Len(queue)
        /\ \A n \in 1 .. Len(queue) : queue'[n] = queue[n] /\ n < Len(queue')
        /\ queue'[Len(queue')] = callback[i]
        /\ Len(queue') \in 1 .. Len(queue')
    BY <1>1, <2>1, QueueAppend
  <2>3. TypeOK'
    <3>1. Len(queue') <= QueueLen
      BY <1>1, <1>5, <2>2, TaskAssumption
    <3> QED
      BY <1>1, <1>2, <2>2, <3>1 DEF IInv, TypeOK
  <2>4. ASSUME NEW j \in Interfaces PROVE Ordered(j)'
    <3>1. Ordered(j) /\ TypeOK
      BY DEF IInv
    <3>2. CASE j # i
      <4>1. Places(j)' = Places(j) /\ \A n \in Places(j) : queue'[n] = queue[n]
        BY <1>1, <2>2, <3>2 DEF Places
      <4> QED
        BY <1>1, <1>2, <3>1, <3>2, <4>1 DEF Ordered
    <3>3. CASE j = i
      <4>1. /\ \A n \in Places(i)' : n = Len(queue') \/ (n \in Places(i) /\ n < Len(queue'))
            /\ \A n \in Places(i) : queue'[n] = queue[n] /\ n < Len(queue') /\ n \in Nat
            /\ queue'[Len(queue')].id = arrived[i]
        <5>1. \A n \in Places(i) : queue'[n] = queue[n] /\ n < Len(queue') /\ n \in Nat
          BY <2>2 DEF Places
        <5>2. \A n \in Places(i)' : n = Len(queue') \/ (n \in Places(i) /\ n < Len(queue'))
          BY <2>2 DEF Places
        <5>3. queue'[Len(queue')].id = arrived[i]
          BY <1>1, <2>2, <3>1, <3>3 DEF Ordered
        <5> QED
          BY <5>1, <5>2, <5>3
      <4>2. /\ arrived[i] \in Nat /\ published[i] \in Nat /\ Len(queue') \in Nat
            /\ \A n \in Places(i) : queue[n].id \in Nat
            /\ \A t \in Tasks : inHand[t].id \in Nat
        BY <1>1, <2>2, <3>1, Numbers DEF Places
      <4>3. \A n \in Places(i) : queue[n].id < arrived[i]
        BY <1>1, <3>1, <3>3 DEF Ordered
      <4>4. \A n \in Places(i)' : published[i] < queue'[n].id /\ queue'[n].id <= arrived[i]
        BY <1>1, <3>1, <3>3, <4>1, <4>2 DEF Ordered
      <4>5. \A m, n \in Places(i)' : m < n => queue'[m].id < queue'[n].id
        <5> SUFFICES ASSUME NEW m \in Places(i)', NEW n \in Places(i)', m < n
                     PROVE  queue'[m].id < queue'[n].id
          OBVIOUS
        <5>1. m \in Places(i)
          BY <4>1, <4>2
        <5>2. CASE n = Len(queue')
          BY <4>1, <4>3, <5>1, <5>2
        <5>3. CASE n \in Places(i)
          BY <3>1, <3>3, <4>1, <5>1, <5>3 DEF Ordered
        <5> QED
          BY <4>1, <5>2, <5>3
      <4>6. \A t \in Tasks : work[t] = "publish" /\ inHand[t].from = i =>
              /\ published[i] < inHand[t].id /\ inHand[t].id <= arrived[i]
              /\ \A n \in Places(i)' : inHand[t].id < queue'[n].id
        BY <1>1, <3>1, <3>3, <4>1, <4>2 DEF Ordered
      <4>7. passed[i] <= published[i] /\ published[i] <= arrived[i]
        BY <3>1, <3>3 DEF Ordered
      <4> QED
        BY <1>1, <1>2, <3>3, <4>4, <4>5, <4>6, <4>7 DEF Ordered
    <3> QED
      BY <3>2, <3>3
  <2>5. ASSUME NEW c \in Callers, ~coexists PROVE Remains(c)'
    <3> SUFFICES ASSUME delivering = {}, pc[c] \notin {"mark", "join"}
                 PROVE  /\ Doomed(c) <= Len(queue')
                        /\ Len(queue') - Doomed(c) + (IF callback'["eth"] = NoFrame THEN 0 ELSE 1) <= 1
                        /\ \A n \in 1 .. Len(queue') : n > Doomed(c) => queue'[n].from = "eth"
      BY <1>2 DEF Remains, Doomed
    <3>1. i = "eth" /\ "eth" \in Interfaces
      BY <1>1, <2>5 DEF IInv, Hands, Interfaces
    <3>2. /\ Doomed(c) <= Len(queue) /\ Len(queue) - Doomed(c) + 1 <= 1
          /\ \A n \in 1 .. Len(queue) : n > Doomed(c) => queue[n].from = "eth"
      BY <1>1, <2>5, <3>1 DEF IInv, Remains
    <3>3. Doomed(c) \in Nat
      BY TaskAssumption DEF Doomed, IInv, TypeOK
    <3> QED
      BY <1>1, <2>2, <3>1, <3>2, <3>3
  <2> QED
    BY <1>2, <1>3, <1>4, <2>3, <2>4, <2>5 DEF IInv, Alive
<1>6. CASE ~(Len(queue) < QueueLen)
  <2>1. queue' = queue
    BY <1>6 DEF QueuePacket
  <2>2. TypeOK'
    BY <1>1, <1>2, <2>1 DEF IInv, TypeOK
  <2>3. ASSUME NEW j \in Interfaces PROVE Ordered(j)'
    <3>1. Ordered(j) /\ Places(j)' = Places(j)
      BY <2>1 DEF IInv, Places
    <3> QED
      BY <1>1, <1>2, <2>1, <3>1 DEF Ordered
  <2>4. ASSUME NEW c \in Callers, ~coexists PROVE Remains(c)'
    <3>1. Remains(c) /\ Doomed(c)' = Doomed(c) /\ Doomed(c) \in Nat
      BY <1>2, <2>4, TaskAssumption DEF IInv, TypeOK, Doomed
    <3>2. callback["eth"] = NoFrame => callback'["eth"] = NoFrame
      BY <1>1 DEF Interfaces
    <3> QED
      BY <1>1, <1>2, <2>1, <3>1, <3>2 DEF Remains
  <2> QED
    BY <1>2, <1>3, <1>4, <2>2, <2>3, <2>4 DEF IInv, Alive
<1> QED
  BY <1>5, <1>6

\* sniffer_pause and sniffer_resume.
LEMMA CoexKeeps == ASSUME IInv, Coex PROVE IInv'
<1>1. /\ coexists
      /\ UNCHANGED <<running, callback, arrived, queue, sem, interf, writePcap, overwritten, coexists>>
      /\ UNCHANGED <<pcap, session, work, inHand, published, passed, pc, left>>
  BY DEF Coex, options, threads, calls
<1>2. delivering' \subseteq Interfaces
  BY DEF Coex, IInv, TypeOK, Interfaces
<1>3. TypeOK'
  BY <1>1, <1>2 DEF IInv, TypeOK
<1>4. \A i \in Interfaces : Ordered(i)'
  BY <1>1, PathKept DEF IInv
<1> QED
  BY <1>1, <1>3, <1>4 DEF IInv, Alive, Hands, Stage, Sessions, Working

\* The test of the flag and, if it is down, the semaphore.
LEMMA TestRunningKeeps == ASSUME IInv, NEW t \in Tasks, TestRunning(t) PROVE IInv'
<1>1. t = session /\ Alive(t) /\ Working
  BY DEF TestRunning, IInv, Alive, Working
<1>2. /\ UNCHANGED <<running, delivering, callback, arrived, queue, interf, writePcap>>
      /\ UNCHANGED <<overwritten, coexists, pcap, session, inHand, published, passed, pc, left>>
      /\ work[t] = "test" /\ work' = [work EXCEPT ![t] = IF running THEN "receive" ELSE "over"]
      /\ sem' = IF running THEN sem ELSE 1
  BY DEF TestRunning, capture, options, calls
<1>3. TypeOK'
  BY <1>2 DEF IInv, TypeOK
<1>4. \A u \in Tasks : work'[u] = "publish" => work[u] = "publish"
  BY <1>2 DEF IInv, TypeOK
<1>5. Hands' /\ \A i \in Interfaces : Ordered(i)'
  BY <1>2, <1>4, PathKept DEF IInv, Hands
<1>6. \A u \in Tasks : Alive(u)' => u = session'
  BY <1>1, <1>2 DEF IInv, TypeOK, Alive
<1>7. ASSUME NEW c \in Callers, ~coexists PROVE Remains(c)'
  BY <1>2, <1>7 DEF IInv, Remains, Doomed
<1>8. CASE running
  <2>1. Working'
    BY <1>1, <1>2, <1>8 DEF IInv, TypeOK, Alive, Working
  <2>2. ASSUME NEW c \in Callers PROVE Stage(c)' /\ (~overwritten' => Sessions(c)')
    BY <1>1, <1>2, <1>8, <2>1 DEF IInv, Stage, Sessions
  <2> QED
    BY <1>2, <1>3, <1>5, <1>6, <1>7, <2>2 DEF IInv
<1>9. CASE ~running
  <2>1. ~Working' /\ sem' = 1
    BY <1>1, <1>2, <1>9 DEF IInv, TypeOK, Working, Alive
  <2>2. \A c \in Callers : pc[c] \in {"undo", "join"}
    BY <1>1, <1>9 DEF IInv, Stage, TypeOK
  <2>3. ASSUME NEW c \in Callers PROVE Stage(c)' /\ (~overwritten' => Sessions(c)')
    BY <1>1, <1>2, <1>9, <2>1, <2>2 DEF IInv, Stage, Sessions
  <2> QED
    BY <1>2, <1>3, <1>5, <1>6, <1>7, <2>3 DEF IInv
<1> QED
  BY <1>8, <1>9

\* xQueueReceive.
LEMMA ReceiveKeeps == ASSUME IInv, NEW t \in Tasks, Receive(t) PROVE IInv'
<1>1. t = session /\ Alive(t) /\ Working /\ work[t] = "receive"
  BY DEF Receive, IInv, Alive, Working
<1>2. /\ UNCHANGED <<running, delivering, callback, arrived, sem, interf, writePcap, overwritten>>
      /\ UNCHANGED <<coexists, pcap, session, published, passed, pc, left>>
  BY DEF Receive, capture, options, calls
<1>3. \A u \in Tasks : work[u] # "publish"
  BY <1>1 DEF IInv, Alive
<1>4. Working' /\ \A u \in Tasks : Alive(u)' => u = session'
  BY <1>1, <1>2 DEF Receive, IInv, TypeOK, Alive, Working
<1>5. ASSUME NEW c \in Callers PROVE Stage(c)' /\ (~overwritten' => Sessions(c)')
  BY <1>1, <1>2, <1>4 DEF IInv, Stage, Sessions
<1>6. CASE queue = <<>>
  <2>1. UNCHANGED <<queue, inHand>> /\ work' = [work EXCEPT ![t] = "test"]
    BY <1>6 DEF Receive
  <2>2. TypeOK'
    BY <1>2, <2>1 DEF IInv, TypeOK
  <2>3. \A u \in Tasks : work'[u] # "publish"
    BY <1>3, <2>1 DEF IInv, TypeOK
  <2>4. Hands' /\ \A i \in Interfaces : Ordered(i)'
    BY <1>2, <2>1, <2>3, PathKept DEF IInv, Hands
  <2>5. ASSUME NEW c \in Callers, ~coexists PROVE Remains(c)'
    BY <1>2, <2>1, <2>5 DEF IInv, Remains, Doomed
  <2> QED
    BY <1>2, <1>4, <1>5, <2>2, <2>4, <2>5 DEF IInv
<1>7. CASE queue # <<>>
  <2>1. queue' = Tail(queue) /\ inHand' = [inHand EXCEPT ![t] = Head(queue)]
        /\ queue \in Seq(Frames) /\ work' = [work EXCEPT ![t] = "publish"]
    BY <1>7 DEF Receive, IInv, TypeOK
  <2>2. /\ Len(queue) \in Nat \ {0} /\ Len(queue') = Len(queue) - 1
        /\ \A n \in 1 .. Len(queue') : queue'[n] = queue[n + 1] /\ n + 1 \in 1 .. Len(queue)
        /\ queue' \in Seq(Frames) /\ queue[1] \in Frames /\ Head(queue) = queue[1]
    BY <1>7, <2>1, QueueTail
  <2>3. /\ inHand' \in [Tasks -> Frames \cup {NoFrame}] /\ inHand'[t] = queue[1]
        /\ work' \in [Tasks -> {"none", "test", "receive", "publish", "over"}]
        /\ \A u \in Tasks : work'[u] = "publish" => u = t
    BY <1>3, <2>1, <2>2 DEF IInv, TypeOK
  <2>4. TypeOK'
    <3>1. Len(queue') <= QueueLen
      BY <2>2, TaskAssumption DEF IInv, TypeOK
    <3> QED
      BY <1>2, <2>2, <2>3, <3>1 DEF IInv, TypeOK
  <2>5. Hands'
    BY <1>2, <2>2, <2>3 DEF IInv, Hands
  <2>6. ASSUME NEW i \in Interfaces PROVE Ordered(i)'
    <3>1. Ordered(i) /\ TypeOK /\ 1 \in 1 .. Len(queue)
      BY <2>2 DEF IInv
    <3>2. \A n \in Places(i)' : n \in Nat /\ n + 1 \in Places(i) /\ queue'[n] = queue[n + 1] /\ n + 1 > 1
      BY <2>2 DEF Places
    <3>3. \A n \in Places(i)' : published[i] < queue'[n].id /\ queue'[n].id <= arrived[i]
      BY <3>1, <3>2 DEF Ordered
    <3>4. \A m, n \in Places(i)' : m < n => queue'[m].id < queue'[n].id
      BY <3>1, <3>2 DEF Ordered
    <3>5. callback[i] # NoFrame =>
            /\ callback[i].id = arrived[i] /\ published[i] < arrived[i]
            /\ \A n \in Places(i)' : queue'[n].id < arrived[i]
      BY <3>1, <3>2 DEF Ordered
    <3>6. queue[1].from = i =>
            /\ published[i] < queue[1].id /\ queue[1].id <= arrived[i]
            /\ \A n \in Places(i)' : queue[1].id < queue'[n].id
            /\ callback[i] # NoFrame => queue[1].id < arrived[i]
      <4>1. queue[1].from = i => 1 \in Places(i)
        BY <3>1 DEF Places
      <4> QED
        BY <3>1, <3>2, <4>1 DEF Ordered
    <3>7. \A u \in Tasks : work'[u] = "publish" /\ inHand'[u].from = i =>
            /\ published[i] < inHand'[u].id /\ inHand'[u].id <= arrived[i]
            /\ \A n \in Places(i)' : inHand'[u].id < queue'[n].id
            /\ callback[i] # NoFrame => inHand'[u].id < arrived[i]
      BY <2>3, <3>6
    <3>8. passed[i] <= published[i] /\ published[i] <= arrived[i]
      BY <3>1 DEF Ordered
    <3> QED
      BY <1>2, <3>3, <3>4, <3>5, <3>7, <3>8 DEF Ordered
  <2>7. ASSUME NEW c \in Callers, ~coexists PROVE Remains(c)'
    <3> SUFFICES ASSUME delivering = {}, pc[c] \notin {"mark", "join"}
                 PROVE  /\ Doomed(c) <= Len(queue')
                        /\ Len(queue') - Doomed(c) + (IF callback["eth"] = NoFrame THEN 0 ELSE 1) <= 1
                        /\ \A n \in 1 .. Len(queue') : n > Doomed(c) => queue'[n].from = "eth"
      BY <1>2 DEF Remains, Doomed
    <3>1. Doomed(c) = 0
      BY <1>1 DEF IInv, Stage, Doomed
    <3>2. /\ Len(queue) + (IF callback["eth"] = NoFrame THEN 0 ELSE 1) <= 1
          /\ \A n \in 1 .. Len(queue) : n > 0 => queue[n].from = "eth"
      BY <2>2, <2>7, <3>1 DEF IInv, Remains
    <3> QED
      BY <2>2, <3>1, <3>2
  <2> QED
    BY <1>2, <1>4, <1>5, <2>4, <2>5, <2>6, <2>7 DEF IInv
<1> QED
  BY <1>6, <1>7

\* packet_capture and the streams.
LEMMA PublishKeeps == ASSUME IInv, NEW t \in Tasks, Publish(t) PROVE IInv'
<1>1. t = session /\ Alive(t) /\ Working /\ work[t] = "publish" /\ inHand[t] \in Frames
  BY DEF Publish, IInv, Alive, Working, Hands
<1>2. PICK i \in Interfaces : i = inHand[t].from
  BY <1>1 DEF Frames
<1>3. /\ published' = [published EXCEPT ![i] = inHand[t].id]
      /\ passed' = [passed EXCEPT ![i] = @ + 1]
      /\ work' = [work EXCEPT ![t] = "test"] /\ inHand' = [inHand EXCEPT ![t] = NoFrame]
      /\ UNCHANGED <<running, delivering, callback, arrived, queue, sem, interf, writePcap>>
      /\ UNCHANGED <<overwritten, coexists, pcap, session, pc, left>>
  BY <1>2 DEF Publish, capture, options, calls
<1>4. /\ published'[i] = inHand[t].id /\ passed'[i] = passed[i] + 1
      /\ \A j \in Interfaces : j # i => published'[j] = published[j] /\ passed'[j] = passed[j]
      /\ \A u \in Tasks : work'[u] # "publish"
  BY <1>1, <1>3 DEF IInv, TypeOK, Alive
<1>5. Working' /\ \A u \in Tasks : Alive(u)' => u = session'
  BY <1>1, <1>3 DEF IInv, TypeOK, Alive, Working
<1>6. /\ passed[i] <= published[i] /\ published[i] < inHand[t].id /\ inHand[t].id <= arrived[i]
      /\ \A n \in Places(i) : inHand[t].id < queue[n].id
      /\ callback[i] # NoFrame => inHand[t].id < arrived[i]
      /\ passed[i] \in Nat /\ published[i] \in Nat /\ inHand[t].id \in Nat
      /\ arrived[i] \in 0 .. MaxFrames
  BY <1>1, <1>2, Numbers DEF IInv, Ordered, TypeOK
<1>7. ASSUME NEW j \in Interfaces PROVE Ordered(j)'
  <2>1. Ordered(j) /\ Places(j)' = Places(j)
    BY <1>3 DEF IInv, Places
  <2>2. CASE j # i
    BY <1>3, <1>4, <2>1, <2>2 DEF Ordered
  <2>3. CASE j = i
    BY <1>3, <1>4, <1>6, <2>1, <2>3 DEF Ordered
  <2> QED
    BY <2>2, <2>3
<1>8. TypeOK'
  <2>1. passed'[i] \in 0 .. MaxFrames /\ published'[i] \in 0 .. MaxFrames
    BY <1>4, <1>6, TaskAssumption
  <2>2. /\ published' \in [Interfaces -> 0 .. MaxFrames]
        /\ passed' \in [Interfaces -> 0 .. MaxFrames]
        /\ inHand' \in [Tasks -> Frames \cup {NoFrame}]
        /\ work' \in [Tasks -> {"none", "test", "receive", "publish", "over"}]
    BY <1>3, <1>4, <2>1 DEF IInv, TypeOK
  <2> QED
    BY <1>3, <2>2 DEF IInv, TypeOK
<1>9. Hands'
  BY <1>3, <1>4 DEF IInv, Hands
<1>10. ASSUME NEW c \in Callers
       PROVE Stage(c)' /\ (~coexists' => Remains(c)') /\ (~overwritten' => Sessions(c)')
  <2>1. Stage(c)' /\ (~overwritten' => Sessions(c)')
    BY <1>1, <1>3, <1>5 DEF IInv, Stage, Sessions
  <2>2. ~coexists' => Remains(c)'
    BY <1>3 DEF IInv, Remains, Doomed
  <2> QED
    BY <2>1, <2>2
<1> QED
  BY <1>5, <1>7, <1>8, <1>9, <1>10 DEF IInv

\* A step of the caller that leaves the path and the sniffer tasks alone.
LEMMA CallKeeps ==
  ASSUME IInv, Alone, NEW c \in Callers, TypeOK',
         UNCHANGED <<callback, arrived, queue, threads, coexists>>,
         ~coexists /\ callback["wlan"] # NoFrame => "wlan" \in delivering',
         Stage(c)', ~coexists => Remains(c)', ~overwritten' => Sessions(c)'
  PROVE  IInv'
<1>1. \A i \in Interfaces : Ordered(i)'
  BY PathKept DEF IInv, threads
<1>2. Hands'
  BY DEF IInv, Hands, threads
<1>3. \A t \in Tasks : Alive(t)' => t = session'
  BY DEF IInv, Alive, threads
<1>4. \A d \in Callers : d = c
  BY DEF Alone
<1> QED
  BY <1>1, <1>2, <1>3, <1>4 DEF IInv

\* The same, if the drivers go on as they do.
LEMMA QuietCallKeeps ==
  ASSUME IInv, Alone, NEW c \in Callers, TypeOK',
         UNCHANGED <<capture, queue, threads, coexists>>,
         pc[c] \notin {"mark", "join", "drain"}, pc'[c] \notin {"mark", "join", "drain"},
         Stage(c)', ~overwritten' => Sessions(c)'
  PROVE  IInv'
<1>1. ~coexists => Remains(c)'
  BY DEF IInv, Remains, Doomed, capture
<1>2. ~coexists /\ callback["wlan"] # NoFrame => "wlan" \in delivering'
  BY DEF IInv, Hands, capture
<1> QED
  BY <1>1, <1>2, CallKeeps DEF capture

\* do_sniffer_cmd.
LEMMA CommandKeeps == ASSUME IInv, Alone, NEW c \in Callers, Command(c) PROVE IInv'
<1>1. TypeOK'
  BY DEF Command, StoreOptions, Goto, IInv, TypeOK, capture, threads
<1>2. Working' = Working
  BY DEF Command, Working, Alive, threads
<1>3. /\ pc[c] = "idle"
      /\ \/ pc'[c] = "idle"
         \/ ~running /\ pc'[c] = IF writePcap' THEN "open_pcap" ELSE "create"
      /\ UNCHANGED <<running, sem, pcap, coexists>>
  BY DEF Command, StoreOptions, Goto, IInv, TypeOK
<1>4. Stage(c) /\ Stage(c)'
  BY <1>2, <1>3 DEF IInv, Stage
<1>5. ASSUME ~overwritten' PROVE Sessions(c)'
  <2>1. ~overwritten /\ Sessions(c) /\ (running => writePcap' = writePcap)
    BY <1>5 DEF Command, StoreOptions, IInv, TypeOK
  <2>2. CASE running
    BY <1>2, <1>3, <2>1, <2>2 DEF Sessions
  <2>3. CASE ~running
    <3>1. pcap # "writing" /\ ~Working
      BY <1>3, <1>4, <2>1, <2>3 DEF Sessions, Stage
    <3> QED
      BY <1>2, <1>3, <2>3, <3>1 DEF Sessions
  <2> QED
    BY <2>2, <2>3
<1> QED
  BY <1>1, <1>3, <1>4, <1>5, QuietCallKeeps DEF Command

\* sniff_packet_start.
LEMMA OpenPcapKeeps == ASSUME IInv, Alone, NEW c \in Callers, OpenPcap(c) PROVE IInv'
<1>1. TypeOK'
  BY DEF OpenPcap, Goto, IInv, TypeOK, capture, options, threads
<1>2. Working' = Working
  BY DEF OpenPcap, Working, Alive, threads
<1>3. /\ pc[c] = "open_pcap"
      /\ \/ pc'[c] = "create" /\ pcap' = "writing"
         \/ pc'[c] = "idle" /\ (pcap' = "writing" => pcap = "writing")
  BY DEF OpenPcap, Goto, IInv, TypeOK
<1>4. Stage(c) /\ Stage(c)'
  BY <1>2, <1>3 DEF OpenPcap, IInv, Stage
<1>5. ASSUME ~overwritten' PROVE Sessions(c)'
  <2>1. Sessions(c) /\ ~running /\ ~Working /\ UNCHANGED <<running, writePcap>>
    BY <1>3, <1>4, <1>5 DEF OpenPcap, IInv, Stage, options
  <2> QED
    BY <1>2, <1>3, <2>1 DEF Sessions
<1> QED
  BY <1>1, <1>3, <1>4, <1>5, QuietCallKeeps DEF OpenPcap, options

\* xTaskCreate.
LEMMA CreateKeeps == ASSUME IInv, Alone, NEW c \in Callers, Create(c) PROVE IInv'
<1>1. /\ session' \in Tasks /\ session' = session + 1 /\ session \in Nat
      /\ session' \in 0 .. MaxStarts
      /\ work' = [work EXCEPT ![session'] = "test"] /\ pc[c] = "create"
  BY TaskAssumption DEF Create, IInv, TypeOK, Tasks
<1>2. /\ UNCHANGED <<delivering, callback, arrived, queue, sem, interf, writePcap, overwritten>>
      /\ UNCHANGED <<coexists, pcap, inHand, published, passed, left>>
      /\ running' = TRUE /\ pc' = [pc EXCEPT ![c] = "radio"]
  BY DEF Create, Goto, capture, options
<1>3. \A t \in Tasks : ~Alive(t)
  BY <1>1 DEF IInv, Stage, Working
<1>4. Working' /\ \A t \in Tasks : Alive(t)' => t = session'
  BY <1>1, <1>3 DEF IInv, TypeOK, Working, Alive
<1>5. TypeOK'
  BY <1>1, <1>2 DEF IInv, TypeOK
<1>6. \A t \in Tasks : work'[t] # "publish"
  BY <1>1, <1>3 DEF IInv, TypeOK, Alive
<1>7. Hands' /\ \A i \in Interfaces : Ordered(i)'
  BY <1>2, <1>6, PathKept DEF IInv, Hands
<1>8. pc'[c] = "radio" /\ \A d \in Callers : d = c
  BY <1>2 DEF IInv, TypeOK, Alone
<1>9. Stage(c)'
  BY <1>1, <1>2, <1>4, <1>8 DEF IInv, Stage
<1>10. ~coexists' => Remains(c)'
  BY <1>1, <1>2, <1>8 DEF IInv, Remains, Doomed
<1>11. ~overwritten' => Sessions(c)'
  BY <1>1, <1>2, <1>8 DEF IInv, Sessions
<1> QED
  BY <1>4, <1>5, <1>7, <1>8, <1>9, <1>10, <1>11 DEF IInv

\* sniff_packet_stop leaves no session that is writing.
LEMMA Stopped ==
  ASSUME TypeOK, PcapStopped
  PROVE  pcap' \in {"closed", "opened", "writing"} /\ (pcap' = "writing" => ~writePcap /\ pcap = "writing")
  BY DEF TypeOK, PcapStopped

\* err_task.
LEMMA CreateFailsKeeps == ASSUME IInv, Alone, NEW c \in Callers, CreateFails(c) PROVE IInv'
<1>1. TypeOK'
  BY Stopped DEF CreateFails, Goto, IInv, TypeOK, capture, options, threads
<1>2. Working' = Working
  BY DEF CreateFails, Working, Alive, threads
<1>3. pc[c] = "create" /\ pc'[c] = "idle" /\ ~running' /\ UNCHANGED <<sem, writePcap, overwritten, coexists>>
  BY DEF CreateFails, Goto, IInv, TypeOK, options
<1>4. Stage(c) /\ Stage(c)'
  BY <1>2, <1>3 DEF IInv, Stage
<1>5. ASSUME ~overwritten' PROVE Sessions(c)'
  <2>1. Sessions(c) /\ ~Working /\ pcap' # "writing"
    BY <1>3, <1>4, <1>5, Stopped DEF CreateFails, IInv, Stage, Sessions
  <2> QED
    BY <1>2, <1>3, <2>1 DEF Sessions
<1> QED
  BY <1>1, <1>3, <1>4, <1>5, QuietCallKeeps DEF CreateFails

\* The driver and the channel.
LEMMA RadioKeeps == ASSUME IInv, Alone, NEW c \in Callers, Radio(c) PROVE IInv'
<1>1. /\ pc[c] = "radio" /\ delivering \subseteq delivering' /\ delivering' \subseteq Interfaces
      /\ \/ pc'[c] = "idle" /\ running' = running
         \/ pc'[c] = "undo" /\ running' = FALSE
      /\ pc' \in [Callers -> {"idle", "open_pcap", "create", "radio", "undo",
                              "mark", "join", "drain"}]
      /\ running' \in BOOLEAN
  BY DEF Radio, Goto, IInv, TypeOK
<1>2. /\ UNCHANGED <<callback, arrived, queue, sem, interf, writePcap, overwritten, coexists>>
      /\ UNCHANGED <<pcap, threads, left>>
  BY DEF Radio, options
<1>3. TypeOK'
  BY <1>1, <1>2 DEF IInv, TypeOK, threads
<1>4. Working' /\ Working /\ running /\ sem = 0
  BY <1>1, <1>2 DEF IInv, Stage, Working, Alive, threads
<1>5. Stage(c)'
  <2>1. sem' = 0
    BY <1>2, <1>4
  <2>2. (pc'[c] = "idle" /\ running') \/ (pc'[c] = "undo" /\ ~running')
    BY <1>1, <1>4
  <2> QED
    BY <1>4, <2>1, <2>2 DEF Stage
<1>6. ~overwritten' => Sessions(c)'
  BY <1>1, <1>2, <1>4 DEF IInv, Sessions
<1>7. ~coexists => Remains(c)'
  BY <1>1, <1>2 DEF IInv, Remains, Doomed
<1>8. ~coexists /\ callback["wlan"] # NoFrame => "wlan" \in delivering'
  BY <1>1 DEF IInv, Hands
<1> QED
  BY <1>2, <1>3, <1>5, <1>6, <1>7, <1>8, CallKeeps

\* err_start.
LEMMA UndoKeeps == ASSUME IInv, Alone, NEW c \in Callers, Undo(c) PROVE IInv'
<1>1. /\ pc[c] = "undo" /\ pc'[c] = "idle" /\ sem = 1 /\ sem' = 0 /\ ~running' /\ running' \in BOOLEAN
      /\ pc' \in [Callers -> {"idle", "open_pcap", "create", "radio", "undo",
                              "mark", "join", "drain"}]
      /\ UNCHANGED <<delivering, callback, arrived, queue, interf, writePcap, overwritten>>
      /\ UNCHANGED <<coexists, threads, left>>
  BY DEF Undo, Goto, IInv, TypeOK, capture, options
<1>2. pcap' \in {"closed", "opened", "writing"} /\ (pcap' = "writing" => ~writePcap /\ pcap = "writing")
  BY Stopped DEF Undo, IInv
<1>3. TypeOK'
  BY <1>1, <1>2 DEF IInv, TypeOK, threads
<1>4. Working' = Working /\ ~Working
  BY <1>1 DEF IInv, Stage, Working, Alive, threads
<1>5. Stage(c)'
  BY <1>1, <1>4 DEF Stage
<1>6. ~overwritten' => Sessions(c)'
  BY <1>1, <1>2, <1>4 DEF IInv, Sessions
<1> QED
  BY <1>1, <1>3, <1>5, <1>6, QuietCallKeeps DEF capture

\* The driver stops.
LEMMA StopRadioKeeps == ASSUME IInv, Alone, NEW c \in Callers, StopRadio(c) PROVE IInv'
<1>1. TypeOK'
  BY DEF StopRadio, Goto, IInv, TypeOK, options, threads
<1>2. Working' = Working
  BY DEF StopRadio, Working, Alive, threads
<1>3. pc[c] = "idle" /\ pc'[c] = "mark" /\ running /\ running' = running /\ delivering' = delivering \ {interf}
      /\ (interf = "wlan" => callback["wlan"] = NoFrame)
  BY DEF StopRadio, Goto, IInv, TypeOK
<1>4. Stage(c)'
  BY <1>2, <1>3 DEF StopRadio, IInv, Stage
<1>5. ~overwritten' => Sessions(c)'
  BY <1>2, <1>3 DEF StopRadio, IInv, Sessions, options
<1>6. Remains(c)'
  BY <1>3 DEF Remains
<1>7. ~coexists /\ callback["wlan"] # NoFrame => "wlan" \in delivering'
  BY <1>3 DEF IInv, Hands
<1> QED
  BY <1>1, <1>4, <1>5, <1>6, <1>7, CallKeeps DEF StopRadio, options

\* is_running = false.
LEMMA MarkKeeps == ASSUME IInv, Alone, NEW c \in Callers, Mark(c) PROVE IInv'
<1>1. TypeOK'
  BY DEF Mark, Goto, IInv, TypeOK, capture, options, threads
<1>2. Working' = Working
  BY DEF Mark, Working, Alive, threads
<1>3. pc[c] = "mark" /\ pc'[c] = "join"
  BY DEF Mark, Goto, IInv, TypeOK
<1>4. Stage(c)'
  BY <1>2, <1>3 DEF Mark, IInv, Stage
<1>5. ~overwritten' => Sessions(c)'
  BY <1>2, <1>3 DEF Mark, IInv, Sessions, options
<1>6. Remains(c)'
  BY <1>3 DEF Remains
<1>7. ~coexists /\ callback["wlan"] # NoFrame => "wlan" \in delivering'
  BY DEF Mark, IInv, Hands, capture
<1> QED
  BY <1>1, <1>4, <1>5, <1>6, <1>7, CallKeeps DEF Mark, capture, options

\* The task is over: nobody but the caller takes frames from the queue.
LEMMA JoinKeeps == ASSUME IInv, Alone, NEW c \in Callers, Join(c) PROVE IInv'
<1>1. Len(queue) \in 0 .. QueueLen /\ Len(queue) \in Nat
  BY TaskAssumption DEF IInv, TypeOK
<1>2. TypeOK'
  BY <1>1 DEF Join, Goto, IInv, TypeOK, capture, options, threads
<1>3. Working' = Working /\ ~Working
  BY DEF Join, IInv, Stage, Working, Alive, threads
<1>4. pc[c] = "join" /\ pc'[c] = "drain" /\ left'[c] = Len(queue)
  BY DEF Join, Goto, IInv, TypeOK
<1>5. Stage(c)'
  BY <1>3, <1>4 DEF Join, IInv, Stage
<1>6. ~overwritten' => Sessions(c)'
  BY <1>3, <1>4 DEF Join, IInv, Sessions, options
<1>7. Remains(c)'
  <2>1. Doomed(c)' = Len(queue') /\ Len(queue') \in Nat
    BY <1>1, <1>4 DEF Join, Doomed
  <2> QED
    BY <2>1 DEF Remains
<1>8. ~coexists /\ callback["wlan"] # NoFrame => "wlan" \in delivering'
  BY DEF Join, IInv, Hands, capture
<1> QED
  BY <1>2, <1>5, <1>6, <1>7, <1>8, CallKeeps DEF Join, capture, options

\* One item that is left.
LEMMA DrainKeeps == ASSUME IInv, Alone, NEW c \in Callers, Drain(c) PROVE IInv'
<1>1. /\ pc[c] = "drain" /\ pc'[c] = "drain" /\ left[c] \in 1 .. QueueLen
      /\ left' \in [Callers -> 0 .. QueueLen] /\ left'[c] = left[c] - 1
  BY TaskAssumption DEF Drain, IInv, TypeOK
<1>2. /\ UNCHANGED <<running, delivering, callback, arrived, sem, interf, writePcap, overwritten>>
      /\ UNCHANGED <<coexists, pcap, session, work, inHand, published, passed, pc>>
      /\ queue' = (IF queue = <<>> THEN queue ELSE Tail(queue)) /\ queue \in Seq(Frames)
      /\ Len(queue) <= QueueLen
  BY DEF Drain, IInv, TypeOK, capture, options, threads
<1>3. /\ queue' \in Seq(Frames) /\ Len(queue') <= QueueLen
      /\ \A i \in Interfaces : Ordered(i)'
  <2>1. CASE queue = <<>>
    BY <1>2, <2>1, PathKept DEF IInv
  <2>2. CASE queue # <<>>
    <3>1. queue' = Tail(queue)
      BY <1>2, <2>2
    <3>2. queue' \in Seq(Frames) /\ Len(queue') <= QueueLen
      BY <1>2, <2>2, <3>1, QueueTail, TaskAssumption
    <3>3. \A i \in Interfaces : Ordered(i)'
      BY <1>2, <2>2, <3>1, TailKept DEF IInv
    <3> QED
      BY <3>2, <3>3
  <2> QED
    BY <2>1, <2>2
<1>4. TypeOK'
  BY <1>1, <1>2, <1>3 DEF IInv, TypeOK
<1>5. Hands' /\ \A t \in Tasks : Alive(t)' => t = session'
  BY <1>2 DEF IInv, Hands, Alive
<1>6. Stage(c)' /\ (~overwritten' => Sessions(c)')
  BY <1>1, <1>2 DEF IInv, Stage, Sessions, Working, Alive
<1>7. ASSUME ~coexists PROVE Remains(c)'
  <2> SUFFICES ASSUME delivering = {}
               PROVE  /\ left'[c] <= Len(queue')
                      /\ Len(queue') - left'[c] + (IF callback["eth"] = NoFrame THEN 0 ELSE 1) <= 1
                      /\ \A n \in 1 .. Len(queue') : n > left'[c] => queue'[n].from = "eth"
    BY <1>1, <1>2 DEF Remains, Doomed
  <2>1. /\ left[c] <= Len(queue)
        /\ Len(queue) - left[c] + (IF callback["eth"] = NoFrame THEN 0 ELSE 1) <= 1
        /\ \A n \in 1 .. Len(queue) : n > left[c] => queue[n].from = "eth"
    BY <1>1, <1>7 DEF IInv, Remains, Doomed
  <2>2. queue # <<>>
    BY <1>1, <2>1
  <2>3. /\ Len(queue') = Len(queue) - 1 /\ Len(queue) \in Nat
        /\ \A n \in 1 .. Len(queue') : queue'[n] = queue[n + 1] /\ n + 1 \in 1 .. Len(queue)
    BY <1>2, <2>2, QueueTail
  <2>4. ASSUME NEW n \in 1 .. Len(queue'), n > left'[c] PROVE queue'[n].from = "eth"
    <3>1. left[c] \in Int /\ n + 1 \in 1 .. Len(queue) /\ queue'[n] = queue[n + 1]
      BY <1>1, <2>3, TaskAssumption
    <3>2. n + 1 > left[c]
      BY <1>1, <2>4, <3>1
    <3> QED
      BY <2>1, <3>1, <3>2
  <2>5. PICK z \in {0, 1} : z = IF callback["eth"] = NoFrame THEN 0 ELSE 1
    OBVIOUS
  <2>6. left'[c] <= Len(queue') /\ Len(queue') - left'[c] + z <= 1
    <3>1. left[c] \in Nat /\ left[c] <= Len(queue) /\ Len(queue) - left[c] + z <= 1
      BY <1>1, <2>1, <2>5, TaskAssumption
    <3> QED
      BY <1>1, <2>3, <3>1
  <2> QED
    BY <2>4, <2>5, <2>6
<1> QED
  BY <1>2, <1>3, <1>4, <1>5, <1>6, <1>7 DEF IInv, Alone

\* The queue is drained, and the session is closed.
LEMMA StopEndKeeps == ASSUME IInv, Alone, NEW c \in Callers, StopEnd(c) PROVE IInv'
<1>1. TypeOK'
  BY Stopped DEF StopEnd, Goto, IInv, TypeOK, capture, options, threads
<1>2. Working' = Working
  BY DEF StopEnd, Working, Alive, threads
<1>3. /\ pc[c] = "drain" /\ pc'[c] = "idle" /\ left[c] = 0
      /\ UNCHANGED <<running, delivering, callback, queue, sem, writePcap, overwritten, coexists>>
  BY DEF StopEnd, Goto, IInv, TypeOK, capture, options
<1>4. Stage(c) /\ Stage(c)'
  BY <1>2, <1>3 DEF IInv, Stage
<1>5. ASSUME ~overwritten' PROVE Sessions(c)'
  <2>1. Sessions(c) /\ ~Working /\ pcap' # "writing"
    BY <1>3, <1>4, <1>5, Stopped DEF StopEnd, IInv, Stage, Sessions
  <2> QED
    BY <1>2, <1>3, <2>1 DEF Sessions
<1>6. ~coexists => Remains(c)'
  BY <1>3 DEF IInv, Remains, Doomed
<1>7. ~coexists /\ callback["wlan"] # NoFrame => "wlan" \in delivering'
  BY <1>3 DEF IInv, Hands
<1> QED
  BY <1>1, <1>3, <1>4, <1>5, <1>6, <1>7, CallKeeps DEF StopEnd, capture

----------------------------------------------------------------------------
(* The results *)

\* Every step preserves the invariant.
LEMMA StepInv == ASSUME Alone PROVE IInv /\ [Next]_vars => IInv'
<1> SUFFICES ASSUME IInv, [Next]_vars PROVE IInv'
  OBVIOUS
<1>1. CASE (\E i \in Interfaces : FrameArrives(i) \/ QueuePacket(i)) \/ Coex
  BY <1>1, FrameArrivesKeeps, QueuePacketKeeps, CoexKeeps
<1>2. CASE \E t \in Tasks : Worker(t)
  BY <1>2, TestRunningKeeps, ReceiveKeeps, PublishKeeps DEF Worker
<1>3. CASE \E c \in Callers : Command(c) \/ StopRadio(c) \/ Call(c)
  BY <1>3, CommandKeeps, StopRadioKeeps, OpenPcapKeeps, CreateKeeps, CreateFailsKeeps, RadioKeeps,
     UndoKeeps, MarkKeeps, JoinKeeps, DrainKeeps, StopEndKeeps DEF Call
<1>4. CASE UNCHANGED vars
  <2>1. /\ UNCHANGED <<running, delivering, callback, arrived, queue, sem, interf, writePcap>>
        /\ UNCHANGED <<overwritten, coexists, pcap, session, work, inHand, published, passed, pc, left>>
    BY <1>4 DEF vars, capture, options, threads, calls
  <2>2. TypeOK'
    BY <2>1 DEF IInv, TypeOK
  <2>3. \A i \in Interfaces : Ordered(i)'
    BY <2>1, PathKept DEF IInv
  <2> QED
    BY <2>1, <2>2, <2>3 DEF IInv, Hands, Stage, Remains, Doomed, Sessions, Working, Alive
<1> QED
  BY <1>1, <1>2, <1>3, <1>4 DEF Next

\* The inductive invariant holds while commands come from one task.
THEOREM Invariance == ASSUME Alone PROVE Spec => []IInv
  BY InitInv, StepInv, PTL DEF Spec

\* A set in which all are the same has at most one member.
LEMMA AtMostOne ==
  ASSUME NEW S, NEW x, S \subseteq {x}
  PROVE  Cardinality(S) <= 1
<1>1. S = {} \/ S = {x}
  OBVIOUS
<1>2. Cardinality({}) = 0 /\ Cardinality({x}) = 1
  BY FS_EmptySet, FS_Singleton
<1> QED
  BY <1>1, <1>2

\* One task publishes, into a session that is open.
THEOREM OneTaskAtATime == ASSUME Alone PROVE Spec => []Inv
<1>1. IInv => Inv
  <2> SUFFICES ASSUME IInv PROVE Inv
    OBVIOUS
  <2>1. OneTask
    <3>1. {t \in Tasks : Alive(t)} \subseteq {session}
      BY DEF IInv
    <3> QED
      BY <3>1, AtMostOne DEF OneTask
  <2>2. CaptureInSession
    <3> SUFFICES ASSUME NEW t \in Tasks, ~overwritten, work[t] = "publish", writePcap
                 PROVE  pcap = "writing"
      BY DEF CaptureInSession
    <3>1. Working
      BY DEF IInv, Alive, Working
    <3>2. PICK c \in Callers : TRUE
      BY TaskAssumption
    <3> QED
      BY <3>1, <3>2 DEF IInv, Sessions
  <2> QED
    BY <2>1, <2>2 DEF Inv, IInv
<1> QED
  BY <1>1, Invariance, PTL

\* Of what was captured before a stop at most one frame is left for the next
\* start, and that one came from Ethernet.
THEOREM NothingLeftOver == ASSUME Alone PROVE Spec => []LeftItemsFreed
<1>1. IInv => LeftItemsFreed
  <2> SUFFICES ASSUME IInv, ~coexists, Quiet, delivering = {}
               PROVE  /\ callback["wlan"] = NoFrame
                      /\ Len(queue) + (IF callback["eth"] = NoFrame THEN 0 ELSE 1) <= 1
                      /\ \A n \in 1 .. Len(queue) : queue[n].from = "eth"
    BY DEF LeftItemsFreed
  <2>1. PICK c \in Callers : pc[c] = "idle" /\ Remains(c)
    BY TaskAssumption DEF Quiet, IInv
  <2>2. Doomed(c) = 0 /\ Len(queue) \in Nat
    BY <2>1 DEF Doomed, IInv, TypeOK
  <2>3. /\ Len(queue) - 0 + (IF callback["eth"] = NoFrame THEN 0 ELSE 1) <= 1
        /\ \A n \in 1 .. Len(queue) : n > 0 => queue[n].from = "eth"
    BY <2>1, <2>2 DEF Remains
  <2>4. callback["wlan"] = NoFrame
    BY DEF IInv, Hands
  <2> QED
    BY <2>2, <2>3, <2>4
<1> QED
  BY <1>1, Invariance, PTL

\* A stop, or a start that failed, has ended the pcap session.
THEOREM SessionsEnd == ASSUME Alone PROVE Spec => []PcapSessionEnds
<1>1. IInv => PcapSessionEnds
  <2> SUFFICES ASSUME IInv, ~overwritten, Quiet PROVE pcap # "writing"
    BY DEF PcapSessionEnds
  <2>1. PICK c \in Callers : pc[c] = "idle" /\ Sessions(c)
    BY TaskAssumption DEF Quiet, IInv
  <2> QED
    BY <2>1 DEF Quiet, Sessions
<1> QED
  BY <1>1, Invariance, PTL

\* What a step does to the frames of an interface: one arrives, or one that has
\* arrived after the last one is published.
LEMMA StepPath ==
  ASSUME IInv, [Next]_vars, NEW j \in Interfaces
  PROVE  \/ arrived'[j] = arrived[j] + 1 /\ UNCHANGED <<published[j], passed[j]>>
         \/ /\ published'[j] \in (published[j] + 1) .. arrived[j]
            /\ passed'[j] = passed[j] + 1 /\ arrived'[j] = arrived[j]
         \/ UNCHANGED <<arrived[j], published[j], passed[j]>>
<1>1. ASSUME NEW i \in Interfaces, FrameArrives(i)
      PROVE  \/ arrived'[j] = arrived[j] + 1 /\ UNCHANGED <<published[j], passed[j]>>
             \/ UNCHANGED <<arrived[j], published[j], passed[j]>>
  <2>1. arrived' = [arrived EXCEPT ![i] = @ + 1] /\ UNCHANGED <<published, passed>>
    BY <1>1 DEF FrameArrives, threads
  <2> QED
    BY <2>1 DEF IInv, TypeOK
<1>2. CASE (\E i \in Interfaces : QueuePacket(i)) \/ Coex
  BY <1>2 DEF QueuePacket, Coex, threads
<1>3. ASSUME NEW t \in Tasks, TestRunning(t) \/ Receive(t)
      PROVE  UNCHANGED <<arrived, published, passed>>
  BY <1>3 DEF TestRunning, Receive, capture
<1>4. ASSUME NEW t \in Tasks, Publish(t)
      PROVE  \/ /\ published'[j] \in (published[j] + 1) .. arrived[j]
                /\ passed'[j] = passed[j] + 1 /\ arrived'[j] = arrived[j]
             \/ UNCHANGED <<arrived[j], published[j], passed[j]>>
  <2>1. /\ published' = [published EXCEPT ![inHand[t].from] = inHand[t].id]
        /\ passed' = [passed EXCEPT ![inHand[t].from] = @ + 1]
        /\ arrived' = arrived /\ work[t] = "publish"
    BY <1>4 DEF Publish, capture
  <2>2. CASE inHand[t].from = j
    <3>1. published[j] < inHand[t].id /\ inHand[t].id <= arrived[j]
      BY <2>1, <2>2 DEF IInv, Ordered
    <3>2. published'[j] = inHand[t].id /\ passed'[j] = passed[j] + 1
      BY <2>1, <2>2 DEF IInv, TypeOK
    <3>3. inHand[t].id \in Nat /\ published[j] \in Nat /\ arrived[j] \in Nat
      BY Numbers DEF IInv
    <3> QED
      BY <2>1, <3>1, <3>2, <3>3
  <2>3. CASE inHand[t].from # j
    BY <2>1, <2>3 DEF IInv, TypeOK
  <2> QED
    BY <2>2, <2>3
<1>5. ASSUME NEW c \in Callers, Command(c) \/ StopRadio(c) \/ Call(c)
      PROVE  UNCHANGED <<arrived, published, passed>>
  <2>1. CASE Command(c) \/ StopRadio(c) \/ OpenPcap(c) \/ Create(c) \/ CreateFails(c) \/ Radio(c)
    BY <2>1 DEF Command, StopRadio, OpenPcap, Create, CreateFails, Radio, capture, threads
  <2>2. CASE Undo(c) \/ Mark(c) \/ Join(c) \/ Drain(c) \/ StopEnd(c)
    BY <2>2 DEF Undo, Mark, Join, Drain, StopEnd, capture, threads
  <2> QED
    BY <1>5, <2>1, <2>2 DEF Call
<1>6. CASE UNCHANGED vars
  BY <1>6 DEF vars, capture, threads
<1> QED
  BY <1>1, <1>2, <1>3, <1>4, <1>5, <1>6 DEF Next, Worker

\* Frames are lost on the path from the drivers, never repeated or reordered.
THEOREM ImplementsLossyFifo == ASSUME Alone PROVE Spec => FifoSpec
<1>1. Init => AirPath!Init /\ WirePath!Init
  BY DEF Init, AirPath!Init, WirePath!Init, Interfaces
<1>2. IInv /\ [Next]_vars => [AirPath!Next]_<<arrived["wlan"], published["wlan"], passed["wlan"]>>
  <2> SUFFICES ASSUME IInv, [Next]_vars
               PROVE  AirPath!Next \/ UNCHANGED <<arrived["wlan"], published["wlan"], passed["wlan"]>>
    OBVIOUS
  <2>1. "wlan" \in Interfaces
    BY DEF Interfaces
  <2> QED
    BY <2>1, StepPath DEF AirPath!Next, AirPath!Offer, AirPath!Pass
<1>3. IInv /\ [Next]_vars => [WirePath!Next]_<<arrived["eth"], published["eth"], passed["eth"]>>
  <2> SUFFICES ASSUME IInv, [Next]_vars
               PROVE  WirePath!Next \/ UNCHANGED <<arrived["eth"], published["eth"], passed["eth"]>>
    OBVIOUS
  <2>1. "eth" \in Interfaces
    BY DEF Interfaces
  <2> QED
    BY <2>1, StepPath DEF WirePath!Next, WirePath!Offer, WirePath!Pass
<1> QED
  BY <1>1, <1>2, <1>3, Invariance, PTL DEF Spec, FifoSpec, AirPath!Spec, WirePath!Spec

----------------------------------------------------------------------------
(***************************************************************************)
(* PART II: the frame reader.                                              *)
(*                                                                         *)
(* For every stream of numbers, cut in every way, and any magic that does  *)
(* not overlap itself: the reader finds what a look at the whole stream    *)
(* finds, and holds no more than an unfinished frame.                      *)
(*                                                                         *)
(* The recursive functions (the turns of feed in WireFormat, Starts in     *)
(* FrameReader) are shown to have values first: a solution is built turn   *)
(* by turn (UpTo), or from the end of the stream to its beginning          *)
(* (DownTo). What a reader has done with a stream is then said without     *)
(* them: the frames it has cut out start at the places q, no other frame   *)
(* starts before place p, and it holds the rest (Parsed); and it stops     *)
(* only where the stream does not tell yet what comes next (Settled). A    *)
(* turn keeps Parsed (TurnReads), the last one brings Settled, and a       *)
(* stream that is Parsed and Settled has the frames at q and no others     *)
(* (SeenAll).                                                              *)
(***************************************************************************)

----------------------------------------------------------------------------
(* Induction over sets of numbers *)

\* A set of natural numbers has a least element: the relation below is <.
LEMMA LeastNumber ==
  ASSUME NEW T \in SUBSET Nat, T # {}
  PROVE  \E n \in T : \A m \in T : n <= m
<1> DEFINE R == {p \in Nat \X Nat : p[1] < p[2]}
<1>1. R = OpToRel(<, Nat)
  BY DEF OpToRel
<1>2. IsWellFoundedOn(R, Nat)
  BY <1>1, NatLessThanWellFounded
<1>3. \A x, y \in Nat : <<y, x>> \notin R => x <= y
  OBVIOUS
<1> HIDE DEF R
<1>4. PICK x \in T : \A y \in T : ~(<<y, x>> \in R)
  BY <1>2, WFMin
<1>5. \A y \in T : x <= y
  BY <1>3, <1>4
<1> QED BY <1>5

\* So what holds of 0 and of the successor of every number that it holds of,
\* holds of all numbers up to n.
LEMMA UpTo ==
  ASSUME NEW n \in Nat, NEW T \in SUBSET Nat, 0 \in T,
         \A k \in 0 .. n - 1 : k \in T => k + 1 \in T
  PROVE  \A k \in 0 .. n : k \in T
<1> DEFINE Bad == {k \in 0 .. n : k \notin T}
<1>1. SUFFICES ASSUME Bad # {} PROVE FALSE
  OBVIOUS
<1>2. Bad \in SUBSET Nat
  OBVIOUS
<1> HIDE DEF Bad
<1>3. PICK k \in Bad : \A l \in Bad : k <= l
  BY <1>1, <1>2, LeastNumber
<1>4. k \in 0 .. n /\ k \notin T /\ k # 0
  BY <1>3 DEF Bad
<1>5. k - 1 \in 0 .. n - 1 /\ k - 1 \in 0 .. n /\ ~(k <= k - 1) /\ k - 1 + 1 = k
  BY <1>4
<1>6. k - 1 \in T
  BY <1>3, <1>5 DEF Bad
<1> QED BY <1>4, <1>5, <1>6

\* And downwards.
LEMMA DownTo ==
  ASSUME NEW n \in Nat, NEW T \in SUBSET Nat, n \in T,
         \A k \in 1 .. n : k \in T => k - 1 \in T
  PROVE  \A k \in 0 .. n : k \in T
<1> DEFINE Up == {k \in Nat : k <= n => n - k \in T}
<1>1. 0 \in Up
  OBVIOUS
<1>2. ASSUME NEW k \in 0 .. n - 1, k \in Up PROVE k + 1 \in Up
  <2>1. n - k \in 1 .. n /\ n - k \in T
    BY <1>2
  <2>2. n - k - 1 \in T
    BY <2>1
  <2> QED BY <2>2
<1> HIDE DEF Up
<1>3. \A k \in 0 .. n : k \in Up
  BY <1>1, <1>2, UpTo DEF Up
<1> QED
  <2>1. SUFFICES ASSUME NEW k \in 0 .. n PROVE k \in T
    OBVIOUS
  <2>2. n - k \in 0 .. n /\ n - (n - k) = k
    OBVIOUS
  <2> QED BY <1>3, <2>2 DEF Up

----------------------------------------------------------------------------
(* The loop of feed *)

\* A turn that is taken only while there is one to take.
Onward(r) == IF r.busy THEN Turn(r) ELSE r

\* The turns that a buffer b and n numbers leave room for.
IsTurns(f, b, n) == f = [k \in 0 .. n |-> IF k = 0 THEN Reader(b, <<>>, TRUE) ELSE Onward(f[k - 1])]

\* The function of feed's turns has a solution: one more turn, n times.
LEMMA TurnsExist == ASSUME NEW b, NEW n \in Nat PROVE \E f : IsTurns(f, b, n)
<1> DEFINE T == {k \in Nat : \E f : IsTurns(f, b, k)}
<1>1. 0 \in T
  <2> DEFINE f == [k \in 0 .. 0 |-> Reader(b, <<>>, TRUE)]
  <2>1. IsTurns(f, b, 0)
    BY DEF IsTurns
  <2> HIDE DEF f
  <2> QED BY <2>1
<1>2. ASSUME NEW k \in 0 .. n - 1, k \in T PROVE k + 1 \in T
  <2>1. PICK f : IsTurns(f, b, k)
    BY <1>2
  <2> DEFINE g == [i \in 0 .. k + 1 |-> IF i = k + 1 THEN Onward(f[k]) ELSE f[i]]
  <2>2. ASSUME NEW i \in 0 .. k + 1
        PROVE  g[i] = IF i = 0 THEN Reader(b, <<>>, TRUE) ELSE Onward(g[i - 1])
    <3>1. \A j \in 0 .. k : f[j] = IF j = 0 THEN Reader(b, <<>>, TRUE) ELSE Onward(f[j - 1])
      BY <2>1 DEF IsTurns
    <3>2. \A j \in 0 .. k : g[j] = f[j]
      OBVIOUS
    <3>3. CASE i = k + 1
      <4>1. g[i] = Onward(f[k]) /\ g[i - 1] = f[k] /\ i # 0
        BY <3>2, <3>3
      <4> QED BY <4>1
    <3>4. CASE i # k + 1
      <4>1. i \in 0 .. k /\ g[i] = f[i] /\ (i # 0 => i - 1 \in 0 .. k /\ g[i - 1] = f[i - 1])
        BY <3>2, <3>4
      <4> QED BY <3>1, <4>1
    <3> QED BY <3>3, <3>4
  <2>3. g = [i \in 0 .. k + 1 |-> g[i]]
    OBVIOUS
  <2> HIDE DEF g
  <2>4. IsTurns(g, b, k + 1)
    BY <2>2, <2>3 DEF IsTurns
  <2> QED BY <2>4
<1>3. T \in SUBSET Nat
  OBVIOUS
<1> HIDE DEF T
<1>4. n \in T
  BY <1>1, <1>2, <1>3, UpTo
<1> QED BY <1>4 DEF T

\* feed is its last turn.
LEMMA FeedTurns ==
  ASSUME NEW b \in Seq(Nat), NEW c \in Seq(Nat)
  PROVE  LET n == Len(b) + Len(c) + 1 IN
         \E f : IsTurns(f, b \o c, n) /\ Feed(b, c) = f[n]
<1> DEFINE n == Len(b) + Len(c) + 1
           f == CHOOSE f : IsTurns(f, b \o c, n)
<1>1. n \in Nat
  <2>1. Len(b) \in Nat /\ Len(c) \in Nat
    BY LenProperties
  <2> QED BY <2>1
<1>2. IsTurns(f, b \o c, n)
  <2> HIDE DEF n
  <2> QED BY <1>1, TurnsExist
<1>3. Feed(b, c) = f[n]
  BY DEF Feed, IsTurns, Onward
<1> QED BY <1>2, <1>3

----------------------------------------------------------------------------
(* Where a reader is in the stream *)

\* Whatever follows, no frame starts at j: it is no magic, or the length behind
\* it is not plausible.
Dead(s, j) ==
    \/ \E k \in 1 .. Len(Magic) : j + k - 1 <= Len(s) /\ s[j + k - 1] # Magic[k]
    \/ j + Len(Magic) <= Len(s) /\ s[j + Len(Magic)] > MaxPayload

\* A whole frame starts at j.
Whole(s, j) ==
    /\ j \in MagicAt(s)
    /\ j + Len(Magic) <= Len(s) /\ s[j + Len(Magic)] <= MaxPayload
    /\ Ends(s, j) <= Len(s) + 1

\* Where to look for the k-th frame if q are the starts of the frames.
From(s, q, k) == IF k = 1 THEN 1 ELSE Ends(s, q[k - 1])

\* q are the starts of the first frames of s.
Chain(s, q) ==
    /\ q \in Seq(Nat)
    /\ \A k \in 1 .. Len(q) :
         /\ From(s, q, k) <= q[k] /\ Whole(s, q[k])
         /\ \A l \in From(s, q, k) .. q[k] - 1 : Dead(s, l)

\* A reader that has taken p numbers of s has seen the frames that start at q,
\* and no other one starts before the rest.
Parsed(s, q, p) ==
    /\ Chain(s, q)
    /\ p \in 0 .. Len(s)
    /\ From(s, q, Len(q) + 1) <= p + 1
    /\ \A l \in From(s, q, Len(q) + 1) .. p : Dead(s, l)

\* The rest is nothing to a reader, or a frame that has not ended.
Settled(s, p) ==
    \/ /\ Len(s) - p < Len(Magic)
       /\ \A j \in MagicAt(s) : j <= p
    \/ /\ p + 1 \in MagicAt(s)
       /\ p + HeaderLen <= Len(s) =>
            s[p + HeaderLen] <= MaxPayload /\ Ends(s, p + 1) > Len(s) + 1

\* The payloads of the frames that start at q.
Cut(s, q) == [k \in 1 .. Len(q) |-> SubSeq(s, q[k] + HeaderLen, Ends(s, q[k]) - 1)]

\* The magic and the header, as numbers.
LEMMA WireTypes ==
    /\ Magic \in Seq(Nat) /\ Len(Magic) \in Nat /\ Len(Magic) >= 1
    /\ \A k \in 1 .. Len(Magic) : Magic[k] \in Nat
    /\ HeaderLen = Len(Magic) + 1 /\ HeaderLen \in Nat /\ MaxPayload \in Nat
<1>1. Magic \in Seq(Nat) /\ Magic # <<>> /\ MaxPayload \in Nat
  BY WireAssumption
<1>2. Len(Magic) \in Nat \ {0}
  BY <1>1, EmptySeq
<1>3. \A k \in 1 .. Len(Magic) : Magic[k] \in Nat
  BY <1>1, ElementOfSeq
<1> QED BY <1>1, <1>2, <1>3 DEF HeaderLen

\* A magic, number by number.
LEMMA MagicMeans ==
  ASSUME NEW s \in Seq(Nat), NEW j
  PROVE  j \in MagicAt(s) <=>
           /\ j \in 1 .. Len(s) - Len(Magic) + 1
           /\ \A k \in 1 .. Len(Magic) : s[j + k - 1] = Magic[k]
<1>1. SUFFICES ASSUME j \in 1 .. Len(s) - Len(Magic) + 1
               PROVE  SubSeq(s, j, j + Len(Magic) - 1) = Magic <=>
                        \A k \in 1 .. Len(Magic) : s[j + k - 1] = Magic[k]
  BY DEF MagicAt
<1> DEFINE e == j + Len(Magic) - 1
           t == SubSeq(s, j, e)
<1>2. Len(s) \in Nat /\ Len(Magic) \in Nat /\ Len(Magic) >= 1 /\ Magic \in Seq(Nat)
  BY WireTypes, LenProperties
<1>3. j \in Int /\ e \in Int /\ j <= e /\ e - j + 1 = Len(Magic)
  BY <1>1, <1>2
<1>4. \A i \in j .. e : s[i] \in Nat
  BY <1>1, <1>2, ElementOfSeq
<1> HIDE DEF e
<1>5. t \in Seq(Nat) /\ Len(t) = Len(Magic) /\ \A i \in 1 .. Len(Magic) : t[i] = s[j + i - 1]
  BY <1>3, <1>4, SubSeqProperties
<1>6. ASSUME \A k \in 1 .. Len(Magic) : s[j + k - 1] = Magic[k] PROVE t = Magic
  <2>1. \A k \in 1 .. Len(t) : t[k] = Magic[k]
    BY <1>5, <1>6
  <2> HIDE DEF t
  <2> QED BY <1>2, <1>5, <2>1, SeqEqual
<1>7. ASSUME t = Magic PROVE \A k \in 1 .. Len(Magic) : s[j + k - 1] = Magic[k]
  BY <1>5, <1>7
<1> QED BY <1>6, <1>7 DEF e

\* What is left of s.
LEMMA DropMeans ==
  ASSUME NEW s \in Seq(Nat), NEW p \in 0 .. Len(s)
  PROVE  /\ Drop(s, p) \in Seq(Nat) /\ Len(Drop(s, p)) = Len(s) - p
         /\ \A i \in 1 .. Len(s) - p : Drop(s, p)[i] = s[p + i]
<1>1. Len(s) \in Nat
  BY LenProperties
<1>2. \A i \in p + 1 .. Len(s) : s[i] \in Nat
  BY <1>1, ElementOfSeq
<1>3. /\ SubSeq(s, p + 1, Len(s)) \in Seq(Nat)
      /\ Len(SubSeq(s, p + 1, Len(s))) = IF p + 1 <= Len(s) THEN Len(s) - (p + 1) + 1 ELSE 0
      /\ \A i \in 1 .. Len(s) - (p + 1) + 1 : SubSeq(s, p + 1, Len(s))[i] = s[p + 1 + i - 1]
  BY <1>1, <1>2, SubSeqProperties
<1>4. \A i \in 1 .. Len(s) - p : i \in 1 .. Len(s) - (p + 1) + 1 /\ p + 1 + i - 1 = p + i
  BY <1>1
<1>5. \A i \in 1 .. Len(s) - p : SubSeq(s, p + 1, Len(s))[i] = s[p + i]
  BY <1>3, <1>4
<1>6. IF p + 1 <= Len(s) THEN Len(s) - (p + 1) + 1 = Len(s) - p ELSE 0 = Len(s) - p
  BY <1>1
<1>7. Len(SubSeq(s, p + 1, Len(s))) = Len(s) - p
  BY <1>3, <1>6
<1> QED BY <1>3, <1>5, <1>7 DEF Drop

\* Dropping twice.
LEMMA DropDrop ==
  ASSUME NEW s \in Seq(Nat), NEW p \in 0 .. Len(s), NEW n \in 0 .. Len(s) - p
  PROVE  Drop(Drop(s, p), n) = Drop(s, p + n)
<1> DEFINE t == Drop(s, p)
           u == Drop(t, n)
           v == Drop(s, p + n)
<1>1. Len(s) \in Nat /\ p + n \in 0 .. Len(s)
  BY LenProperties
<1>2. t \in Seq(Nat) /\ Len(t) = Len(s) - p /\ \A i \in 1 .. Len(s) - p : t[i] = s[p + i]
  BY DropMeans
<1>3. v \in Seq(Nat) /\ Len(v) = Len(s) - (p + n) /\ \A i \in 1 .. Len(s) - (p + n) : v[i] = s[p + n + i]
  BY <1>1, DropMeans
<1> HIDE DEF t, v
<1>4. u \in Seq(Nat) /\ Len(u) = Len(t) - n /\ \A i \in 1 .. Len(t) - n : u[i] = t[n + i]
  BY <1>1, <1>2, DropMeans
<1> HIDE DEF u
<1>5. Len(u) = Len(v)
  BY <1>1, <1>2, <1>3, <1>4
<1>6. ASSUME NEW i \in 1 .. Len(u) PROVE u[i] = v[i]
  <2>1. i \in 1 .. Len(t) - n /\ n + i \in 1 .. Len(s) - p /\ i \in 1 .. Len(s) - (p + n)
        /\ p + (n + i) = p + n + i
    BY <1>1, <1>2, <1>4
  <2>2. u[i] = t[n + i] /\ t[n + i] = s[p + (n + i)] /\ v[i] = s[p + n + i]
    BY <1>2, <1>3, <1>4, <2>1
  <2> QED BY <2>1, <2>2
<1>7. u = v
  BY <1>3, <1>4, <1>5, <1>6, SeqEqual
<1> QED BY <1>7 DEF u, v, t

\* A magic in what is left is one in the stream.
LEMMA MagicInDrop ==
  ASSUME NEW s \in Seq(Nat), NEW p \in 0 .. Len(s), NEW i \in Int
  PROVE  i \in MagicAt(Drop(s, p)) <=> i >= 1 /\ p + i \in MagicAt(s)
<1> DEFINE t == Drop(s, p)
<1>1. t \in Seq(Nat) /\ Len(t) = Len(s) - p /\ \A n \in 1 .. Len(s) - p : t[n] = s[p + n]
  BY DropMeans
<1>2. Len(s) \in Nat /\ Len(Magic) \in Nat /\ Len(Magic) >= 1
  BY WireTypes, LenProperties
<1> HIDE DEF t
<1>3. i \in MagicAt(t) <=>
        i \in 1 .. Len(t) - Len(Magic) + 1 /\ \A k \in 1 .. Len(Magic) : t[i + k - 1] = Magic[k]
  BY <1>1, MagicMeans
<1>4. p + i \in MagicAt(s) <=>
        p + i \in 1 .. Len(s) - Len(Magic) + 1 /\ \A k \in 1 .. Len(Magic) : s[p + i + k - 1] = Magic[k]
  BY MagicMeans
<1>5. i >= 1 => (i \in 1 .. Len(t) - Len(Magic) + 1 <=> p + i \in 1 .. Len(s) - Len(Magic) + 1)
  BY <1>1, <1>2
<1>6. ASSUME i \in 1 .. Len(t) - Len(Magic) + 1, NEW k \in 1 .. Len(Magic)
      PROVE  t[i + k - 1] = s[p + i + k - 1]
  <2>1. i + k - 1 \in 1 .. Len(s) - p /\ p + (i + k - 1) = p + i + k - 1
    BY <1>1, <1>2, <1>6
  <2>2. t[i + k - 1] = s[p + (i + k - 1)]
    BY <1>1, <2>1
  <2> QED BY <2>1, <2>2
<1>7. i \in 1 .. Len(t) - Len(Magic) + 1 => i >= 1
  BY <1>1, <1>2
<1>8. i \in MagicAt(t) <=> i >= 1 /\ p + i \in MagicAt(s)
  BY <1>3, <1>4, <1>5, <1>6, <1>7
<1> QED BY <1>8 DEF t

----------------------------------------------------------------------------
(* The frames of a stream *)

\* Min of FiniteSetsExt is the least number of a set.
LEMMA LeastIsMin ==
  ASSUME NEW T \in SUBSET Nat, T # {}
  PROVE  /\ Min(T) \in T /\ \A m \in T : Min(T) <= m
         /\ \A n \in T : (\A m \in T : n <= m) => Min(T) = n
<1>1. \E n \in T : \A m \in T : n <= m
  BY LeastNumber
<1>2. Min(T) \in T /\ \A m \in T : Min(T) <= m
  BY <1>1 DEF Min
<1>3. ASSUME NEW n \in T, \A m \in T : n <= m PROVE Min(T) = n
  <2>1. Min(T) \in Nat /\ n \in Nat /\ Min(T) <= n /\ n <= Min(T)
    BY <1>2, <1>3
  <2> QED BY <2>1
<1> QED BY <1>2, <1>3

\* Places of magics are places of the stream.
LEMMA MagicsAreNumbers ==
  ASSUME NEW s \in Seq(Nat)
  PROVE  /\ MagicAt(s) \in SUBSET Nat
         /\ \A j \in MagicAt(s) : j \in Nat /\ 1 <= j /\ j + Len(Magic) <= Len(s) + 1
         /\ \A i : Plausible(s, i) \in SUBSET Nat
<1>1. Len(s) \in Nat /\ Len(Magic) \in Nat
  BY LenProperties, WireTypes
<1>2. \A j \in MagicAt(s) : j \in 1 .. Len(s) - Len(Magic) + 1
  BY DEF MagicAt
<1>3. \A j \in MagicAt(s) : j \in Nat /\ 1 <= j /\ j + Len(Magic) <= Len(s) + 1
  BY <1>1, <1>2
<1> QED BY <1>3 DEF Plausible

\* One place of the function that Starts is made of.
Here(f, s, i) ==
    IF Plausible(s, i) = {} THEN <<>>
    ELSE LET j == Min(Plausible(s, i)) IN
         IF j + HeaderLen - 1 > Len(s) THEN <<>>
         ELSE IF Ends(s, j) > Len(s) + 1 THEN <<>>
         ELSE <<j>> \o f[Ends(s, j)]

IsStarts(f, s, lo) == f = [i \in lo .. Len(s) + 1 |-> Here(f, s, i)]

\* It depends only on the places behind.
LEMMA HereLooksAhead ==
  ASSUME NEW s \in Seq(Nat), NEW i \in Nat, NEW f, NEW g,
         \A k \in i + 1 .. Len(s) + 1 : f[k] = g[k]
  PROVE  Here(f, s, i) = Here(g, s, i)
<1> DEFINE j == Min(Plausible(s, i))
<1>1. CASE Plausible(s, i) = {}
  BY <1>1 DEF Here
<1>2. CASE Plausible(s, i) # {} /\ j + HeaderLen - 1 <= Len(s) /\ Ends(s, j) <= Len(s) + 1
  <2>1. j \in Plausible(s, i)
    BY <1>2, LeastIsMin, MagicsAreNumbers
  <2>2. j \in Nat /\ j >= 1 /\ j >= i
    BY <2>1, MagicsAreNumbers DEF Plausible
  <2>3. Len(s) \in Nat /\ HeaderLen \in Nat /\ HeaderLen >= 2
    BY LenProperties, WireTypes
  <2>4. j + HeaderLen - 1 \in 1 .. Len(s)
    BY <1>2, <2>2, <2>3
  <2>5. s[j + HeaderLen - 1] \in Nat
    BY <2>4, ElementOfSeq
  <2>6. Ends(s, j) = j + HeaderLen + s[j + HeaderLen - 1]
    BY DEF Ends
  <2> HIDE DEF j
  <2>7. Ends(s, j) \in i + 1 .. Len(s) + 1
    BY <1>2, <2>2, <2>3, <2>5, <2>6
  <2>8. f[Ends(s, j)] = g[Ends(s, j)]
    BY <2>7
  <2> QED BY <2>8 DEF Here, j
<1>3. CASE Plausible(s, i) # {} /\ j + HeaderLen - 1 > Len(s)
  BY <1>3 DEF Here
<1>4. CASE Plausible(s, i) # {} /\ Ends(s, j) > Len(s) + 1
  BY <1>4 DEF Here
<1>5. Plausible(s, i) # {} /\ ~(j + HeaderLen - 1 > Len(s)) => j + HeaderLen - 1 <= Len(s)
  <2>1. SUFFICES ASSUME Plausible(s, i) # {} PROVE j \in Nat /\ HeaderLen \in Nat /\ Len(s) \in Nat
    OBVIOUS
  <2> QED BY <2>1, LeastIsMin, MagicsAreNumbers, LenProperties, WireTypes
<1>6. Plausible(s, i) # {} /\ j + HeaderLen - 1 <= Len(s) /\ ~(Ends(s, j) > Len(s) + 1)
         => Ends(s, j) <= Len(s) + 1
  <2>1. SUFFICES ASSUME Plausible(s, i) # {}, j + HeaderLen - 1 <= Len(s)
                 PROVE  Ends(s, j) \in Nat /\ Len(s) \in Nat
    OBVIOUS
  <2>2. j \in Nat /\ HeaderLen \in Nat /\ HeaderLen >= 2 /\ Len(s) \in Nat /\ j >= 1
    <3>1. j \in Plausible(s, i)
      BY <2>1, LeastIsMin, MagicsAreNumbers
    <3>2. j \in Nat /\ j >= 1
      BY <3>1, MagicsAreNumbers DEF Plausible
    <3> HIDE DEF j
    <3> QED BY <3>2, LenProperties, WireTypes
  <2>3. j + HeaderLen - 1 \in 1 .. Len(s)
    BY <2>1, <2>2
  <2>4. s[j + HeaderLen - 1] \in Nat
    BY <2>3, ElementOfSeq
  <2> HIDE DEF j
  <2> QED BY <2>2, <2>4 DEF Ends
<1> HIDE DEF j
<1> QED BY <1>1, <1>2, <1>3, <1>4, <1>5, <1>6

\* The function that Starts is made of has a solution: from the end of the stream
\* back to its beginning.
LEMMA StartsExist == ASSUME NEW s \in Seq(Nat) PROVE \E f : IsStarts(f, s, 1)
<1> DEFINE n == Len(s) + 1
           T == {k \in Nat : \E f : IsStarts(f, s, k + 1)}
<1>1. Len(s) \in Nat
  BY LenProperties
<1>2. T \in SUBSET Nat
  OBVIOUS
<1>3. n \in T
  <2> DEFINE f == [i \in n + 1 .. n |-> <<>>]
  <2>1. n + 1 .. n = {}
    BY <1>1
  <2>2. IsStarts(f, s, n + 1)
    BY <2>1 DEF IsStarts
  <2> HIDE DEF f
  <2> QED BY <1>1, <2>2
<1>4. ASSUME NEW k \in 1 .. n, k \in T PROVE k - 1 \in T
  <2>1. PICK f : IsStarts(f, s, k + 1)
    BY <1>4
  <2>2. \A i \in k + 1 .. n : f[i] = Here(f, s, i)
    BY <2>1 DEF IsStarts
  <2> DEFINE g == [i \in k .. n |-> IF i = k THEN Here(f, s, k) ELSE f[i]]
  <2>3. ASSUME NEW i \in k .. n PROVE g[i] = Here(g, s, i)
    <3>1. i \in Nat /\ \A l \in i + 1 .. n : l \in k .. n /\ l # k
      BY <1>1
    <3>2. \A l \in i + 1 .. n : f[l] = g[l]
      BY <3>1
    <3> HIDE DEF g
    <3>3. Here(f, s, i) = Here(g, s, i)
      BY <3>1, <3>2, HereLooksAhead
    <3>4. g[i] = Here(f, s, i)
      <4>1. CASE i = k
        BY <4>1 DEF g
      <4>2. CASE i # k
        <5>1. i \in k + 1 .. n
          BY <1>1, <4>2
        <5>2. g[i] = f[i]
          BY <4>2 DEF g
        <5> QED BY <2>2, <5>1, <5>2
      <4> QED BY <4>1, <4>2
    <3> QED BY <3>3, <3>4
  <2>4. g = [i \in k .. n |-> g[i]]
    OBVIOUS
  <2> HIDE DEF g
  <2>5. g = [i \in k .. n |-> Here(g, s, i)]
    BY <2>3, <2>4
  <2>6. IsStarts(g, s, k)
    BY <2>5 DEF IsStarts
  <2>7. k - 1 \in Nat /\ k - 1 + 1 = k
    BY <1>1
  <2>8. IsStarts(g, s, k - 1 + 1)
    BY <2>6, <2>7
  <2> QED BY <2>7, <2>8
<1>5. n \in Nat
  BY <1>1
<1> HIDE DEF T, n
<1>6. 0 \in T
  BY <1>2, <1>3, <1>4, <1>5, DownTo
<1>7. \E f : IsStarts(f, s, 0 + 1)
  BY <1>6 DEF T
<1> QED BY <1>7

\* Starts is the value of that function at the beginning of the stream.
LEMMA StartsMeans ==
  ASSUME NEW s \in Seq(Nat)
  PROVE  \E f : (\A i \in 1 .. Len(s) + 1 : f[i] = Here(f, s, i)) /\ Starts(s) = f[1]
<1> DEFINE f == CHOOSE f : IsStarts(f, s, 1)
<1>1. IsStarts(f, s, 1)
  BY StartsExist
<1>2. Starts(s) = f[1]
  BY DEF Starts, IsStarts, Here
<1> HIDE DEF f
<1>3. \A i \in 1 .. Len(s) + 1 : f[i] = Here(f, s, i)
  BY <1>1 DEF IsStarts
<1> QED BY <1>2, <1>3

\* Where the stream rules a frame out, Starts does not look for one.
LEMMA DeadIsNoFrame ==
  ASSUME NEW s \in Seq(Nat), NEW j, Dead(s, j), NEW i
  PROVE  j \notin Plausible(s, i)
<1>1. SUFFICES ASSUME j \in MagicAt(s), j + HeaderLen - 1 <= Len(s) => s[j + HeaderLen - 1] <= MaxPayload
               PROVE  FALSE
  BY DEF Plausible
<1>2. j \in Nat /\ \A k \in 1 .. Len(Magic) : s[j + k - 1] = Magic[k]
  BY <1>1, MagicMeans, MagicsAreNumbers
<1>3. Len(s) \in Nat /\ Len(Magic) \in Nat /\ HeaderLen = Len(Magic) + 1 /\ MaxPayload \in Nat
  BY LenProperties, WireTypes
<1>4. j + HeaderLen - 1 = j + Len(Magic)
  BY <1>2, <1>3
<1>5. j + Len(Magic) <= Len(s) => s[j + Len(Magic)] <= MaxPayload
  BY <1>1, <1>4
<1>6. j + Len(Magic) <= Len(s) /\ s[j + Len(Magic)] > MaxPayload
  BY <1>2 DEF Dead
<1>7. s[j + Len(Magic)] \in Nat
  <2>1. 1 <= Len(Magic)
    BY WireTypes
  <2>2. j + Len(Magic) \in 1 .. Len(s)
    BY <1>2, <1>3, <1>6, <2>1
  <2> QED BY <2>2, ElementOfSeq
<1> QED BY <1>3, <1>5, <1>6, <1>7

\* A whole frame lies within the stream.
LEMMA WholeEnds ==
  ASSUME NEW s \in Seq(Nat), NEW j, Whole(s, j)
  PROVE  /\ j \in 1 .. Len(s) /\ j + HeaderLen - 1 \in 1 .. Len(s)
         /\ s[j + HeaderLen - 1] \in Nat /\ s[j + HeaderLen - 1] <= MaxPayload
         /\ Ends(s, j) = j + HeaderLen + s[j + HeaderLen - 1]
         /\ Ends(s, j) \in j + HeaderLen .. Len(s) + 1
<1>1. j \in Nat /\ j >= 1 /\ j + Len(Magic) <= Len(s) /\ s[j + Len(Magic)] <= MaxPayload
  BY MagicsAreNumbers DEF Whole
<1>2. Len(s) \in Nat /\ Len(Magic) \in Nat /\ HeaderLen = Len(Magic) + 1 /\ Len(Magic) >= 1
  BY LenProperties, WireTypes
<1>3. j + HeaderLen - 1 = j + Len(Magic) /\ j + Len(Magic) \in 1 .. Len(s) /\ j \in 1 .. Len(s)
  BY <1>1, <1>2
<1>4. s[j + Len(Magic)] \in Nat
  BY <1>3, ElementOfSeq
<1>5. Ends(s, j) = j + HeaderLen + s[j + HeaderLen - 1] /\ Ends(s, j) <= Len(s) + 1
  BY DEF Ends, Whole
<1>6. Ends(s, j) \in j + HeaderLen .. Len(s) + 1
  <2>1. s[j + HeaderLen - 1] \in Nat
    BY <1>3, <1>4
  <2> QED BY <1>1, <1>2, <1>5, <2>1
<1> QED BY <1>1, <1>3, <1>4, <1>5, <1>6

\* The place to look for the next frame is in the stream, or just behind it.
LEMMA FromRange ==
  ASSUME NEW s \in Seq(Nat), NEW q, Chain(s, q), NEW k \in 1 .. Len(q) + 1
  PROVE  From(s, q, k) \in 1 .. Len(s) + 1
<1>1. Len(s) \in Nat /\ q \in Seq(Nat) /\ Len(q) \in Nat /\ HeaderLen \in Nat
  BY LenProperties, WireTypes DEF Chain
<1>2. CASE k = 1
  BY <1>1, <1>2 DEF From
<1>3. CASE k # 1
  <2>1. k - 1 \in 1 .. Len(q)
    BY <1>1, <1>3
  <2>2. Whole(s, q[k - 1])
    BY <2>1 DEF Chain
  <2>3. q[k - 1] \in 1 .. Len(s) /\ Ends(s, q[k - 1]) \in q[k - 1] + HeaderLen .. Len(s) + 1
    BY <2>2, WholeEnds
  <2>4. Ends(s, q[k - 1]) \in 1 .. Len(s) + 1
    BY <1>1, <2>3
  <2> QED BY <1>3, <2>4 DEF From
<1> QED BY <1>2, <1>3

\* The frame that is found first.
LEMMA FrameHere ==
  ASSUME NEW s \in Seq(Nat), NEW i \in Nat, NEW j \in Nat, NEW f,
         i <= j, Whole(s, j), \A l \in i .. j - 1 : Dead(s, l)
  PROVE  Here(f, s, i) = <<j>> \o f[Ends(s, j)]
<1> DEFINE P == Plausible(s, i)
<1>1. Len(s) \in Nat /\ HeaderLen \in Nat
  BY LenProperties, WireTypes
<1>2. j + HeaderLen - 1 <= Len(s) /\ s[j + HeaderLen - 1] <= MaxPayload /\ Ends(s, j) <= Len(s) + 1
      /\ j \in MagicAt(s) /\ Ends(s, j) \in Nat
  <2>1. j + HeaderLen - 1 \in 1 .. Len(s) /\ s[j + HeaderLen - 1] <= MaxPayload
        /\ Ends(s, j) \in j + HeaderLen .. Len(s) + 1 /\ j \in MagicAt(s)
    BY WholeEnds DEF Whole
  <2> QED BY <1>1, <2>1
<1>3. j \in P
  BY <1>2 DEF Plausible
<1>4. P \in SUBSET Nat
  BY MagicsAreNumbers
<1>5. ASSUME NEW l \in P PROVE j <= l
  <2>1. l \in Nat /\ i <= l
    BY <1>4 DEF Plausible
  <2>2. l \notin i .. j - 1
    BY DeadIsNoFrame
  <2> QED BY <2>1, <2>2
<1>6. Min(P) = j
  <2> HIDE DEF P
  <2> QED BY <1>3, <1>4, <1>5, LeastIsMin
<1>7. ~(j + HeaderLen - 1 > Len(s)) /\ ~(Ends(s, j) > Len(s) + 1)
  BY <1>1, <1>2
<1> QED BY <1>3, <1>6, <1>7 DEF Here

\* No frame is found in a rest that is settled.
LEMMA NothingHere ==
  ASSUME NEW s \in Seq(Nat), NEW i \in Nat, NEW p \in 0 .. Len(s), NEW f,
         i <= p + 1, Settled(s, p), \A l \in i .. p : Dead(s, l)
  PROVE  Here(f, s, i) = <<>>
<1> DEFINE P == Plausible(s, i)
<1>1. Len(s) \in Nat /\ HeaderLen \in Nat /\ Len(Magic) \in Nat
  BY LenProperties, WireTypes
<1>2. P \in SUBSET Nat
  BY MagicsAreNumbers
<1>3. ASSUME NEW l \in P PROVE l \in Nat /\ l \in MagicAt(s) /\ p + 1 <= l
  <2>1. l \in Nat /\ l \in MagicAt(s) /\ i <= l
    BY <1>2 DEF Plausible
  <2>2. l \notin i .. p
    BY DeadIsNoFrame
  <2> QED BY <1>1, <2>1, <2>2
<1>4. CASE \A j \in MagicAt(s) : j <= p
  <2>1. P = {}
    BY <1>1, <1>3, <1>4
  <2> QED BY <2>1 DEF Here
<1>5. CASE /\ p + 1 \in MagicAt(s)
           /\ p + HeaderLen <= Len(s) => s[p + HeaderLen] <= MaxPayload /\ Ends(s, p + 1) > Len(s) + 1
  <2>1. p + 1 + HeaderLen - 1 = p + HeaderLen
    BY <1>1
  <2>2. p + 1 \in P
    BY <1>1, <1>5, <2>1 DEF Plausible
  <2>3. Min(P) = p + 1
    <3> HIDE DEF P
    <3> QED BY <1>2, <1>3, <2>2, LeastIsMin
  <2>4. p + HeaderLen > Len(s) \/ Ends(s, p + 1) > Len(s) + 1
    <3>1. p + HeaderLen \in Int
      BY <1>1
    <3> QED BY <1>1, <1>5, <3>1
  <2>5. (p + 1) + HeaderLen - 1 > Len(s) \/ Ends(s, p + 1) > Len(s) + 1
    BY <2>1, <2>4
  <2> HIDE DEF P
  <2> QED BY <2>3, <2>5 DEF Here, P
<1> QED BY <1>4, <1>5 DEF Settled

\* What a settled reader has seen are the frames of the stream.
LEMMA SeenAll ==
  ASSUME NEW s \in Seq(Nat), NEW q, NEW p, Parsed(s, q, p), Settled(s, p)
  PROVE  Starts(s) = q /\ Payloads(s) = Cut(s, q)
<1> DEFINE n == Len(q)
<1>1. Chain(s, q) /\ q \in Seq(Nat) /\ n \in Nat /\ p \in 0 .. Len(s) /\ Len(s) \in Nat
  BY LenProperties DEF Parsed, Chain
<1>2. PICK f : (\A i \in 1 .. Len(s) + 1 : f[i] = Here(f, s, i)) /\ Starts(s) = f[1]
  BY StartsMeans
<1> DEFINE T == {k \in Nat : k <= n => f[From(s, q, k + 1)] = SubSeq(q, k + 1, n)}
<1>3. T \in SUBSET Nat
  OBVIOUS
<1>4. n \in T
  <2>1. n + 1 \in 1 .. n + 1
    BY <1>1
  <2>2. From(s, q, n + 1) \in 1 .. Len(s) + 1
    BY <1>1, <2>1, FromRange
  <2>3. Here(f, s, From(s, q, n + 1)) = <<>>
    <3>1. From(s, q, n + 1) \in Nat
      BY <1>1, <2>2
    <3>2. From(s, q, n + 1) <= p + 1 /\ \A l \in From(s, q, n + 1) .. p : Dead(s, l)
      BY DEF Parsed
    <3> QED BY <1>1, <3>1, <3>2, NothingHere
  <2>4. SubSeq(q, n + 1, n) = <<>>
    BY <1>1, SubSeqEmpty
  <2>5. f[From(s, q, n + 1)] = SubSeq(q, n + 1, n)
    BY <1>2, <2>2, <2>3, <2>4
  <2> QED BY <1>1, <2>5
<1>5. ASSUME NEW k \in 1 .. n, k \in T PROVE k - 1 \in T
  <2> DEFINE i == From(s, q, k)
             j == q[k]
  <2>1. f[From(s, q, k + 1)] = SubSeq(q, k + 1, n)
    BY <1>1, <1>5
  <2>2. From(s, q, k + 1) = Ends(s, j)
    <3>1. k + 1 # 1 /\ k + 1 - 1 = k
      BY <1>1
    <3> QED BY <3>1 DEF From
  <2>3. i <= j /\ Whole(s, j) /\ \A l \in i .. j - 1 : Dead(s, l)
    BY <1>1 DEF Chain
  <2>4. i \in 1 .. Len(s) + 1
    BY <1>1, FromRange
  <2>5. j \in Nat
    BY <1>1, ElementOfSeq
  <2>6. i \in Nat
    BY <1>1, <2>4
  <2> HIDE DEF i, j
  <2>7. Here(f, s, i) = <<j>> \o f[Ends(s, j)]
    BY <2>3, <2>5, <2>6, FrameHere
  <2>8. f[i] = <<j>> \o SubSeq(q, k + 1, n)
    BY <1>2, <2>1, <2>2, <2>4, <2>7
  <2>9. SubSeq(q, k, n) = <<q[k]>> \o SubSeq(q, k + 1, n)
    <3>1. k \in 1 .. Len(q) /\ n \in k .. Len(q)
      BY <1>1
    <3> QED BY <1>1, <3>1, SubSeqRecursiveFirst
  <2>10. f[i] = SubSeq(q, k, n)
    BY <2>8, <2>9 DEF j
  <2>11. k - 1 \in Nat /\ k - 1 + 1 = k
    BY <1>1
  <2> QED BY <2>10, <2>11 DEF i
<1>6. \A k \in 0 .. n : k \in T
  <2> HIDE DEF T, n
  <2> QED BY <1>1, <1>3, <1>4, <1>5, DownTo
<1>7. f[From(s, q, 0 + 1)] = SubSeq(q, 0 + 1, n)
  BY <1>1, <1>6
<1>8. From(s, q, 0 + 1) = 1 /\ SubSeq(q, 0 + 1, n) = q
  BY <1>1, SubSeqFull DEF From
<1>9. Starts(s) = q
  BY <1>2, <1>7, <1>8
<1> QED BY <1>9 DEF Payloads, Cut

----------------------------------------------------------------------------
(* One turn *)

\* A reader that holds what is left of s behind p has seen the frames at q;
\* with those of earlier calls they are in before.
Reads(s, q, p, before, r) ==
    /\ Parsed(s, q, p)
    /\ r.buf = Drop(s, p)
    /\ before \o r.frames = Cut(s, q)
    /\ r.frames \in Seq(Seq(Nat))
    /\ ~r.busy => Settled(s, p)

\* The fields of a reader.
LEMMA ReaderFields ==
  \A b, f, u : Reader(b, f, u).buf = b /\ Reader(b, f, u).frames = f /\ Reader(b, f, u).busy = u
BY DEF Reader

\* More of the stream has been taken, and no frame.
LEMMA SkipReads ==
  ASSUME NEW s \in Seq(Nat), NEW q, NEW p, NEW before, NEW r, Reads(s, q, p, before, r),
         NEW p2 \in p .. Len(s), \A l \in p + 1 .. p2 : Dead(s, l),
         NEW u \in BOOLEAN, ~u => Settled(s, p2)
  PROVE  Reads(s, q, p2, before, Reader(Drop(s, p2), r.frames, u))
<1>1. Parsed(s, q, p) /\ Chain(s, q) /\ p \in 0 .. Len(s) /\ Len(s) \in Nat
  BY LenProperties DEF Reads, Parsed
<1>2. From(s, q, Len(q) + 1) \in Int
  <2>1. Len(q) \in Nat
    BY <1>1, LenProperties DEF Chain
  <2>2. Len(q) + 1 \in 1 .. Len(q) + 1
    BY <2>1
  <2>3. From(s, q, Len(q) + 1) \in 1 .. Len(s) + 1
    BY <1>1, <2>2, FromRange
  <2> QED BY <2>3
<1>3. Parsed(s, q, p2)
  <2>1. From(s, q, Len(q) + 1) <= p + 1 /\ \A l \in From(s, q, Len(q) + 1) .. p : Dead(s, l)
    BY <1>1 DEF Parsed
  <2>2. p2 \in 0 .. Len(s) /\ From(s, q, Len(q) + 1) <= p2 + 1
    BY <1>1, <1>2, <2>1
  <2>3. ASSUME NEW l \in From(s, q, Len(q) + 1) .. p2 PROVE Dead(s, l)
    <3>1. l \in From(s, q, Len(q) + 1) .. p \/ l \in p + 1 .. p2
      BY <1>1, <1>2
    <3> QED BY <2>1, <3>1
  <2> QED BY <1>1, <2>2, <2>3 DEF Parsed
<1> DEFINE t == Reader(Drop(s, p2), r.frames, u)
<1>4. t.buf = Drop(s, p2) /\ t.frames = r.frames /\ t.busy = u
  BY ReaderFields
<1> HIDE DEF t
<1>5. before \o t.frames = Cut(s, q) /\ t.frames \in Seq(Seq(Nat))
  BY <1>4 DEF Reads
<1>6. ~t.busy => Settled(s, p2)
  BY <1>4
<1>7. Reads(s, q, p2, before, t)
  BY <1>3, <1>4, <1>5, <1>6 DEF Reads
<1> QED BY <1>7 DEF t

\* The payload of a frame.
LEMMA PayloadSeq ==
  ASSUME NEW s \in Seq(Nat), NEW j, Whole(s, j)
  PROVE  SubSeq(s, j + HeaderLen, Ends(s, j) - 1) \in Seq(Nat)
<1>1. j \in 1 .. Len(s) /\ Ends(s, j) \in j + HeaderLen .. Len(s) + 1
  BY WholeEnds
<1>2. Len(s) \in Nat /\ HeaderLen \in Nat
  BY LenProperties, WireTypes
<1>3. \A i \in j + HeaderLen .. Ends(s, j) - 1 : i \in 1 .. Len(s)
  BY <1>1, <1>2
<1>4. \A i \in j + HeaderLen .. Ends(s, j) - 1 : s[i] \in Nat
  BY <1>3, ElementOfSeq
<1>5. j + HeaderLen \in Int /\ Ends(s, j) - 1 \in Int
  BY <1>1, <1>2
<1> QED BY <1>4, <1>5, SubSeqProperties

\* One more frame is cut out.
LEMMA CutAppend ==
  ASSUME NEW s \in Seq(Nat), NEW q, Chain(s, q), NEW j \in Nat, Whole(s, j)
  PROVE  /\ Cut(s, q) \in Seq(Seq(Nat))
         /\ Cut(s, Append(q, j)) = Append(Cut(s, q), SubSeq(s, j + HeaderLen, Ends(s, j) - 1))
<1> DEFINE n == Len(q)
           P(i) == SubSeq(s, i + HeaderLen, Ends(s, i) - 1)
           a == Append(q, j)
           c == Cut(s, q)
<1>1. q \in Seq(Nat) /\ n \in Nat
  BY LenProperties DEF Chain
<1>2. a \in Seq(Nat) /\ Len(a) = n + 1 /\ (\A i \in 1 .. n : a[i] = q[i]) /\ a[n + 1] = j
  BY <1>1, AppendProperties
<1>3. \A k \in 1 .. n : P(q[k]) \in Seq(Nat)
  BY PayloadSeq DEF Chain
<1>4. c = [k \in 1 .. n |-> P(q[k])]
  BY DEF Cut
<1>5. P(j) \in Seq(Nat)
  BY PayloadSeq
<1>6. Cut(s, a) = [k \in 1 .. n + 1 |-> P(a[k])]
  BY <1>2 DEF Cut
<1> HIDE DEF P, a, n
<1>7. c \in Seq(Seq(Nat)) /\ Len(c) = n
  BY <1>1, <1>3, <1>4
<1>8. \A k \in 1 .. n : c[k] = P(q[k])
  BY <1>4
<1> HIDE DEF c
<1>9. /\ Append(c, P(j)) \in Seq(Seq(Nat)) /\ Len(Append(c, P(j))) = n + 1
      /\ \A k \in 1 .. n : Append(c, P(j))[k] = c[k]
      /\ Append(c, P(j))[n + 1] = P(j)
  BY <1>5, <1>7, AppendProperties
<1> DEFINE d == [k \in 1 .. n + 1 |-> P(a[k])]
           e == Append(c, P(j))
<1>10. ASSUME NEW k \in 1 .. n + 1 PROVE d[k] = e[k] /\ d[k] \in Seq(Nat)
  <2>1. CASE k = n + 1
    <3>1. d[k] = P(j)
      BY <1>2, <2>1
    <3> QED BY <1>5, <1>9, <2>1, <3>1
  <2>2. CASE k # n + 1
    <3>1. k \in 1 .. n
      BY <1>1, <2>2
    <3>2. d[k] = P(q[k]) /\ e[k] = c[k] /\ c[k] = P(q[k])
      BY <1>2, <1>8, <1>9, <3>1
    <3> QED BY <1>3, <3>1, <3>2
  <2> QED BY <2>1, <2>2
<1>11. d \in Seq(Seq(Nat)) /\ Len(d) = n + 1
  BY <1>1, <1>10
<1> HIDE DEF d, e
<1>12. d = e
  BY <1>9, <1>10, <1>11, SeqEqual DEF e
<1> QED BY <1>6, <1>7, <1>12 DEF d, e, c, P, a

\* The next frame is looked for behind the last one.
LEMMA FromNext ==
  ASSUME NEW s, NEW q, NEW k \in Nat
  PROVE  From(s, q, k + 2) = Ends(s, q[k + 1])
<1>1. \A m, l : m # 1 /\ m - 1 = l => From(s, q, m) = Ends(s, q[l])
  BY DEF From
<1>2. k + 2 # 1 /\ (k + 2) - 1 = k + 1
  OBVIOUS
<1> QED BY <1>1, <1>2, Zenon

\* A frame has been taken.
LEMMA FrameReads ==
  ASSUME NEW s \in Seq(Nat), NEW q, NEW p, NEW before \in Seq(Seq(Nat)), NEW r, Reads(s, q, p, before, r),
         NEW j \in Nat, p + 1 <= j, Whole(s, j), \A l \in p + 1 .. j - 1 : Dead(s, l),
         NEW x, x = SubSeq(s, j + HeaderLen, Ends(s, j) - 1)
  PROVE  Reads(s, Append(q, j), Ends(s, j) - 1, before,
               Reader(Drop(s, Ends(s, j) - 1), Append(r.frames, x), TRUE))
<1> DEFINE n == Len(q)
           a == Append(q, j)
           p2 == Ends(s, j) - 1
           t == Reader(Drop(s, p2), Append(r.frames, x), TRUE)
<1>1. /\ Parsed(s, q, p) /\ Chain(s, q) /\ p \in 0 .. Len(s) /\ Len(s) \in Nat /\ HeaderLen \in Nat
      /\ q \in Seq(Nat) /\ n \in Nat
  BY LenProperties, WireTypes DEF Reads, Parsed, Chain
<1>2. a \in Seq(Nat) /\ Len(a) = n + 1 /\ (\A i \in 1 .. n : a[i] = q[i]) /\ a[n + 1] = j
  BY <1>1, AppendProperties
<1>3. p2 \in 0 .. Len(s) /\ p2 + 1 = Ends(s, j) /\ Ends(s, j) \in Nat
  <2>1. Ends(s, j) \in j + HeaderLen .. Len(s) + 1
    BY WholeEnds
  <2> QED BY <1>1, <2>1
<1> HIDE DEF a, n, p2
<1>4. \A k \in 1 .. n + 1 : From(s, a, k) = From(s, q, k)
  <2>1. \A k \in 1 .. n + 1 : k # 1 => k - 1 \in 1 .. n
    BY <1>1
  <2> QED BY <1>2, <2>1 DEF From
<1>5. From(s, a, n + 2) = Ends(s, j)
  <2>1. From(s, a, n + 2) = Ends(s, a[n + 1])
    BY <1>1, FromNext
  <2> QED BY <1>2, <2>1
<1>6. From(s, q, n + 1) <= p + 1 /\ From(s, q, n + 1) \in Int
      /\ \A l \in From(s, q, n + 1) .. p : Dead(s, l)
  <2>1. n + 1 \in 1 .. n + 1
    BY <1>1
  <2>2. From(s, q, n + 1) \in 1 .. Len(s) + 1
    BY <1>1, <2>1, FromRange DEF n
  <2> QED BY <1>1, <2>2 DEF Parsed, n
<1>7. ASSUME NEW k \in 1 .. n + 1
      PROVE  From(s, a, k) <= a[k] /\ Whole(s, a[k]) /\ \A l \in From(s, a, k) .. a[k] - 1 : Dead(s, l)
  <2>1. CASE k = n + 1
    <3>1. From(s, a, k) = From(s, q, n + 1) /\ a[k] = j
      BY <1>2, <1>4, <2>1
    <3>2. From(s, q, n + 1) <= j
      BY <1>1, <1>6
    <3>3. ASSUME NEW l \in From(s, q, n + 1) .. j - 1 PROVE Dead(s, l)
      <4>1. l \in From(s, q, n + 1) .. p \/ l \in p + 1 .. j - 1
        BY <1>1, <1>6
      <4> QED BY <1>6, <4>1
    <3> QED BY <3>1, <3>2, <3>3
  <2>2. CASE k # n + 1
    <3>1. k \in 1 .. n
      BY <1>1, <2>2
    <3>2. From(s, a, k) = From(s, q, k) /\ a[k] = q[k]
      BY <1>2, <1>4, <3>1
    <3>3. From(s, q, k) <= q[k] /\ Whole(s, q[k]) /\ \A l \in From(s, q, k) .. q[k] - 1 : Dead(s, l)
      BY <1>1, <3>1 DEF Chain, n
    <3> QED BY <3>2, <3>3
  <2> QED BY <2>1, <2>2
<1>8. Chain(s, a)
  BY <1>2, <1>7 DEF Chain
<1>9. Parsed(s, a, p2)
  <2>1. Len(a) + 1 = n + 2
    BY <1>1, <1>2
  <2>2. From(s, a, Len(a) + 1) = p2 + 1
    BY <1>3, <1>5, <2>1
  <2>3. p2 + 1 <= p2 + 1 /\ p2 + 1 .. p2 = {}
    BY <1>1, <1>3
  <2> QED BY <1>3, <1>8, <2>2, <2>3 DEF Parsed
<1>10. x \in Seq(Nat)
  BY PayloadSeq
<1>11. r.frames \in Seq(Seq(Nat)) /\ before \o r.frames = Cut(s, q)
  BY DEF Reads
<1>12. Append(r.frames, x) \in Seq(Seq(Nat))
  BY <1>10, <1>11, AppendProperties
<1>13. before \o Append(r.frames, x) = Append(before \o r.frames, x)
  <2> DEFINE S == Seq(Nat)
             g == r.frames
             y == <<x>>
  <2>1. x \in S /\ g \in Seq(S) /\ before \in Seq(S)
    BY <1>10, <1>11
  <2>2. y \in Seq(S)
    BY <2>1
  <2> HIDE DEF S, g
  <2>3. Append(g, x) = g \o y
    BY <2>1, AppendIsConcat
  <2> HIDE DEF y
  <2>4. before \o g \in Seq(S)
    BY <2>1, ConcatProperties
  <2>5. Append(before \o g, x) = (before \o g) \o y
    <3> DEFINE h == before \o g
    <3>1. h \in Seq(S)
      BY <2>4
    <3> HIDE DEF h
    <3>2. Append(h, x) = h \o <<x>>
      BY <2>1, <3>1, AppendIsConcat
    <3> QED BY <3>2 DEF h, y
  <2>6. before \o (g \o y) = (before \o g) \o y
    BY <2>1, <2>2, ConcatAssociative
  <2> QED BY <2>3, <2>5, <2>6 DEF g
<1>14. Cut(s, a) = Append(Cut(s, q), x)
  BY <1>1, CutAppend DEF a
<1>15. t.buf = Drop(s, p2) /\ t.frames = Append(r.frames, x) /\ t.busy = TRUE
  BY DEF Reader
<1> HIDE DEF t
<1>16. Reads(s, a, p2, before, t)
  BY <1>9, <1>11, <1>12, <1>13, <1>14, <1>15 DEF Reads
<1> QED BY <1>16 DEF t, a, p2

\* How much goes of a buffer without a magic.
LEMMA MaxOfZero ==
  ASSUME NEW d \in Int
  PROVE  Max({0, d}) = IF d > 0 THEN d ELSE 0
<1>1. \E x \in {0, d} : \A y \in {0, d} : x >= y
  <2>1. CASE d > 0
    BY <2>1
  <2>2. CASE ~(d > 0)
    BY <2>2
  <2> QED BY <2>1, <2>2
<1>2. Max({0, d}) \in {0, d} /\ \A y \in {0, d} : Max({0, d}) >= y
  BY <1>1 DEF Max
<1> QED BY <1>2

\* Where there is room for a magic and there is none, no frame starts.
LEMMA NoMagicIsDead ==
  ASSUME NEW s \in Seq(Nat), NEW l \in Nat, l >= 1, l + Len(Magic) <= Len(s) + 1, l \notin MagicAt(s)
  PROVE  Dead(s, l)
<1>1. Len(s) \in Nat /\ Len(Magic) \in Nat
  BY LenProperties, WireTypes
<1>2. l \in 1 .. Len(s) - Len(Magic) + 1
  BY <1>1
<1>3. PICK k \in 1 .. Len(Magic) : s[l + k - 1] # Magic[k]
  BY <1>2, MagicMeans
<1>4. l + k - 1 <= Len(s)
  BY <1>1
<1> QED BY <1>3, <1>4 DEF Dead

\* A piece of the rest is a piece of the stream.
LEMMA SubSeqDrop ==
  ASSUME NEW s \in Seq(Nat), NEW p \in 0 .. Len(s), NEW m \in Nat, NEW e \in Int,
         1 <= m, m <= e + 1, e <= Len(s) - p
  PROVE  SubSeq(Drop(s, p), m, e) = SubSeq(s, p + m, p + e)
<1> DEFINE t == Drop(s, p)
           u == SubSeq(t, m, e)
           v == SubSeq(s, p + m, p + e)
           n == e - m + 1
<1>1. Len(s) \in Nat /\ n \in Nat
  BY LenProperties
<1>2. t \in Seq(Nat) /\ Len(t) = Len(s) - p /\ \A i \in 1 .. Len(s) - p : t[i] = s[p + i]
  BY DropMeans
<1>3. \A i \in m .. e : i \in 1 .. Len(t)
  BY <1>1, <1>2
<1> HIDE DEF t
<1>4. \A i \in m .. e : t[i] \in Nat
  BY <1>2, <1>3, ElementOfSeq
<1>5. u \in Seq(Nat) /\ Len(u) = (IF m <= e THEN n ELSE 0) /\ \A i \in 1 .. n : u[i] = t[m + i - 1]
  BY <1>4, SubSeqProperties
<1>6. p + m \in Int /\ p + e \in Int /\ (\A i \in p + m .. p + e : i \in 1 .. Len(s))
      /\ (p + e) - (p + m) + 1 = n /\ (p + m <= p + e <=> m <= e)
  BY <1>1
<1> DEFINE pm == p + m
           pe == p + e
<1>7. \A i \in pm .. pe : s[i] \in Nat
  BY <1>6, ElementOfSeq
<1>8. pm \in Int /\ pe \in Int /\ pe - pm + 1 = n /\ (pm <= pe <=> m <= e)
  BY <1>6
<1> HIDE DEF n, u, pm, pe
<1>9. /\ SubSeq(s, pm, pe) \in Seq(Nat)
      /\ Len(SubSeq(s, pm, pe)) = IF pm <= pe THEN n ELSE 0
      /\ \A i \in 1 .. n : SubSeq(s, pm, pe)[i] = s[pm + i - 1]
  BY <1>7, <1>8, SubSeqProperties
<1>10. v \in Seq(Nat) /\ Len(v) = (IF m <= e THEN n ELSE 0) /\ \A i \in 1 .. n : v[i] = s[p + m + i - 1]
  BY <1>8, <1>9 DEF pm, pe
<1> HIDE DEF v
<1>11. Len(u) = Len(v) /\ \A i \in 1 .. Len(u) : i \in 1 .. n
  BY <1>1, <1>5, <1>10
<1>12. ASSUME NEW i \in 1 .. Len(u) PROVE u[i] = v[i]
  <2>1. i \in 1 .. n
    BY <1>11
  <2>2. m + i - 1 \in 1 .. Len(s) - p /\ p + (m + i - 1) = p + m + i - 1
    BY <1>1, <2>1 DEF n
  <2>3. t[m + i - 1] = s[p + (m + i - 1)]
    BY <1>2, <2>2
  <2> QED BY <1>5, <1>10, <2>1, <2>2, <2>3
<1>13. u = v
  BY <1>5, <1>10, <1>11, <1>12, SeqEqual
<1> QED BY <1>13 DEF u, v, t

\* A turn takes more of the stream, or is the last one; then the rest is
\* settled.
LEMMA TurnReads ==
  ASSUME NEW s \in Seq(Nat), NEW q, NEW p, NEW before \in Seq(Seq(Nat)), NEW r,
         Reads(s, q, p, before, r)
  PROVE  \E q2, p2 : Reads(s, q2, p2, before, Turn(r)) /\ (Turn(r).busy => p < p2)
<1> DEFINE b == Drop(s, p)
           L == Len(Magic)
           n == Len(s)
<1>1. p \in 0 .. n /\ r.buf = b
  BY DEF Reads, Parsed
<1>2. n \in Nat /\ L \in Nat /\ L >= 1 /\ HeaderLen = L + 1 /\ MaxPayload \in Nat
  BY LenProperties, WireTypes
<1>3. b \in Seq(Nat) /\ Len(b) = n - p
  BY <1>1, DropMeans
<1> HIDE DEF b, n, L
<1>4. ASSUME NEW l \in Int, p < l PROVE l \in MagicAt(s) <=> l - p \in MagicAt(b)
  <2>1. l - p \in Int /\ l - p >= 1 /\ p + (l - p) = l
    BY <1>1, <1>4
  <2>2. l - p \in MagicAt(b) <=> l - p >= 1 /\ p + (l - p) \in MagicAt(s)
    BY <1>1, <2>1, MagicInDrop DEF b, n
  <2> QED BY <2>1, <2>2
<1>5. CASE MagicAt(b) = {}
  <2> DEFINE m == Max({0, Len(b) - L + 1})
             p2 == p + m
  <2>1. m = IF n - p - L + 1 > 0 THEN n - p - L + 1 ELSE 0
    <3>1. Len(b) - L + 1 \in Int /\ Len(b) - L + 1 = n - p - L + 1
      BY <1>1, <1>2, <1>3
    <3> QED BY <3>1, MaxOfZero
  <2> HIDE DEF m
  <2>2. m \in 0 .. n - p /\ p2 \in p .. n
    BY <1>1, <1>2, <2>1
  <2>3. Drop(b, m) = Drop(s, p2)
    BY <1>1, <2>2, DropDrop DEF b, n
  <2>4. Turn(r) = Reader(Drop(s, p2), r.frames, FALSE)
    BY <1>1, <1>5, <2>3 DEF Turn, m, L
  <2>5. ASSUME NEW l \in p + 1 .. p2 PROVE Dead(s, l)
    <3>1. l \in Nat /\ l >= 1 /\ p < l /\ l + L <= n + 1
      BY <1>1, <1>2, <2>1
    <3>2. l \notin MagicAt(s)
      BY <1>4, <1>5, <3>1
    <3> QED BY <3>1, <3>2, NoMagicIsDead DEF n, L
  <2>6. Settled(s, p2)
    <3>1. n - p2 < L
      BY <1>1, <1>2, <2>1
    <3>2. ASSUME NEW j \in MagicAt(s) PROVE j <= p2
      <4>1. j \in Nat
        BY MagicsAreNumbers
      <4>2. ~(p < j)
        BY <1>4, <1>5, <4>1
      <4> QED BY <1>1, <2>2, <4>1, <4>2
    <3> QED BY <3>1, <3>2 DEF Settled, n, L
  <2> HIDE DEF p2
  <2>7. Reads(s, q, p2, before, Reader(Drop(s, p2), r.frames, FALSE))
    BY <2>2, <2>5, <2>6, SkipReads DEF n
  <2>8. ~Turn(r).busy
    BY <2>4 DEF Reader
  <2> QED BY <2>4, <2>7, <2>8
<1>6. CASE MagicAt(b) # {}
  <2> DEFINE i == Min(MagicAt(b))
             j == p + i
             from == Drop(b, i - 1)
             size == from[HeaderLen]
  <2>1. i \in MagicAt(b) /\ \A l \in MagicAt(b) : i <= l
    BY <1>3, <1>6, LeastIsMin, MagicsAreNumbers
  <2>2. i \in Nat /\ 1 <= i /\ i + L <= n - p + 1
    BY <1>3, <2>1, MagicsAreNumbers DEF L
  <2> HIDE DEF i
  <2>3. j \in Nat /\ p + 1 <= j /\ j + L <= n + 1 /\ i - 1 \in 0 .. n - p /\ p + (i - 1) = j - 1 /\ j - 1 \in 0 .. n
    BY <1>1, <1>2, <2>2
  <2>4. j \in MagicAt(s)
    BY <1>1, <2>1, <2>2, MagicInDrop DEF b, n
  <2>5. from = Drop(s, j - 1)
    <3>1. Drop(b, i - 1) = Drop(s, p + (i - 1))
      BY <1>1, <2>3, DropDrop DEF b, n
    <3> QED BY <2>3, <3>1
  <2>6. ASSUME NEW l \in p + 1 .. j - 1 PROVE Dead(s, l)
    <3>1. l \in Nat /\ l >= 1 /\ p < l /\ l + L <= n + 1 /\ ~(i <= l - p)
      BY <1>1, <1>2, <2>2, <2>3
    <3>2. l \notin MagicAt(s)
      BY <1>4, <2>1, <3>1
    <3> QED BY <3>1, <3>2, NoMagicIsDead DEF n, L
  <2> HIDE DEF from, j
  <2>7. from \in Seq(Nat) /\ Len(from) = n - (j - 1) /\ \A k \in 1 .. n - (j - 1) : from[k] = s[j - 1 + k]
    BY <2>3, <2>5, DropMeans DEF n
  <2>8. Len(from) \in Nat /\ (Len(from) < HeaderLen \/ HeaderLen <= Len(from))
    BY <1>2, <2>7, LenProperties
  <2>9. /\ Len(from) < HeaderLen => Turn(r) = Reader(from, r.frames, FALSE)
        /\ ~(Len(from) < HeaderLen) /\ size > MaxPayload
             => Turn(r) = Reader(Drop(from, L), r.frames, TRUE)
        /\ ~(Len(from) < HeaderLen) /\ ~(size > MaxPayload) /\ Len(from) < HeaderLen + size
             => Turn(r) = Reader(from, r.frames, FALSE)
        /\ ~(Len(from) < HeaderLen) /\ ~(size > MaxPayload) /\ ~(Len(from) < HeaderLen + size)
             => Turn(r) = Reader(Drop(from, HeaderLen + size),
                                 Append(r.frames, SubSeq(from, HeaderLen + 1, HeaderLen + size)), TRUE)
    BY <1>1, <1>6 DEF Turn, from, i, L
  <2> HIDE DEF size
  <2>10. j - 1 \in p .. n /\ j - 1 + 1 = j
    BY <1>1, <2>3
  <2> DEFINE p0 == j - 1
  <2>11. ASSUME Turn(r) = Reader(from, r.frames, FALSE), Settled(s, p0)
         PROVE  \E q2, p2 : Reads(s, q2, p2, before, Turn(r)) /\ (Turn(r).busy => p < p2)
    <3>1. p0 \in p .. n /\ \A l \in p + 1 .. p0 : Dead(s, l)
      BY <2>6, <2>10
    <3>2. Turn(r) = Reader(Drop(s, p0), r.frames, FALSE)
      BY <2>5, <2>11
    <3> HIDE DEF p0
    <3>3. Reads(s, q, p0, before, Reader(Drop(s, p0), r.frames, FALSE))
      BY <2>11, <3>1, SkipReads DEF n
    <3>4. ~Turn(r).busy
      BY <3>2 DEF Reader
    <3> QED BY <3>2, <3>3, <3>4
  <2>12. CASE Len(from) < HeaderLen
    <3>1. ~(p0 + HeaderLen <= n)
      BY <1>2, <2>3, <2>7, <2>12
    <3>2. Settled(s, p0)
      BY <2>4, <2>10, <3>1 DEF Settled, n
    <3> QED BY <2>9, <2>11, <2>12, <3>2
  <2>13. CASE HeaderLen <= Len(from)
    <3>1. HeaderLen \in 1 .. n - (j - 1) /\ j - 1 + HeaderLen = j + L /\ j + L \in 1 .. n
          /\ j + HeaderLen - 1 = j + L
      BY <1>2, <2>3, <2>7, <2>13
    <3>2. size = s[j + L]
      <4>1. from[HeaderLen] = s[j - 1 + HeaderLen]
        BY <2>7, <3>1
      <4> QED BY <3>1, <4>1 DEF size
    <3>3. size \in Nat
      BY <3>1, <3>2, ElementOfSeq DEF n
    <3>4. Ends(s, j) = j + HeaderLen + size
      BY <3>1, <3>2 DEF Ends
    <3>8. ~(Len(from) < HeaderLen)
      BY <1>2, <2>8, <2>13
    <3>5. CASE size > MaxPayload
      <4> DEFINE p2 == j - 1 + L
      <4>1. p2 \in p .. n /\ p < p2 /\ L \in 0 .. n - (j - 1)
        BY <1>1, <1>2, <2>3, <3>1
      <4>2. Drop(from, L) = Drop(s, p2)
        BY <2>3, <2>5, <4>1, DropDrop DEF n
      <4>3. ASSUME NEW l \in p + 1 .. p2 PROVE Dead(s, l)
        <5>1. CASE l < j
          <6>1. l \in p + 1 .. j - 1
            BY <1>1, <2>3, <4>1, <5>1
          <6> QED BY <2>6, <6>1
        <5>2. CASE l = j
          <6>1. j + L <= n /\ s[j + L] > MaxPayload
            BY <3>1, <3>2, <3>5
          <6> QED BY <5>2, <6>1 DEF Dead, n, L
        <5>3. CASE l > j
          <6> DEFINE d == l - j + 1
          <6>1. d \in 2 .. L /\ d \in 1 .. L /\ j + d - 1 = l /\ l <= n /\ l + 1 - 1 = l /\ 1 \in 1 .. L
            BY <1>1, <1>2, <2>3, <4>1, <5>3
          <6> HIDE DEF d
          <6>2. s[j + d - 1] = Magic[d]
            BY <2>4, <6>1, MagicMeans DEF L
          <6>3. Magic[d] # Magic[1]
            BY <6>1, WireAssumption DEF L
          <6>4. s[l] # Magic[1] /\ l <= Len(s)
            BY <6>1, <6>2, <6>3, Zenon DEF n
          <6>5. s[l + 1 - 1] # Magic[1] /\ l + 1 - 1 <= Len(s)
            BY <6>1, <6>4, Zenon
          <6> QED BY <6>1, <6>5 DEF Dead, L
        <5> QED BY <1>1, <2>3, <4>1, <5>1, <5>2, <5>3
      <4>4. Turn(r) = Reader(Drop(s, p2), r.frames, TRUE)
        BY <2>9, <3>5, <3>8, <4>2
      <4> HIDE DEF p2
      <4>5. Reads(s, q, p2, before, Reader(Drop(s, p2), r.frames, TRUE))
        BY <4>1, <4>3, SkipReads DEF n
      <4> QED BY <4>1, <4>4, <4>5
    <3>6. CASE ~(size > MaxPayload) /\ Len(from) < HeaderLen + size
      <4>1. p0 + HeaderLen = j + L /\ j + HeaderLen + size > n + 1 /\ size <= MaxPayload
        BY <1>2, <2>3, <2>7, <3>1, <3>3, <3>6
      <4>2. p0 + HeaderLen = j + L /\ Ends(s, j) > n + 1 /\ s[j + L] <= MaxPayload
        BY <3>2, <3>4, <4>1, Zenon
      <4>3. Settled(s, p0)
        BY <2>4, <2>10, <4>2 DEF Settled, n
      <4>4. Turn(r) = Reader(from, r.frames, FALSE)
        BY <2>9, <3>6, <3>8
      <4> QED BY <2>11, <4>3, <4>4
    <3>7. CASE ~(size > MaxPayload) /\ ~(Len(from) < HeaderLen + size)
      <4> DEFINE x == SubSeq(from, HeaderLen + 1, HeaderLen + size)
                 p2 == Ends(s, j) - 1
                 w == HeaderLen + size
      <4>1. w \in 0 .. n - (j - 1) /\ (j - 1) + w = p2 /\ p < p2 /\ Ends(s, j) <= n + 1
            /\ w \in Int /\ HeaderLen + 1 \in Nat /\ 1 <= HeaderLen + 1 /\ HeaderLen + 1 <= w + 1 /\ w <= n - (j - 1)
            /\ (j - 1) + (HeaderLen + 1) = j + HeaderLen
        BY <1>1, <1>2, <2>3, <2>7, <3>3, <3>4, <3>7
      <4>2. Whole(s, j)
        BY <1>2, <2>4, <3>1, <3>2, <3>3, <3>7, <4>1 DEF Whole, n, L
      <4> HIDE DEF w
      <4>3. Drop(from, w) = Drop(s, p2)
        BY <2>3, <2>5, <4>1, DropDrop DEF n
      <4>4. SubSeq(from, HeaderLen + 1, w) = SubSeq(s, (j - 1) + (HeaderLen + 1), (j - 1) + w)
        BY <2>3, <2>5, <4>1, SubSeqDrop DEF n
      <4>5. x = SubSeq(s, j + HeaderLen, p2)
        BY <4>1, <4>4 DEF w
      <4>6. Turn(r) = Reader(Drop(from, w), Append(r.frames, x), TRUE)
        BY <2>9, <3>7, <3>8 DEF w
      <4> HIDE DEF x
      <4>7. Reads(s, Append(q, j), p2, before, Reader(Drop(s, p2), Append(r.frames, x), TRUE))
        BY <2>3, <2>6, <4>2, <4>5, FrameReads
      <4> QED BY <4>1, <4>3, <4>6, <4>7
    <3> QED BY <3>5, <3>6, <3>7
  <2> QED BY <2>8, <2>12, <2>13
<1> QED BY <1>5, <1>6

\* The turns of one call end with a rest that is settled.
LEMMA FeedReads ==
  ASSUME NEW s \in Seq(Nat), NEW q, NEW p, NEW before \in Seq(Seq(Nat)),
         NEW b \in Seq(Nat), NEW c \in Seq(Nat),
         Parsed(s, q, p), b \o c = Drop(s, p), before = Cut(s, q)
  PROVE  \E q2, p2 : /\ Reads(s, q2, p2, before, Feed(b, c))
                     /\ Settled(s, p2)
<1> DEFINE n == Len(b) + Len(c) + 1
<1>1. PICK f : IsTurns(f, b \o c, n) /\ Feed(b, c) = f[n]
  BY FeedTurns
<1>2. Len(s) \in Nat /\ Len(b) \in Nat /\ Len(c) \in Nat /\ n \in Nat /\ p \in 0 .. Len(s)
  BY LenProperties DEF Parsed
<1>3. p + n = Len(s) + 1
  <2>1. Len(b \o c) = Len(b) + Len(c)
    BY ConcatProperties
  <2>2. Len(Drop(s, p)) = Len(s) - p
    BY <1>2, DropMeans
  <2> QED BY <1>2, <2>1, <2>2
<1> HIDE DEF n
<1>4. \A k \in 0 .. n : f[k] = IF k = 0 THEN Reader(b \o c, <<>>, TRUE) ELSE Onward(f[k - 1])
  BY <1>1 DEF IsTurns
<1> DEFINE T == {k \in Nat : k <= n =>
                    \E q2, p2 : Reads(s, q2, p2, before, f[k]) /\ (f[k].busy => p + k <= p2)}
<1>5. 0 \in T
  <2> DEFINE r == Reader(b \o c, <<>>, TRUE)
  <2>1. f[0] = r
    <3>1. 0 \in 0 .. n
      BY <1>2
    <3> QED BY <1>4, <3>1, Zenon
  <2>2. r.buf = Drop(s, p) /\ r.frames = <<>> /\ r.busy = TRUE
    BY DEF Reader
  <2> HIDE DEF r
  <2>3. <<>> \in Seq(Seq(Nat)) /\ before \o <<>> = before
    BY ConcatEmptySeq
  <2>4. Reads(s, q, p, before, r)
    BY <2>2, <2>3 DEF Reads
  <2>5. p + 0 <= p
    BY <1>2
  <2> QED BY <2>1, <2>4, <2>5
<1>6. ASSUME NEW k \in 0 .. n - 1, k \in T PROVE k + 1 \in T
  <2>1. k \in Nat /\ k <= n /\ k + 1 \in 0 .. n /\ k + 1 # 0 /\ (k + 1) - 1 = k /\ k + 1 \in Nat
    BY <1>2
  <2>2. PICK q2, p2 : Reads(s, q2, p2, before, f[k]) /\ (f[k].busy => p + k <= p2)
    BY <1>6, <2>1
  <2>3. f[k + 1] = Onward(f[k])
    <3>1. \A i \in 0 .. n : \A l : i # 0 /\ i - 1 = l => f[i] = Onward(f[l])
      BY <1>4
    <3> QED BY <2>1, <3>1, Zenon
  <2>4. p2 \in 0 .. Len(s)
    BY <2>2 DEF Reads, Parsed
  <2>5. CASE f[k].busy
    <3>1. f[k + 1] = Turn(f[k])
      BY <2>3, <2>5 DEF Onward
    <3>2. PICK q3, p3 : Reads(s, q3, p3, before, Turn(f[k])) /\ (Turn(f[k]).busy => p2 < p3)
      BY <2>2, TurnReads
    <3>3. p3 \in 0 .. Len(s)
      BY <3>2 DEF Reads, Parsed
    <3>4. p + k <= p2
      BY <2>2, <2>5
    <3>5. p2 < p3 => p + (k + 1) <= p3
      BY <1>2, <2>1, <2>4, <3>3, <3>4
    <3>6. Reads(s, q3, p3, before, f[k + 1]) /\ (f[k + 1].busy => p + (k + 1) <= p3)
      BY <3>1, <3>2, <3>5, Zenon
    <3> QED BY <2>1, <3>6
  <2>6. CASE ~f[k].busy
    <3>1. f[k + 1] = f[k]
      BY <2>3, <2>6 DEF Onward
    <3>2. Reads(s, q2, p2, before, f[k + 1]) /\ ~f[k + 1].busy
      BY <2>2, <2>6, <3>1, Zenon
    <3> QED BY <2>1, <3>2
  <2> QED BY <2>5, <2>6
<1>7. T \in SUBSET Nat
  OBVIOUS
<1> HIDE DEF T
<1>8. n \in T
  <2>1. \A k \in 0 .. n : k \in T
    BY <1>2, <1>5, <1>6, <1>7, UpTo
  <2>2. n \in 0 .. n
    BY <1>2
  <2> QED BY <2>1, <2>2
<1>9. PICK q2, p2 : Reads(s, q2, p2, before, f[n]) /\ (f[n].busy => p + n <= p2)
  <2>1. n <= n
    BY <1>2
  <2> QED BY <1>8, <2>1 DEF T
<1>10. p2 \in 0 .. Len(s)
  BY <1>9 DEF Reads, Parsed
<1>11. ~(p + n <= p2)
  BY <1>2, <1>3, <1>10
<1>12. ~f[n].busy
  BY <1>9, <1>11, Zenon
<1>13. Settled(s, p2)
  BY <1>9, <1>12 DEF Reads
<1>14. Reads(s, q2, p2, before, Feed(b, c))
  BY <1>1, <1>9, Zenon
<1> QED BY <1>13, <1>14

----------------------------------------------------------------------------
(* What has been read stays read when the stream goes on *)

\* A stream that has grown.
LEMMA LongerStream ==
  ASSUME NEW s \in Seq(Nat), NEW c \in Seq(Nat)
  PROVE  /\ s \o c \in Seq(Nat) /\ Len(s) \in Nat /\ Len(c) \in Nat
         /\ Len(s \o c) = Len(s) + Len(c)
         /\ \A i \in 1 .. Len(s) : (s \o c)[i] = s[i]
<1>1. Len(s) \in Nat /\ Len(c) \in Nat
  BY LenProperties
<1>2. /\ s \o c \in Seq(Nat)
      /\ Len(s \o c) = Len(s) + Len(c)
      /\ \A i \in 1 .. Len(s) + Len(c) : (s \o c)[i] = IF i <= Len(s) THEN s[i] ELSE c[i - Len(s)]
  BY ConcatProperties
<1>3. \A i \in 1 .. Len(s) : i \in 1 .. Len(s) + Len(c) /\ i <= Len(s)
  BY <1>1
<1> QED BY <1>1, <1>2, <1>3

\* No later number brings back a place that was ruled out.
LEMMA DeadStays ==
  ASSUME NEW s \in Seq(Nat), NEW c \in Seq(Nat), NEW j \in Nat, 1 <= j, Dead(s, j)
  PROVE  Dead(s \o c, j)
<1> DEFINE u == s \o c
<1>1. /\ Len(s) \in Nat /\ Len(c) \in Nat /\ Len(u) = Len(s) + Len(c)
      /\ \A i \in 1 .. Len(s) : u[i] = s[i]
  BY LongerStream
<1> HIDE DEF u
<1>2. Len(Magic) \in Nat /\ 1 <= Len(Magic)
  BY WireTypes
<1>3. CASE \E k \in 1 .. Len(Magic) : j + k - 1 <= Len(s) /\ s[j + k - 1] # Magic[k]
  <2>1. PICK k \in 1 .. Len(Magic) : j + k - 1 <= Len(s) /\ s[j + k - 1] # Magic[k]
    BY <1>3
  <2>2. j + k - 1 \in 1 .. Len(s) /\ j + k - 1 <= Len(u)
    BY <1>1, <1>2, <2>1
  <2>3. u[j + k - 1] # Magic[k]
    BY <1>1, <2>1, <2>2
  <2>4. Dead(u, j)
    BY <2>2, <2>3 DEF Dead
  <2> QED BY <2>4 DEF u
<1>4. CASE j + Len(Magic) <= Len(s) /\ s[j + Len(Magic)] > MaxPayload
  <2>1. j + Len(Magic) \in 1 .. Len(s) /\ j + Len(Magic) <= Len(u)
    BY <1>1, <1>2, <1>4
  <2>2. u[j + Len(Magic)] = s[j + Len(Magic)]
    BY <1>1, <2>1
  <2>3. Dead(u, j)
    BY <1>4, <2>1, <2>2 DEF Dead
  <2> QED BY <2>3 DEF u
<1> QED BY <1>3, <1>4 DEF Dead

\* A piece of a stream stays where it is.
LEMMA SubSeqStays ==
  ASSUME NEW s \in Seq(Nat), NEW c \in Seq(Nat), NEW m \in Int, NEW e \in Int,
         1 <= m, e <= Len(s)
  PROVE  SubSeq(s \o c, m, e) = SubSeq(s, m, e)
<1> DEFINE u == s \o c
           v == SubSeq(u, m, e)
           w == SubSeq(s, m, e)
<1>1. /\ Len(s) \in Nat /\ \A i \in 1 .. Len(s) : u[i] = s[i]
  BY LongerStream
<1> HIDE DEF u
<1>2. \A i \in m .. e : i \in 1 .. Len(s)
  BY <1>1
<1>3. \A i \in m .. e : s[i] \in Nat /\ u[i] = s[i]
  BY <1>1, <1>2, ElementOfSeq
<1>4. /\ v \in Seq(Nat) /\ Len(v) = (IF m <= e THEN e - m + 1 ELSE 0)
      /\ \A i \in 1 .. e - m + 1 : v[i] = u[m + i - 1]
  <2>1. \A i \in m .. e : u[i] \in Nat
    BY <1>3
  <2> QED BY <2>1, SubSeqProperties
<1>5. /\ w \in Seq(Nat) /\ Len(w) = (IF m <= e THEN e - m + 1 ELSE 0)
      /\ \A i \in 1 .. e - m + 1 : w[i] = s[m + i - 1]
  BY <1>3, SubSeqProperties
<1> HIDE DEF v, w
<1>6. ASSUME NEW i \in 1 .. Len(v) PROVE v[i] = w[i]
  <2>1. i \in 1 .. e - m + 1 /\ m + i - 1 \in m .. e
    BY <1>4
  <2> QED BY <1>3, <1>4, <1>5, <2>1
<1>7. v = w
  BY <1>4, <1>5, <1>6, SeqEqual
<1> QED BY <1>7 DEF v, w, u

\* A whole frame stays one.
LEMMA WholeStays ==
  ASSUME NEW s \in Seq(Nat), NEW c \in Seq(Nat), NEW j, Whole(s, j)
  PROVE  Whole(s \o c, j) /\ Ends(s \o c, j) = Ends(s, j)
<1> DEFINE u == s \o c
<1>1. /\ u \in Seq(Nat) /\ Len(s) \in Nat /\ Len(c) \in Nat /\ Len(u) = Len(s) + Len(c)
      /\ \A i \in 1 .. Len(s) : u[i] = s[i]
  BY LongerStream
<1>2. Len(Magic) \in Nat /\ 1 <= Len(Magic) /\ HeaderLen = Len(Magic) + 1
  BY WireTypes
<1>3. /\ j \in 1 .. Len(s) /\ j + HeaderLen - 1 \in 1 .. Len(s)
      /\ Ends(s, j) = j + HeaderLen + s[j + HeaderLen - 1]
      /\ Ends(s, j) \in j + HeaderLen .. Len(s) + 1
  BY WholeEnds
<1>4. j + HeaderLen - 1 = j + Len(Magic)
  BY <1>2, <1>3
<1> HIDE DEF u
<1>5. u[j + HeaderLen - 1] = s[j + HeaderLen - 1]
  BY <1>1, <1>3
<1>6. Ends(u, j) = Ends(s, j)
  BY <1>3, <1>5 DEF Ends
<1>7. j \in MagicAt(u)
  <2>1. j \in MagicAt(s)
    BY DEF Whole
  <2>2. j \in 1 .. Len(s) - Len(Magic) + 1 /\ \A k \in 1 .. Len(Magic) : s[j + k - 1] = Magic[k]
    BY <2>1, MagicMeans
  <2>3. j \in 1 .. Len(u) - Len(Magic) + 1
    BY <1>1, <1>2, <2>2
  <2>4. ASSUME NEW k \in 1 .. Len(Magic) PROVE u[j + k - 1] = Magic[k]
    <3>1. j + k - 1 \in 1 .. Len(s)
      BY <1>1, <1>2, <2>2
    <3> QED BY <1>1, <2>2, <3>1
  <2> QED BY <1>1, <2>3, <2>4, MagicMeans
<1>8. j + Len(Magic) <= Len(u) /\ Ends(u, j) <= Len(u) + 1
  <2>1. Ends(u, j) \in Nat /\ Ends(u, j) <= Len(s) + 1
    BY <1>1, <1>2, <1>3, <1>6
  <2> QED BY <1>1, <1>2, <1>3, <1>4, <2>1
<1>9. u[j + Len(Magic)] <= MaxPayload
  BY <1>4, <1>5 DEF Whole
<1>10. Whole(u, j)
  BY <1>7, <1>8, <1>9 DEF Whole
<1> QED BY <1>6, <1>10 DEF u

\* The place to look for the k-th frame stays.
LEMMA FromStays ==
  ASSUME NEW s \in Seq(Nat), NEW c \in Seq(Nat), NEW q, Chain(s, q), NEW k \in 1 .. Len(q) + 1
  PROVE  From(s \o c, q, k) = From(s, q, k)
<1>1. CASE k = 1
  BY <1>1 DEF From
<1>2. CASE k # 1
  <2>1. k - 1 \in 1 .. Len(q)
    <3>1. Len(q) \in Nat
      BY LenProperties DEF Chain
    <3> QED BY <1>2, <3>1
  <2>2. Whole(s, q[k - 1])
    BY <2>1 DEF Chain
  <2>3. Ends(s \o c, q[k - 1]) = Ends(s, q[k - 1])
    BY <2>2, WholeStays
  <2> QED BY <1>2, <2>3 DEF From
<1> QED BY <1>1, <1>2

\* What has been read of a stream has been read of every longer one.
LEMMA ParsedStays ==
  ASSUME NEW s \in Seq(Nat), NEW c \in Seq(Nat), NEW q, NEW p, Parsed(s, q, p)
  PROVE  Parsed(s \o c, q, p) /\ Cut(s \o c, q) = Cut(s, q) /\ Drop(s \o c, p) = Drop(s, p) \o c
<1> DEFINE u == s \o c
           n == Len(q)
<1>1. /\ u \in Seq(Nat) /\ Len(s) \in Nat /\ Len(c) \in Nat /\ Len(u) = Len(s) + Len(c)
      /\ \A i \in 1 .. Len(s) : u[i] = s[i]
  BY LongerStream
<1>2. Chain(s, q) /\ p \in 0 .. Len(s) /\ q \in Seq(Nat) /\ n \in Nat
  BY LenProperties DEF Parsed, Chain
<1>3. ASSUME NEW k \in 1 .. n + 1
      PROVE  From(u, q, k) = From(s, q, k) /\ From(s, q, k) \in 1 .. Len(s) + 1
  BY <1>2, FromStays, FromRange
<1>4. ASSUME NEW k \in 1 .. n PROVE Whole(u, q[k]) /\ Ends(u, q[k]) = Ends(s, q[k]) /\ Whole(s, q[k])
  BY <1>2, WholeStays DEF Chain
<1>5. ASSUME NEW l \in Nat, 1 <= l, Dead(s, l) PROVE Dead(u, l)
  BY <1>5, DeadStays
<1> HIDE DEF u
<1>6. ASSUME NEW k \in 1 .. n
      PROVE  From(u, q, k) <= q[k] /\ \A l \in From(u, q, k) .. q[k] - 1 : Dead(u, l)
  <2>1. k \in 1 .. n + 1
    BY <1>2
  <2>2. From(u, q, k) = From(s, q, k) /\ From(s, q, k) \in 1 .. Len(s) + 1
    BY <1>3, <2>1
  <2>3. From(s, q, k) <= q[k] /\ \A l \in From(s, q, k) .. q[k] - 1 : Dead(s, l)
    BY <1>2 DEF Chain
  <2>4. ASSUME NEW l \in From(s, q, k) .. q[k] - 1 PROVE Dead(u, l)
    <3>1. l \in Nat /\ 1 <= l
      BY <1>1, <2>2
    <3> QED BY <1>5, <2>3, <3>1
  <2> QED BY <2>2, <2>3, <2>4
<1>7. Chain(u, q)
  BY <1>2, <1>4, <1>6 DEF Chain
<1>8. Parsed(u, q, p)
  <2>1. n + 1 \in 1 .. n + 1
    BY <1>2
  <2>2. From(u, q, n + 1) = From(s, q, n + 1) /\ From(s, q, n + 1) \in 1 .. Len(s) + 1
    BY <1>3, <2>1
  <2>3. From(s, q, n + 1) <= p + 1 /\ \A l \in From(s, q, n + 1) .. p : Dead(s, l)
    BY DEF Parsed
  <2>4. ASSUME NEW l \in From(s, q, n + 1) .. p PROVE Dead(u, l)
    <3>1. l \in Nat /\ 1 <= l
      BY <1>1, <2>2
    <3> QED BY <1>5, <2>3, <3>1
  <2>5. p \in 0 .. Len(u)
    BY <1>1, <1>2
  <2> QED BY <1>7, <2>2, <2>3, <2>4, <2>5 DEF Parsed
<1>9. Cut(u, q) = Cut(s, q)
  <2>1. ASSUME NEW k \in 1 .. n
        PROVE  SubSeq(u, q[k] + HeaderLen, Ends(u, q[k]) - 1) = SubSeq(s, q[k] + HeaderLen, Ends(s, q[k]) - 1)
    <3> DEFINE m == q[k] + HeaderLen
               e == Ends(s, q[k]) - 1
    <3>1. q[k] \in 1 .. Len(s) /\ Ends(s, q[k]) \in q[k] + HeaderLen .. Len(s) + 1
      BY <1>4, WholeEnds
    <3>2. HeaderLen \in Nat
      BY WireTypes
    <3>3. m \in Int /\ e \in Int /\ 1 <= m /\ e <= Len(s)
      <4> DEFINE x == q[k]
                 y == Ends(s, q[k])
      <4>1. x \in 1 .. Len(s) /\ y \in x + HeaderLen .. Len(s) + 1
        BY <3>1
      <4> HIDE DEF x, y
      <4>2. x + HeaderLen \in Int /\ 1 <= x + HeaderLen /\ y - 1 \in Int /\ y - 1 <= Len(s)
        BY <1>1, <3>2, <4>1
      <4> QED BY <4>2 DEF x, y
    <3> HIDE DEF m, e
    <3>4. SubSeq(u, m, e) = SubSeq(s, m, e)
      BY <3>3, SubSeqStays DEF u
    <3> QED BY <1>4, <3>4 DEF m, e
  <2> QED BY <2>1 DEF Cut
<1>10. Drop(u, p) = Drop(s, p) \o c
  <2> DEFINE t == Drop(s, p)
             v == Drop(u, p)
             w == t \o c
  <2>1. t \in Seq(Nat) /\ Len(t) = Len(s) - p /\ \A i \in 1 .. Len(s) - p : t[i] = s[p + i]
    BY <1>2, DropMeans
  <2>2. p \in 0 .. Len(u)
    BY <1>1, <1>2
  <2>3. v \in Seq(Nat) /\ Len(v) = Len(u) - p /\ \A i \in 1 .. Len(u) - p : v[i] = u[p + i]
    BY <1>1, <2>2, DropMeans
  <2> HIDE DEF t, v
  <2>4. /\ w \in Seq(Nat) /\ Len(w) = Len(t) + Len(c)
        /\ \A i \in 1 .. Len(t) + Len(c) : w[i] = IF i <= Len(t) THEN t[i] ELSE c[i - Len(t)]
    BY <2>1, ConcatProperties
  <2>5. \A i \in 1 .. Len(s) + Len(c) : u[i] = IF i <= Len(s) THEN s[i] ELSE c[i - Len(s)]
    BY ConcatProperties DEF u
  <2> HIDE DEF w
  <2>6. Len(v) = Len(w)
    BY <1>1, <1>2, <2>1, <2>3, <2>4
  <2>7. ASSUME NEW i \in 1 .. Len(v) PROVE v[i] = w[i]
    <3>1. PICK g \in Int : g = p + i
      BY <1>2
    <3>2. /\ i \in 1 .. Len(u) - p /\ i \in 1 .. Len(t) + Len(c)
          /\ g \in 1 .. Len(s) + Len(c)
          /\ (i <= Len(t) <=> g <= Len(s))
          /\ (i <= Len(t) => i \in 1 .. Len(s) - p)
          /\ i - Len(t) = g - Len(s)
      BY <1>1, <1>2, <2>1, <2>3, <3>1
    <3>3. v[i] = u[g]
      BY <2>3, <3>1, <3>2
    <3>4. u[g] = IF g <= Len(s) THEN s[g] ELSE c[g - Len(s)]
      BY <2>5, <3>2
    <3>5. w[i] = IF i <= Len(t) THEN t[i] ELSE c[i - Len(t)]
      BY <2>4, <3>2
    <3>6. i <= Len(t) => t[i] = s[g]
      BY <2>1, <3>1, <3>2
    <3> QED BY <3>2, <3>3, <3>4, <3>5, <3>6, Zenon
  <2>8. v = w
    BY <2>3, <2>4, <2>6, <2>7, SeqEqual
  <2> QED BY <2>8 DEF v, w, t
<1> QED BY <1>8, <1>9, <1>10 DEF u

----------------------------------------------------------------------------
(* The theorems of the reader *)

\* What the reader has seen are frames of the stream, and no other begins before
\* what it holds; that is nothing yet, or the beginning of a frame.
ReaderInv ==
    /\ stream \in Seq(Nat)
    /\ buf \in Seq(Nat)
    /\ frames \in Seq(Seq(Nat))
    /\ \E q, p : /\ Parsed(stream, q, p) /\ Settled(stream, p)
                 /\ buf = Drop(stream, p) /\ frames = Cut(stream, q)

\* A new reader has read nothing.
LEMMA ReaderInitInv == ReaderInit => ReaderInv
<1> SUFFICES ASSUME ReaderInit PROVE ReaderInv
  OBVIOUS
<1> DEFINE e == <<>>
<1>1. stream = e /\ buf = e /\ frames = e
  BY DEF ReaderInit
<1>2. e \in Seq(Nat) /\ e \in Seq(Seq(Nat)) /\ Len(e) = 0
  BY EmptySeq
<1>3. Len(Magic) \in Nat /\ 1 <= Len(Magic)
  BY WireTypes
<1> HIDE DEF e
<1>4. Parsed(e, e, 0)
  <2>1. Chain(e, e)
    BY <1>2 DEF Chain
  <2>2. From(e, e, Len(e) + 1) = 1 /\ 0 \in 0 .. Len(e) /\ 1 <= 0 + 1 /\ 1 .. 0 = {}
    BY <1>2 DEF From
  <2> QED BY <2>1, <2>2 DEF Parsed
<1>5. Settled(e, 0)
  <2>1. \A j : j \notin MagicAt(e)
    <3>1. \A j \in MagicAt(e) : j \in Nat /\ 1 <= j /\ j + Len(Magic) <= Len(e) + 1
      BY <1>2, MagicsAreNumbers
    <3>2. \A j \in MagicAt(e) : FALSE
      BY <1>2, <1>3, <3>1
    <3> QED BY <3>2
  <2> QED BY <1>2, <1>3, <2>1 DEF Settled
<1>6. Drop(e, 0) = e
  <2>1. 0 \in 0 .. Len(e) /\ Len(e) - 0 = 0
    BY <1>2
  <2>2. Drop(e, 0) \in Seq(Nat) /\ Len(Drop(e, 0)) = 0
    BY <1>2, <2>1, DropMeans
  <2> QED BY <1>2, <2>2, EmptySeq DEF e
<1>7. Cut(e, e) = e
  BY <1>2 DEF Cut, e
<1> QED BY <1>1, <1>2, <1>4, <1>5, <1>6, <1>7 DEF ReaderInv

\* One call of feed keeps the invariant.
LEMMA FeedChunkKeeps == ASSUME ReaderInv, FeedChunk PROVE ReaderInv'
<1>1. stream \in Seq(Nat) /\ buf \in Seq(Nat) /\ frames \in Seq(Seq(Nat))
  BY DEF ReaderInv
<1>2. PICK q, p : /\ Parsed(stream, q, p) /\ Settled(stream, p)
                  /\ buf = Drop(stream, p) /\ frames = Cut(stream, q)
  BY DEF ReaderInv
<1>3. PICK n \in 1 .. MaxChunk : \E piece \in [1 .. n -> Bytes] :
        /\ stream' = stream \o piece
        /\ buf' = Feed(buf, piece).buf
        /\ frames' = frames \o Feed(buf, piece).frames
  BY DEF FeedChunk
<1>4. PICK piece \in [1 .. n -> Bytes] :
        /\ stream' = stream \o piece
        /\ buf' = Feed(buf, piece).buf
        /\ frames' = frames \o Feed(buf, piece).frames
  BY <1>3
<1>5. piece \in Seq(Nat)
  <2>1. n \in Nat /\ Bytes \subseteq Nat
    BY StreamAssumption
  <2>2. piece \in [1 .. n -> Nat]
    BY <2>1
  <2> QED BY <2>1, <2>2
<1> DEFINE s == stream \o piece
<1>6. s \in Seq(Nat)
  BY <1>1, <1>5, LongerStream
<1>7. Parsed(s, q, p) /\ frames = Cut(s, q) /\ buf \o piece = Drop(s, p)
  <2>1. \A t \in Seq(Nat) : \A c \in Seq(Nat) : \A a, m : Parsed(t, a, m) =>
           Parsed(t \o c, a, m) /\ Cut(t \o c, a) = Cut(t, a) /\ Drop(t \o c, m) = Drop(t, m) \o c
    BY ParsedStays
  <2>2. Parsed(stream, q, p)
    BY <1>2
  <2>3. stream \in Seq(Nat)
    BY <1>1
  <2>4. \A c \in Seq(Nat) : \A a, m : Parsed(stream, a, m) =>
           /\ Parsed(stream \o c, a, m)
           /\ Cut(stream \o c, a) = Cut(stream, a)
           /\ Drop(stream \o c, m) = Drop(stream, m) \o c
    BY <2>1, <2>3
  <2>5. Parsed(s, q, p) /\ Cut(s, q) = Cut(stream, q) /\ Drop(s, p) = Drop(stream, p) \o piece
    BY <1>5, <2>2, <2>4
  <2> QED BY <1>2, <2>5
<1>8. stream' = s
  BY <1>4
<1> HIDE DEF s
<1>9. PICK q2, p2 : Reads(s, q2, p2, frames, Feed(buf, piece)) /\ Settled(s, p2)
  BY <1>1, <1>5, <1>6, <1>7, FeedReads
<1>10. /\ Parsed(s, q2, p2) /\ buf' = Drop(s, p2) /\ frames' = Cut(s, q2)
       /\ Feed(buf, piece).frames \in Seq(Seq(Nat))
  BY <1>4, <1>9 DEF Reads
<1>11. frames' \in Seq(Seq(Nat))
  BY <1>1, <1>4, <1>10, ConcatProperties
<1>12. buf' \in Seq(Nat)
  <2>1. p2 \in 0 .. Len(s)
    BY <1>10 DEF Parsed
  <2> QED BY <1>6, <1>10, <2>1, DropMeans
<1>13. \E a, m : /\ Parsed(stream', a, m) /\ Settled(stream', m)
                 /\ buf' = Drop(stream', m) /\ frames' = Cut(stream', a)
  BY <1>8, <1>9, <1>10
<1> QED BY <1>6, <1>8, <1>11, <1>12, <1>13 DEF ReaderInv

\* So does every step.
LEMMA ReaderStepInv == ReaderInv /\ [ReaderNext]_readerVars => ReaderInv'
<1>1. ASSUME ReaderInv, FeedChunk PROVE ReaderInv'
  BY <1>1, FeedChunkKeeps
<1>2. ASSUME ReaderInv, UNCHANGED readerVars PROVE ReaderInv'
  <2>1. stream' = stream /\ buf' = buf /\ frames' = frames
    BY <1>2 DEF readerVars
  <2> QED BY <1>2, <2>1 DEF ReaderInv
<1> QED BY <1>1, <1>2 DEF ReaderNext

\* What the reader has handed on and what it holds always account for the whole
\* stream, in order.
THEOREM ReaderInvariance == ReaderSpec => []ReaderInv
BY ReaderInitInv, ReaderStepInv, PTL DEF ReaderSpec

\* However the stream is cut into pieces, the frames that the reader has handed
\* on are those that the definition without a reader finds in it.
THEOREM ReaderFindsTheFrames == ReaderSpec => []FindsTheFrames
<1>1. ReaderInv => FindsTheFrames
  <2> SUFFICES ASSUME ReaderInv PROVE FindsTheFrames
    OBVIOUS
  <2>1. PICK q, p : Parsed(stream, q, p) /\ Settled(stream, p) /\ frames = Cut(stream, q)
    BY DEF ReaderInv
  <2>2. stream \in Seq(Nat)
    BY DEF ReaderInv
  <2>3. Payloads(stream) = Cut(stream, q)
    BY <2>1, <2>2, SeenAll
  <2> QED BY <2>1, <2>3 DEF FindsTheFrames
<1> QED BY <1>1, ReaderInvariance, PTL

\* Whatever it is fed, the reader holds less than one frame of the largest size.
THEOREM ReaderIsBounded == ReaderSpec => []BoundedBuffer
<1>1. ReaderInv => BoundedBuffer
  <2> SUFFICES ASSUME ReaderInv PROVE BoundedBuffer
    OBVIOUS
  <2> DEFINE s == stream
  <2>1. PICK q, p : Parsed(s, q, p) /\ Settled(s, p) /\ buf = Drop(s, p)
    BY DEF ReaderInv
  <2>2. s \in Seq(Nat) /\ p \in 0 .. Len(s)
    BY <2>1 DEF ReaderInv, Parsed
  <2>3. Len(buf) = Len(s) - p
    BY <2>1, <2>2, DropMeans
  <2>4. /\ Len(s) \in Nat /\ Len(Magic) \in Nat /\ MaxPayload \in Nat
        /\ HeaderLen = Len(Magic) + 1 /\ HeaderLen \in Nat
    BY <2>2, LenProperties, WireTypes
  <2> HIDE DEF s
  <2>5. CASE Len(s) - p < Len(Magic)
    BY <2>2, <2>3, <2>4, <2>5 DEF BoundedBuffer
  <2>6. CASE ~(p + HeaderLen <= Len(s))
    BY <2>2, <2>3, <2>4, <2>6 DEF BoundedBuffer
  <2>7. CASE p + HeaderLen <= Len(s) /\ s[p + HeaderLen] <= MaxPayload /\ Ends(s, p + 1) > Len(s) + 1
    <3>1. p + 1 + HeaderLen - 1 = p + HeaderLen /\ p + HeaderLen \in 1 .. Len(s)
      BY <2>2, <2>4, <2>7, WireTypes
    <3>2. s[p + HeaderLen] \in Nat
      BY <2>2, <3>1, ElementOfSeq
    <3>3. Ends(s, p + 1) = p + 1 + HeaderLen + s[p + HeaderLen]
      BY <3>1 DEF Ends
    <3> DEFINE m == s[p + HeaderLen]
    <3>4. m \in Nat /\ m <= MaxPayload /\ p + 1 + HeaderLen + m > Len(s) + 1
      BY <2>7, <3>2, <3>3
    <3> HIDE DEF m
    <3> QED BY <2>2, <2>3, <2>4, <3>4 DEF BoundedBuffer
  <2> QED BY <2>1, <2>5, <2>6, <2>7 DEF Settled
<1> QED BY <1>1, ReaderInvariance, PTL

----------------------------------------------------------------------------
(***************************************************************************)
(* PART III: the USB stream.                                               *)
(*                                                                         *)
(* For packets of any size, any number of them, and text and failing       *)
(* writes in every order: as long as nothing disturbs the stream every     *)
(* packet is heard whole, once and in order, and after a disturbance the   *)
(* reader is back in step once it has had its fill.                        *)
(*                                                                         *)
(* Between two writes the reader holds nothing that begins a magic         *)
(* (Silent) or the beginning of one frame (Waits). In step it waits for    *)
(* the payload that was announced last or for nothing (InStep); out of     *)
(* step the frame it waits for has grown by every packet written since     *)
(* (Growing), and no frame grows beyond MaxPayload.                        *)
(***************************************************************************)

----------------------------------------------------------------------------
(* What a reader holds between two writes of the device *)

\* Nothing in b begins a magic.
Silent(b) == \A i \in 1 .. Len(b) : b[i] # Magic[1]

\* b is the beginning of a frame: its header, and less than its payload.
Waits(b) ==
    /\ 1 \in MagicAt(b)
    /\ HeaderLen <= Len(b) /\ b[HeaderLen] <= MaxPayload
    /\ Ends(b, 1) > Len(b) + 1

\* Where a magic stands, its first number does.
LEMMA MagicBegins ==
  ASSUME NEW s \in Seq(Nat), NEW j \in MagicAt(s)
  PROVE  j \in 1 .. Len(s) /\ s[j] = Magic[1]
<1>1. j \in Nat /\ 1 <= j /\ j + Len(Magic) <= Len(s) + 1
  BY MagicsAreNumbers
<1>2. Len(s) \in Nat /\ Len(Magic) \in Nat /\ 1 <= Len(Magic)
  BY LenProperties, WireTypes
<1>3. 1 \in 1 .. Len(Magic) /\ j + 1 - 1 = j /\ j \in 1 .. Len(s)
  BY <1>1, <1>2
<1>4. s[j + 1 - 1] = Magic[1]
  BY <1>3, MagicMeans
<1> QED BY <1>3, <1>4, Zenon

\* No magic in what does not begin one.
LEMMA SilentHasNoMagic ==
  ASSUME NEW s \in Seq(Nat), Silent(s)
  PROVE  MagicAt(s) = {}
BY MagicBegins DEF Silent

\* The rest of s is silent if its first numbers of magics are all gone.
LEMMA SilentRest ==
  ASSUME NEW s \in Seq(Nat), NEW p \in 0 .. Len(s), \A i \in p + 1 .. Len(s) : s[i] # Magic[1]
  PROVE  Silent(Drop(s, p))
<1> DEFINE t == Drop(s, p)
<1>1. Len(t) = Len(s) - p /\ \A i \in 1 .. Len(s) - p : t[i] = s[p + i]
  BY DropMeans
<1>2. Len(s) \in Nat
  BY LenProperties
<1> HIDE DEF t
<1>3. ASSUME NEW i \in 1 .. Len(t) PROVE t[i] # Magic[1]
  <2>1. i \in 1 .. Len(s) - p /\ p + i \in p + 1 .. Len(s)
    BY <1>1, <1>2
  <2> QED BY <1>1, <2>1
<1>4. Silent(t)
  BY <1>3 DEF Silent
<1> QED BY <1>4 DEF t

\* Dropping nothing.
LEMMA DropNone == ASSUME NEW s \in Seq(Nat) PROVE Drop(s, 0) = s
<1>1. 0 + 1 = 1
  OBVIOUS
<1> QED BY <1>1, SubSeqFull DEF Drop

\* What one call of feed makes of a buffer that no frame has been taken from.
LEMMA FeedFinds ==
  ASSUME NEW b \in Seq(Nat), NEW c \in Seq(Nat)
  PROVE  \E q, p : /\ Parsed(b \o c, q, p) /\ Settled(b \o c, p)
                   /\ Feed(b, c).buf = Drop(b \o c, p)
                   /\ Feed(b, c).frames = Cut(b \o c, q)
                   /\ Feed(b, c).frames \in Seq(Seq(Nat))
<1> DEFINE s == b \o c
           e == <<>>
<1>1. s \in Seq(Nat) /\ Len(s) \in Nat
  BY LongerStream, LenProperties
<1>2. e \in Seq(Nat) /\ e \in Seq(Seq(Nat)) /\ Len(e) = 0
  BY EmptySeq
<1>3. Parsed(s, e, 0)
  <2> HIDE DEF e, s
  <2>1. Chain(s, e)
    BY <1>2 DEF Chain
  <2>2. From(s, e, Len(e) + 1) = 1 /\ 0 \in 0 .. Len(s) /\ 1 <= 0 + 1 /\ 1 .. 0 = {}
    BY <1>1, <1>2 DEF From
  <2> QED BY <2>1, <2>2 DEF Parsed
<1>4. e = Cut(s, e)
  BY <1>2 DEF Cut
<1>5. s = Drop(s, 0)
  BY <1>1, DropNone
<1>6. PICK q, p : Reads(s, q, p, e, Feed(b, c)) /\ Settled(s, p)
  <2> HIDE DEF e
  <2> QED BY <1>1, <1>2, <1>3, <1>4, <1>5, FeedReads
<1>7. /\ Parsed(s, q, p) /\ Feed(b, c).buf = Drop(s, p)
      /\ e \o Feed(b, c).frames = Cut(s, q) /\ Feed(b, c).frames \in Seq(Seq(Nat))
  BY <1>6 DEF Reads
<1>8. e \o Feed(b, c).frames = Feed(b, c).frames
  BY <1>7, ConcatEmptySeq
<1> QED BY <1>6, <1>7, <1>8

\* The numbers of a header.
LEMMA HeaderMeans ==
  ASSUME NEW n \in Nat
  PROVE  /\ Header(n) \in Seq(Nat) /\ Len(Header(n)) = HeaderLen /\ Header(n)[HeaderLen] = n
         /\ \A k \in 1 .. Len(Magic) : Header(n)[k] = Magic[k]
<1>1. Magic \in Seq(Nat) /\ Len(Magic) \in Nat /\ HeaderLen = Len(Magic) + 1
  BY WireTypes
<1>2. <<n>> \in Seq(Nat) /\ Len(<<n>>) = 1 /\ <<n>>[1] = n
  OBVIOUS
<1> DEFINE e == <<n>>
           h == Magic \o e
           m == HeaderLen
<1>3. e \in Seq(Nat) /\ Len(e) = 1 /\ e[1] = n
  BY <1>2
<1> HIDE DEF e, m
<1>4. /\ h \in Seq(Nat) /\ Len(h) = Len(Magic) + 1
      /\ \A k \in 1 .. Len(Magic) + 1 : h[k] = IF k <= Len(Magic) THEN Magic[k] ELSE e[k - Len(Magic)]
  <2>1. /\ h \in Seq(Nat) /\ Len(h) = Len(Magic) + Len(e)
        /\ \A k \in 1 .. Len(Magic) + Len(e) : h[k] = IF k <= Len(Magic) THEN Magic[k] ELSE e[k - Len(Magic)]
    BY <1>1, <1>3, ConcatProperties
  <2> HIDE DEF h
  <2> QED BY <1>3, <2>1
<1> HIDE DEF h
<1>5. \A k \in 1 .. Len(Magic) : h[k] = Magic[k]
  <2>1. \A k \in 1 .. Len(Magic) : k \in 1 .. Len(Magic) + 1 /\ k <= Len(Magic)
    BY <1>1
  <2> QED BY <1>4, <2>1
<1>6. h[m] = n
  <2>1. m \in 1 .. Len(Magic) + 1 /\ ~(m <= Len(Magic)) /\ m - Len(Magic) = 1
    BY <1>1 DEF m
  <2> QED BY <1>3, <1>4, <2>1
<1> QED BY <1>1, <1>4, <1>5, <1>6 DEF h, e, m, Header

\* Noise stays noise.
LEMMA NoiseFeeds ==
  ASSUME NEW b \in Seq(Nat), NEW c \in Seq(Nat), Silent(b), Silent(c)
  PROVE  Silent(Feed(b, c).buf) /\ Feed(b, c).frames = <<>> /\ Feed(b, c).buf \in Seq(Nat)
<1> DEFINE s == b \o c
<1>1. PICK q, p : /\ Parsed(s, q, p) /\ Feed(b, c).buf = Drop(s, p) /\ Feed(b, c).frames = Cut(s, q)
  BY FeedFinds
<1>2. /\ s \in Seq(Nat) /\ Len(s) = Len(b) + Len(c) /\ Len(b) \in Nat /\ Len(c) \in Nat
      /\ \A i \in 1 .. Len(b) + Len(c) : s[i] = IF i <= Len(b) THEN b[i] ELSE c[i - Len(b)]
  BY ConcatProperties, LenProperties
<1> HIDE DEF s
<1>3. ASSUME NEW i \in 1 .. Len(s) PROVE s[i] # Magic[1]
  <2>1. i \in 1 .. Len(b) + Len(c) /\ (i <= Len(b) => i \in 1 .. Len(b)) /\ (~(i <= Len(b)) => i - Len(b) \in 1 .. Len(c))
    BY <1>2
  <2>2. s[i] = IF i <= Len(b) THEN b[i] ELSE c[i - Len(b)]
    BY <1>2, <2>1
  <2> QED BY <2>1, <2>2 DEF Silent
<1>4. Silent(s)
  BY <1>3 DEF Silent
<1>5. MagicAt(s) = {}
  BY <1>2, <1>4, SilentHasNoMagic
<1>6. q \in Seq(Nat) /\ Len(q) \in Nat /\ \A k \in 1 .. Len(q) : q[k] \in MagicAt(s)
  BY <1>1, LenProperties DEF Parsed, Chain, Whole
<1>7. Len(q) = 0
  BY <1>5, <1>6
<1>8. p \in 0 .. Len(s)
  BY <1>1 DEF Parsed
<1>9. Silent(Drop(s, p)) /\ Drop(s, p) \in Seq(Nat)
  <2>1. \A i \in p + 1 .. Len(s) : i \in 1 .. Len(s)
    BY <1>2, <1>8
  <2> QED BY <1>2, <1>3, <1>8, <2>1, SilentRest, DropMeans
<1>10. Cut(s, q) = <<>>
  BY <1>7 DEF Cut
<1> QED BY <1>1, <1>9, <1>10

\* While the reader waits, a write that does not begin a magic behind its first
\* number completes the frame, and nothing of a magic is left, or it does not.
LEMMA WaitingFeeds ==
  ASSUME NEW b \in Seq(Nat), NEW c \in Seq(Nat), Waits(b),
         \A i \in 2 .. Len(c) : c[i] # Magic[1]
  PROVE  \/ /\ Ends(b, 1) > Len(b) + Len(c) + 1
            /\ Feed(b, c).buf = b \o c /\ Waits(b \o c) /\ Feed(b, c).frames = <<>>
         \/ /\ Ends(b, 1) <= Len(b) + Len(c) + 1
            /\ Silent(Feed(b, c).buf) /\ Feed(b, c).buf \in Seq(Nat)
            /\ Feed(b, c).frames = <<SubSeq(b \o c, HeaderLen + 1, Ends(b, 1) - 1)>>
<1> DEFINE s == b \o c
           E == Ends(b, 1)
<1>1. PICK q, p : /\ Parsed(s, q, p) /\ Settled(s, p)
                  /\ Feed(b, c).buf = Drop(s, p) /\ Feed(b, c).frames = Cut(s, q)
  BY FeedFinds
<1>2. /\ s \in Seq(Nat) /\ Len(s) = Len(b) + Len(c) /\ Len(b) \in Nat /\ Len(c) \in Nat
      /\ \A i \in 1 .. Len(b) + Len(c) : s[i] = IF i <= Len(b) THEN b[i] ELSE c[i - Len(b)]
  BY ConcatProperties, LenProperties
<1>3. \A i \in 1 .. Len(b) : s[i] = b[i]
  BY LongerStream
<1>4. Len(Magic) \in Nat /\ 1 <= Len(Magic) /\ HeaderLen = Len(Magic) + 1 /\ MaxPayload \in Nat
  BY WireTypes
<1> HIDE DEF s
<1>5. /\ HeaderLen \in 1 .. Len(b) /\ b[HeaderLen] \in Nat /\ b[HeaderLen] <= MaxPayload
      /\ s[HeaderLen] = b[HeaderLen]
  <2>1. HeaderLen \in 1 .. Len(b)
    BY <1>2, <1>4 DEF Waits
  <2> QED BY <1>3, <2>1, ElementOfSeq DEF Waits
<1>6. 1 + HeaderLen - 1 = HeaderLen /\ 1 + Len(Magic) = HeaderLen /\ 1 + HeaderLen = HeaderLen + 1
  BY <1>4
<1>7. E = HeaderLen + 1 + b[HeaderLen] /\ Ends(s, 1) = E /\ E \in Nat /\ E > Len(b) + 1
  <2>1. Ends(b, 1) = 1 + HeaderLen + b[HeaderLen] /\ Ends(s, 1) = 1 + HeaderLen + s[HeaderLen]
    BY <1>6 DEF Ends
  <2> QED BY <1>4, <1>5, <2>1 DEF Waits
<1>8. 1 \in MagicAt(s)
  <2>1. 1 \in MagicAt(b)
    BY DEF Waits
  <2>2. 1 \in 1 .. Len(b) - Len(Magic) + 1 /\ \A k \in 1 .. Len(Magic) : b[1 + k - 1] = Magic[k]
    BY <2>1, MagicMeans
  <2>3. 1 \in 1 .. Len(s) - Len(Magic) + 1
    BY <1>2, <1>4, <2>2
  <2>4. ASSUME NEW k \in 1 .. Len(Magic) PROVE s[1 + k - 1] = Magic[k]
    <3>1. 1 + k - 1 \in 1 .. Len(b)
      BY <1>2, <1>4, <2>2
    <3> QED BY <1>3, <2>2, <3>1
  <2> QED BY <1>2, <2>3, <2>4, MagicMeans
<1> HIDE DEF E
<1>9. ~Dead(s, 1)
  <2>1. 1 \in Plausible(s, 1)
    BY <1>5, <1>6, <1>8 DEF Plausible
  <2> QED BY <1>2, <2>1, DeadIsNoFrame
<1>10. \A i \in Len(b) + 2 .. Len(s) : s[i] # Magic[1]
  <2>1. ASSUME NEW i \in Len(b) + 2 .. Len(s) PROVE s[i] # Magic[1]
    <3>1. i \in 1 .. Len(b) + Len(c) /\ ~(i <= Len(b)) /\ i - Len(b) \in 2 .. Len(c)
      BY <1>2
    <3>2. s[i] = c[i - Len(b)]
      BY <1>2, <3>1
    <3> QED BY <3>1, <3>2
  <2> QED BY <2>1
<1>11. /\ Chain(s, q) /\ q \in Seq(Nat) /\ Len(q) \in Nat /\ p \in 0 .. Len(s)
       /\ From(s, q, Len(q) + 1) <= p + 1
       /\ \A l \in From(s, q, Len(q) + 1) .. p : Dead(s, l)
  BY <1>1, LenProperties DEF Parsed, Chain
<1>12. ASSUME Len(q) = 0 PROVE p = 0 /\ E > Len(s) + 1
  <2>1. From(s, q, Len(q) + 1) = 1
    BY <1>12 DEF From
  <2>2. p = 0
    <3>1. 1 \notin 1 .. p
      BY <1>9, <1>11, <2>1
    <3> QED BY <1>2, <1>11, <3>1
  <2>3. 0 + 1 = 1 /\ 0 + HeaderLen = HeaderLen /\ HeaderLen <= Len(s)
    BY <1>2, <1>4, <1>5
  <2>4. ~(1 <= 0)
    OBVIOUS
  <2>5. Ends(s, 1) > Len(s) + 1
    BY <1>1, <1>8, <2>2, <2>3, <2>4 DEF Settled
  <2> QED BY <1>7, <2>2, <2>5
<1>13. ASSUME Len(q) # 0 PROVE Len(q) = 1 /\ q[1] = 1 /\ E <= Len(s) + 1 /\ E <= p + 1
  <2>1. 1 \in 1 .. Len(q) /\ From(s, q, 1) = 1
    BY <1>11, <1>13 DEF From
  <2>2. 1 <= q[1] /\ Whole(s, q[1]) /\ \A l \in 1 .. q[1] - 1 : Dead(s, l)
    BY <1>11, <2>1 DEF Chain
  <2>3. q[1] \in Nat
    BY <1>11, <2>1, ElementOfSeq
  <2>4. q[1] = 1
    <3>1. 1 \notin 1 .. q[1] - 1
      BY <1>9, <2>2
    <3> QED BY <2>2, <2>3, <3>1
  <2>5. E <= Len(s) + 1
    BY <1>7, <2>2, <2>4 DEF Whole
  <2>6. From(s, q, 0 + 2) = Ends(s, q[0 + 1])
    BY FromNext
  <2>7. From(s, q, 2) = E
    BY <1>7, <2>4, <2>6
  <2>8. Len(q) = 1
    <3>1. SUFFICES ASSUME Len(q) # 1 PROVE FALSE
      OBVIOUS
    <3>2. 2 \in 1 .. Len(q)
      <4> DEFINE m == Len(q)
      <4>1. m \in Nat
        BY <1>11
      <4>2. m # 0
        BY <1>13
      <4>3. m # 1
        BY <3>1
      <4> HIDE DEF m
      <4>4. 2 \in 1 .. m
        BY <4>1, <4>2, <4>3
      <4> QED BY <4>4 DEF m
    <3>3. E <= q[2] /\ q[2] \in MagicAt(s)
      BY <1>11, <2>7, <3>2 DEF Chain, Whole
    <3>4. q[2] \in 1 .. Len(s) /\ s[q[2]] = Magic[1]
      BY <1>2, <3>3, MagicBegins
    <3>5. q[2] \in Len(b) + 2 .. Len(s)
      <4> DEFINE x == q[2]
      <4>1. x \in 1 .. Len(s) /\ E <= x
        BY <3>3, <3>4
      <4> HIDE DEF x
      <4>2. x \in Len(b) + 2 .. Len(s)
        BY <1>2, <1>7, <4>1
      <4> QED BY <4>2 DEF x
    <3> QED BY <1>10, <3>4, <3>5
  <2>9. Len(q) + 1 = 2
    BY <2>8
  <2> QED BY <1>11, <2>4, <2>5, <2>7, <2>8, <2>9
<1>14. CASE Len(q) = 0
  <2>1. p = 0 /\ E > Len(s) + 1
    BY <1>12, <1>14
  <2>2. Feed(b, c).buf = s
    BY <1>1, <1>2, <2>1, DropNone
  <2>3. Waits(s)
    <3>1. HeaderLen <= Len(s)
      BY <1>2, <1>4, <1>5
    <3> QED BY <1>5, <1>7, <1>8, <2>1, <3>1 DEF Waits
  <2>4. Feed(b, c).frames = <<>>
    BY <1>1, <1>14 DEF Cut
  <2> QED BY <1>2, <2>1, <2>2, <2>3, <2>4 DEF s, E
<1>15. CASE Len(q) # 0
  <2>1. Len(q) = 1 /\ q[1] = 1 /\ E <= Len(s) + 1 /\ E <= p + 1
    BY <1>13, <1>15
  <2>2. \A i \in p + 1 .. Len(s) : s[i] # Magic[1]
    <3>1. \A i \in p + 1 .. Len(s) : i \in Len(b) + 2 .. Len(s)
      BY <1>2, <1>7, <1>11, <2>1
    <3> QED BY <1>10, <3>1
  <2>3. Silent(Feed(b, c).buf) /\ Feed(b, c).buf \in Seq(Nat)
    BY <1>1, <1>2, <1>11, <2>2, SilentRest, DropMeans
  <2>4. Feed(b, c).frames = <<SubSeq(s, HeaderLen + 1, E - 1)>>
    <3> DEFINE x(k) == SubSeq(s, q[k] + HeaderLen, Ends(s, q[k]) - 1)
    <3>1. Cut(s, q) = [k \in 1 .. 1 |-> x(k)]
      BY <2>1 DEF Cut
    <3>2. x(1) = SubSeq(s, HeaderLen + 1, E - 1)
      BY <1>6, <1>7, <2>1
    <3> HIDE DEF x
    <3>3. [k \in 1 .. 1 |-> x(k)] = <<x(1)>>
      OBVIOUS
    <3> QED BY <1>1, <3>1, <3>2, <3>3
  <2> QED BY <1>2, <2>1, <2>3, <2>4 DEF s, E
<1> QED BY <1>14, <1>15

\* A header behind noise: the reader waits for the payload, unless it is longer
\* than a reader takes.
LEMMA HeaderFeeds ==
  ASSUME NEW b \in Seq(Nat), NEW n \in Nat, Silent(b), n # 0, n # Magic[1]
  PROVE  /\ Feed(b, Header(n)).frames = <<>> /\ Feed(b, Header(n)).buf \in Seq(Nat)
         /\ n <= MaxPayload => Feed(b, Header(n)).buf = Header(n)
         /\ ~(n <= MaxPayload) => Silent(Feed(b, Header(n)).buf)
<1> DEFINE c == Header(n)
           s == b \o c
           j == Len(b) + 1
<1>1. c \in Seq(Nat) /\ Len(c) = HeaderLen /\ c[HeaderLen] = n /\ \A k \in 1 .. Len(Magic) : c[k] = Magic[k]
  BY HeaderMeans
<1> HIDE DEF c
<1>2. PICK q, p : /\ Parsed(s, q, p) /\ Settled(s, p)
                  /\ Feed(b, c).buf = Drop(s, p) /\ Feed(b, c).frames = Cut(s, q)
  BY <1>1, FeedFinds
<1>3. /\ s \in Seq(Nat) /\ Len(s) = Len(b) + Len(c) /\ Len(b) \in Nat /\ Len(c) \in Nat
      /\ \A i \in 1 .. Len(b) + Len(c) : s[i] = IF i <= Len(b) THEN b[i] ELSE c[i - Len(b)]
  BY <1>1, ConcatProperties, LenProperties
<1>4. Len(Magic) \in Nat /\ 1 <= Len(Magic) /\ HeaderLen = Len(Magic) + 1 /\ MaxPayload \in Nat
  BY WireTypes
<1> HIDE DEF s
<1>5. \A i \in 1 .. HeaderLen : s[Len(b) + i] = c[i]
  <2>1. ASSUME NEW i \in 1 .. HeaderLen PROVE s[Len(b) + i] = c[i]
    <3>1. PICK g \in Int : g = Len(b) + i
      BY <1>3
    <3>2. g \in 1 .. Len(b) + Len(c) /\ ~(g <= Len(b)) /\ g - Len(b) = i
      BY <1>1, <1>3, <1>4, <3>1
    <3>3. s[g] = c[i]
      BY <1>3, <3>2
    <3> QED BY <3>1, <3>3
  <2> QED BY <2>1
<1>6. \A i \in 1 .. Len(s) : i # j => s[i] # Magic[1]
  <2>1. ASSUME NEW i \in 1 .. Len(s), i # j PROVE s[i] # Magic[1]
    <3>1. CASE i <= Len(b)
      <4>1. i \in 1 .. Len(b) /\ i \in 1 .. Len(b) + Len(c)
        BY <1>3, <3>1
      <4>2. s[i] = b[i]
        BY <1>3, <3>1, <4>1
      <4> QED BY <4>1, <4>2 DEF Silent
    <3>2. CASE ~(i <= Len(b))
      <4>1. PICK k \in Int : k = i - Len(b)
        <5>1. i - Len(b) \in Int
          BY <1>3
        <5> QED BY <5>1
      <4>2. k \in 2 .. HeaderLen /\ i = Len(b) + k /\ k \in 1 .. HeaderLen
        BY <1>1, <1>3, <2>1, <3>2, <4>1
      <4>3. s[i] = c[k]
        BY <1>5, <4>2
      <4>4. CASE k = HeaderLen
        BY <1>1, <4>3, <4>4
      <4>5. CASE k # HeaderLen
        <5>1. k \in 2 .. Len(Magic) /\ k \in 1 .. Len(Magic)
          BY <1>4, <4>2, <4>5
        <5> QED BY <1>1, <4>3, <5>1, WireAssumption
      <4> QED BY <4>4, <4>5
    <3> QED BY <3>1, <3>2
  <2> QED BY <2>1
<1>7. j \in 1 .. Len(s) - Len(Magic) + 1 /\ j + Len(Magic) = Len(s) /\ j + Len(Magic) = Len(b) + HeaderLen
      /\ j + HeaderLen - 1 = j + Len(Magic) /\ j \in Nat
  BY <1>1, <1>3, <1>4
<1>8. s[j + Len(Magic)] = n
  <2>1. HeaderLen \in 1 .. HeaderLen
    BY <1>4
  <2>2. s[Len(b) + HeaderLen] = n
    BY <1>1, <1>5, <2>1
  <2> QED BY <1>7, <2>2
<1>9. Ends(s, j) = j + HeaderLen + n
  BY <1>7, <1>8 DEF Ends
<1>10. j \in MagicAt(s)
  <2>1. ASSUME NEW k \in 1 .. Len(Magic) PROVE s[j + k - 1] = Magic[k]
    <3>1. j + k - 1 = Len(b) + k /\ k \in 1 .. HeaderLen
      BY <1>3, <1>4
    <3>2. s[Len(b) + k] = c[k] /\ c[k] = Magic[k]
      BY <1>1, <1>5, <3>1
    <3> QED BY <3>1, <3>2
  <2> HIDE DEF j
  <2> QED BY <1>3, <1>7, <2>1, MagicMeans
<1>11. \A i \in MagicAt(s) : i = j
  BY <1>3, <1>6, MagicBegins
<1> HIDE DEF j
<1>12. /\ Chain(s, q) /\ q \in Seq(Nat) /\ Len(q) \in Nat /\ p \in 0 .. Len(s)
       /\ \A l \in From(s, q, Len(q) + 1) .. p : Dead(s, l)
  BY <1>2, LenProperties DEF Parsed, Chain
<1>13. Len(q) = 0
  <2>1. SUFFICES ASSUME Len(q) # 0 PROVE FALSE
    OBVIOUS
  <2>2. 1 \in 1 .. Len(q)
    BY <1>12, <2>1
  <2>3. Whole(s, q[1])
    BY <1>12, <2>2 DEF Chain
  <2>4. q[1] = j
    BY <1>11, <2>3 DEF Whole
  <2>5. Ends(s, j) <= Len(s) + 1
    BY <2>3, <2>4 DEF Whole
  <2>6. Len(s) + 1 = j + HeaderLen
    <3>1. j \in Nat /\ j + Len(Magic) = Len(s)
      BY <1>7
    <3> QED BY <1>4, <3>1
  <2>7. j + HeaderLen + n <= j + HeaderLen
    BY <1>9, <2>5, <2>6
  <2> QED BY <1>4, <1>7, <2>7
<1>14. Feed(b, c).frames = <<>>
  BY <1>2, <1>13 DEF Cut
<1>15. Feed(b, c).buf \in Seq(Nat)
  BY <1>2, <1>3, <1>12, DropMeans
<1>16. From(s, q, Len(q) + 1) = 1
  BY <1>13 DEF From
<1>17. ASSUME p < j PROVE p + 1 = j /\ n <= MaxPayload
  <2>1. ~(\A i \in MagicAt(s) : i <= p)
    <3>1. ~(j <= p)
      BY <1>7, <1>12, <1>17
    <3> QED BY <1>10, <3>1
  <2>2. p + 1 = j /\ (p + HeaderLen <= Len(s) => s[p + HeaderLen] <= MaxPayload)
    BY <1>2, <1>11, <2>1 DEF Settled
  <2>3. p + HeaderLen = j + Len(Magic) /\ p + HeaderLen <= Len(s)
    <3>1. p \in Nat /\ p + 1 = j
      BY <1>3, <1>12, <2>2
    <3>2. p + HeaderLen = j + Len(Magic)
      BY <1>4, <3>1
    <3> QED BY <1>3, <1>7, <3>2
  <2> QED BY <1>8, <2>2, <2>3
<1>18. ASSUME ~(p < j) PROVE ~(n <= MaxPayload)
  <2>1. j \in 1 .. p
    BY <1>3, <1>7, <1>12, <1>18
  <2>2. Dead(s, j)
    BY <1>12, <1>16, <2>1
  <2>3. n <= MaxPayload => j \in Plausible(s, j)
    BY <1>7, <1>8, <1>10 DEF Plausible
  <2> QED BY <1>3, <2>2, <2>3, DeadIsNoFrame
<1>19. ASSUME n <= MaxPayload PROVE Feed(b, c).buf = c
  <2>1. p = Len(b)
    BY <1>3, <1>7, <1>12, <1>17, <1>18, <1>19 DEF j
  <2> DEFINE t == Drop(s, p)
  <2>2. t \in Seq(Nat) /\ Len(t) = Len(s) - p /\ \A i \in 1 .. Len(s) - p : t[i] = s[p + i]
    BY <1>3, <1>12, DropMeans
  <2> HIDE DEF t
  <2>3. Len(t) = Len(c) /\ Len(s) - p = HeaderLen
    BY <1>1, <1>3, <2>1, <2>2
  <2>4. \A i \in 1 .. Len(t) : t[i] = c[i]
    BY <1>1, <1>5, <2>1, <2>2, <2>3
  <2>5. t = c
    BY <1>1, <2>2, <2>3, <2>4, SeqEqual
  <2> QED BY <1>2, <2>5 DEF t
<1>20. ASSUME ~(n <= MaxPayload) PROVE Silent(Feed(b, c).buf)
  <2>1. \A i \in p + 1 .. Len(s) : i \in 1 .. Len(s) /\ i # j
    BY <1>3, <1>7, <1>12, <1>17, <1>20
  <2>2. \A i \in p + 1 .. Len(s) : s[i] # Magic[1]
    BY <1>6, <2>1 DEF j
  <2>3. Silent(Drop(s, p))
    BY <1>3, <1>12, <2>2, SilentRest
  <2> QED BY <1>2, <2>3
<1> QED BY <1>14, <1>15, <1>19, <1>20 DEF c

----------------------------------------------------------------------------
(* The theorems of the USB stream *)

\* The reader has heard what it can take of the first n packets.
Heard(n) ==
    /\ Len(heard) = Cardinality(Fitting(n))
    /\ \A k \in Fitting(n) : heard[Cardinality(Fitting(k))] = Payload(k)

Announced == packets[Len(packets)]

UsbTypes ==
    /\ packets \in Seq(Sizes) /\ pending \in BOOLEAN
    /\ held \in Seq(Nat) /\ heard \in Seq(Seq(Nat))
    /\ clean \in Int
    /\ pending => -1 <= clean /\ clean + 1 <= Len(packets)
    /\ ~pending => 0 <= clean /\ clean <= Len(packets)
    /\ pending => Len(packets) # 0

\* Nothing has disturbed the stream.
InStep ==
    /\ ~pending /\ clean = Len(packets) => Heard(Len(packets)) /\ Silent(held)
    /\ pending /\ clean + 1 = Len(packets) =>
         /\ Heard(clean)
         /\ Announced <= MaxPayload => held = Header(Announced)
         /\ ~(Announced <= MaxPayload) => Silent(held)

\* A frame that the reader was told to wait for has grown by every packet that
\* was written since the disturbance.
Growing ==
    /\ Silent(held) \/ Waits(held)
    /\ ~pending => Silent(held) \/ Len(held) >= HeaderLen + clean * (HeaderLen + 1)
    /\ pending /\ clean >= 0 =>
         \/ Silent(held)
         \/ held = Header(Announced)
         \/ Len(held) >= HeaderLen + HeaderLen + clean * (HeaderLen + 1)

UsbInv == UsbTypes /\ InStep /\ Growing

----------------------------------------------------------------------------
(* What has been heard *)

\* Packets that a reader takes can be counted.
LEMMA FittingFinite ==
  ASSUME NEW n \in Nat
  PROVE  IsFiniteSet(Fitting(n)) /\ Cardinality(Fitting(n)) \in Nat
<1>1. IsFiniteSet(1 .. n)
  BY FS_Interval
<1>2. Fitting(n) \subseteq 1 .. n
  BY DEF Fitting
<1> QED BY <1>1, <1>2, FS_Subset, FS_CardinalityType

\* A new packet takes nothing away from what was heard.
LEMMA HeardKept ==
  ASSUME NEW m \in Nat, m <= Len(packets), packets \in Seq(Sizes), heard' = heard, Heard(m),
         packets' = packets \/ \E n \in Sizes : packets' = Append(packets, n)
  PROVE  Heard(m)'
<1>1. \A k \in 1 .. m : packets'[k] = packets[k]
  <2>1. Len(packets) \in Nat /\ \A k \in 1 .. m : k \in 1 .. Len(packets)
    BY LenProperties
  <2>2. \A n \in Sizes : \A k \in 1 .. Len(packets) : Append(packets, n)[k] = packets[k]
    BY AppendProperties
  <2> QED BY <2>1, <2>2
<1>2. \A k \in 0 .. m : Fitting(k)' = Fitting(k)
  <2>1. ASSUME NEW k \in 0 .. m PROVE Fitting(k)' = Fitting(k)
    <3>1. \A i \in 1 .. k : packets'[i] = packets[i]
      BY <1>1
    <3> QED BY <3>1 DEF Fitting
  <2> QED BY <2>1
<1>3. \A k \in 1 .. m : Payload(k)' = Payload(k)
  BY <1>1 DEF Payload
<1>4. Fitting(m)' = Fitting(m) /\ \A k \in Fitting(m) : k \in 1 .. m /\ k \in 0 .. m
  BY <1>2 DEF Fitting
<1>5. ASSUME NEW k \in Fitting(m) PROVE heard'[Cardinality(Fitting(k)')] = Payload(k)'
  <2>1. Fitting(k)' = Fitting(k) /\ Payload(k)' = Payload(k)
    BY <1>2, <1>3, <1>4
  <2>2. heard[Cardinality(Fitting(k))] = Payload(k)
    BY DEF Heard
  <2> QED BY <2>1, <2>2
<1>6. Len(heard') = Cardinality(Fitting(m)')
  BY <1>4 DEF Heard
<1> QED BY <1>4, <1>5, <1>6 DEF Heard

\* A packet that is too long for the reader.
LEMMA HeardLong ==
  ASSUME NEW m \in Nat, ~(packets[m + 1] <= MaxPayload), Heard(m)
  PROVE  Heard(m + 1)
<1>1. ASSUME NEW k PROVE k \in Fitting(m + 1) <=> k \in Fitting(m)
  <2>1. k \in 1 .. m + 1 <=> k \in 1 .. m \/ k = m + 1
    OBVIOUS
  <2>2. k \in 1 .. m => k # m + 1
    OBVIOUS
  <2> QED BY <2>1, <2>2 DEF Fitting
<1>2. Fitting(m + 1) = Fitting(m)
  BY <1>1
<1> QED BY <1>2 DEF Heard

\* A payload that is heard when it is due.
LEMMA HeardNext ==
  ASSUME NEW m \in Nat, packets[m + 1] <= MaxPayload, Heard(m), heard \in Seq(Seq(Nat)),
         Payload(m + 1) \in Seq(Nat),
         packets' = packets, heard' = heard \o <<Payload(m + 1)>>
  PROVE  Heard(m + 1)'
<1> DEFINE x == Payload(m + 1)
           F == Fitting(m)
           y == <<x>>
           S == Seq(Nat)
<1>1. \A k : Fitting(k)' = Fitting(k) /\ Payload(k)' = Payload(k)
  BY DEF Fitting, Payload
<1>2. Fitting(m + 1) = F \cup {m + 1} /\ m + 1 \notin F
  <2>1. ASSUME NEW k PROVE k \in Fitting(m + 1) <=> k \in F \/ k = m + 1
    <3>1. k \in 1 .. m + 1 <=> k \in 1 .. m \/ k = m + 1
      OBVIOUS
    <3> QED BY <3>1 DEF Fitting
  <2>2. m + 1 \notin 1 .. m
    OBVIOUS
  <2>3. m + 1 \notin F
    BY <2>2 DEF Fitting
  <2> QED BY <2>1, <2>3
<1>3. IsFiniteSet(F) /\ Cardinality(F) \in Nat /\ Len(heard) = Cardinality(F)
  BY FittingFinite DEF Heard
<1>4. Cardinality(Fitting(m + 1)) = Cardinality(F) + 1
  <2> HIDE DEF F
  <2> QED BY <1>2, <1>3, FS_AddElement
<1>5. y \in Seq(S) /\ Len(y) = 1 /\ y[1] = x
  <2>1. x \in S
    OBVIOUS
  <2> HIDE DEF x, S
  <2> QED BY <2>1
<1>6. heard \in Seq(S)
  OBVIOUS
<1> HIDE DEF y, S
<1> DEFINE h == heard \o y
<1>7. /\ Len(h) = Len(heard) + Len(y)
      /\ \A i \in 1 .. Len(heard) + Len(y) : h[i] = IF i <= Len(heard) THEN heard[i] ELSE y[i - Len(heard)]
  BY <1>5, <1>6, ConcatProperties
<1>8. heard' = h
  BY DEF y
<1> HIDE DEF h
<1>9. Len(h) = Cardinality(F) + 1 /\ \A i \in 1 .. Cardinality(F) : h[i] = heard[i]
  <2>1. Len(heard) + Len(y) = Cardinality(F) + 1
    BY <1>3, <1>5
  <2>2. \A i \in 1 .. Cardinality(F) : i \in 1 .. Cardinality(F) + 1 /\ i <= Len(heard)
    BY <1>3
  <2> QED BY <1>7, <2>1, <2>2
<1>10. h[Cardinality(F) + 1] = x
  <2> DEFINE g == Cardinality(F) + 1
  <2>1. g \in 1 .. Len(heard) + Len(y) /\ ~(g <= Len(heard)) /\ g - Len(heard) = 1
    BY <1>3, <1>5
  <2> HIDE DEF g
  <2>2. h[g] = y[g - Len(heard)]
    BY <1>7, <2>1
  <2> QED BY <1>5, <2>1, <2>2 DEF g
<1>11. ASSUME NEW k \in Fitting(m + 1) PROVE h[Cardinality(Fitting(k))] = Payload(k)
  <2>1. CASE k = m + 1
    BY <1>4, <1>10, <2>1
  <2>2. CASE k \in F
    <3>1. k \in 1 .. m /\ k \in Nat /\ k \in Fitting(k)
      BY <2>2 DEF Fitting
    <3>2. Fitting(k) \subseteq F
      BY <3>1 DEF Fitting
    <3>3. Cardinality(Fitting(k)) <= Cardinality(F)
      BY <1>3, <3>2, FS_Subset
    <3>4. Cardinality(Fitting(k)) \in Nat /\ Cardinality(Fitting(k)) # 0
      BY <3>1, FittingFinite, FS_EmptySet
    <3>5. Cardinality(Fitting(k)) \in 1 .. Cardinality(F)
      BY <1>3, <3>3, <3>4
    <3>6. heard[Cardinality(Fitting(k))] = Payload(k)
      BY <2>2 DEF Heard
    <3> QED BY <1>9, <3>5, <3>6
  <2> QED BY <1>2, <2>1, <2>2
<1>12. Len(h) = Cardinality(Fitting(m + 1))
  BY <1>4, <1>9
<1> HIDE DEF F, x
<1>13. Len(heard') = Cardinality(Fitting(m + 1)')
  BY <1>1, <1>8, <1>12
<1>14. ASSUME NEW k \in Fitting(m + 1)' PROVE heard'[Cardinality(Fitting(k)')] = Payload(k)'
  BY <1>1, <1>8, <1>11
<1> QED BY <1>13, <1>14 DEF Heard

----------------------------------------------------------------------------
(* What the device writes *)

\* The assumptions on the stream, for the lemmas below.
LEMMA UsbFacts ==
    /\ Sizes \subseteq Nat /\ \A n \in Sizes : n \in Nat /\ n # 0 /\ n # Magic[1]
    /\ Magic[1] \in Nat /\ Magic[1] < Text /\ Text \in Nat
    /\ HeaderLen \in Nat /\ HeaderLen >= 2 /\ MaxPayload \in Nat
<1>1. 1 \in 1 .. Len(Magic)
  BY WireTypes
<1> QED BY <1>1, UsbAssumption, WireTypes DEF Text

\* A header begins one magic and no second one.
LEMMA HeaderIsCalm ==
  ASSUME NEW n \in Sizes
  PROVE  /\ Header(n) \in Seq(Nat) /\ Len(Header(n)) = HeaderLen
         /\ \A i \in 2 .. Len(Header(n)) : Header(n)[i] # Magic[1]
         /\ ~Silent(Header(n))
         /\ Ends(Header(n), 1) = HeaderLen + 1 + n
         /\ n <= MaxPayload => Waits(Header(n))
<1> DEFINE c == Header(n)
<1>1. n \in Nat /\ n # 0 /\ n # Magic[1]
  BY UsbFacts
<1>2. c \in Seq(Nat) /\ Len(c) = HeaderLen /\ c[HeaderLen] = n /\ \A k \in 1 .. Len(Magic) : c[k] = Magic[k]
  BY <1>1, HeaderMeans
<1>3. Len(Magic) \in Nat /\ 1 <= Len(Magic) /\ HeaderLen = Len(Magic) + 1 /\ MaxPayload \in Nat
  BY WireTypes
<1> HIDE DEF c
<1>4. ASSUME NEW i \in 2 .. Len(c) PROVE c[i] # Magic[1]
  <2>1. CASE i = HeaderLen
    BY <1>1, <1>2, <2>1
  <2>2. CASE i # HeaderLen
    <3>1. i \in 2 .. Len(Magic) /\ i \in 1 .. Len(Magic)
      BY <1>2, <1>3, <2>2
    <3> QED BY <1>2, <3>1, WireAssumption
  <2> QED BY <2>1, <2>2
<1>5. ~Silent(c)
  <2>1. 1 \in 1 .. Len(c) /\ 1 \in 1 .. Len(Magic)
    BY <1>2, <1>3
  <2> QED BY <1>2, <2>1 DEF Silent
<1>6. Ends(c, 1) = HeaderLen + 1 + n
  <2>1. 1 + HeaderLen - 1 = HeaderLen
    BY <1>3
  <2>2. Ends(c, 1) = 1 + HeaderLen + n
    BY <1>2, <2>1 DEF Ends
  <2> QED BY <1>1, <1>3, <2>2
<1>7. 1 \in MagicAt(c)
  <2>1. 1 \in 1 .. Len(c) - Len(Magic) + 1 /\ \A k \in 1 .. Len(Magic) : 1 + k - 1 = k
    BY <1>2, <1>3
  <2>2. \A k \in 1 .. Len(Magic) : c[1 + k - 1] = Magic[k]
    BY <1>2, <2>1
  <2> QED BY <1>2, <2>1, <2>2, MagicMeans
<1>8. ASSUME n <= MaxPayload PROVE Waits(c)
  <2>1. Ends(c, 1) > Len(c) + 1 /\ HeaderLen <= Len(c)
    BY <1>1, <1>2, <1>3, <1>6
  <2> QED BY <1>2, <1>7, <1>8, <2>1 DEF Waits
<1> QED BY <1>2, <1>4, <1>5, <1>6, <1>8 DEF c

\* A reader that waits for a frame holds a magic.
LEMMA SilentDoesNotWait ==
  ASSUME NEW s \in Seq(Nat), Silent(s)
  PROVE  ~Waits(s)
BY SilentHasNoMagic DEF Waits

\* No payload begins a magic.
LEMMA PayloadIsCalm ==
  ASSUME packets \in Seq(Sizes), NEW m \in 1 .. Len(packets)
  PROVE  /\ packets[m] \in Sizes /\ Payload(m) \in Seq(Nat) /\ Len(Payload(m)) = packets[m]
         /\ Silent(Payload(m))
<1>1. packets[m] \in Sizes /\ m \in Nat /\ Len(packets) \in Nat
  BY ElementOfSeq, LenProperties
<1>2. packets[m] \in Nat /\ Magic[1] \in Nat /\ Magic[1] < 99
  BY <1>1, UsbFacts DEF Text
<1> DEFINE z == packets[m]
           f == [i \in 1 .. z |-> 100 + m]
<1>3. z \in Nat /\ 100 + m \in Nat /\ 100 + m # Magic[1]
  BY <1>1, <1>2
<1> HIDE DEF z
<1>4. f \in Seq(Nat) /\ Len(f) = z
  BY <1>3
<1>5. \A i \in 1 .. Len(f) : f[i] # Magic[1]
  BY <1>3, <1>4
<1>6. Payload(m) = f
  BY DEF Payload, z
<1> HIDE DEF f
<1> QED BY <1>1, <1>4, <1>5, <1>6 DEF Silent, z

\* No text begins a magic.
LEMMA TextIsCalm == <<Text>> \in Seq(Nat) /\ Silent(<<Text>>) /\ Len(<<Text>>) = 1
<1>1. Text \in Nat /\ Text # Magic[1]
  BY UsbFacts
<1> HIDE DEF Text
<1> QED BY <1>1 DEF Silent

----------------------------------------------------------------------------
(* Every write keeps the invariant *)

\* Numbers of k + 1 packets.
LEMMA Product ==
  ASSUME NEW k \in Int, NEW h \in Int
  PROVE  (k + 1) * h = k * h + h /\ k * h \in Int /\ 0 * h = 0
OBVIOUS

\* The invariant at the beginning.
LEMMA UsbInitInv == UsbInit => UsbInv
<1> SUFFICES ASSUME UsbInit PROVE UsbInv
  OBVIOUS
<1>1. packets = <<>> /\ pending = FALSE /\ held = <<>> /\ heard = <<>> /\ clean = 0
  BY DEF UsbInit
<1>2. Len(<<>>) = 0 /\ <<>> \in Seq(Sizes) /\ <<>> \in Seq(Nat) /\ <<>> \in Seq(Seq(Nat))
  BY EmptySeq
<1>3. UsbTypes
  <2>1. packets \in Seq(Sizes) /\ held \in Seq(Nat) /\ heard \in Seq(Seq(Nat))
    BY <1>1, <1>2
  <2>2. Len(packets) = 0
    BY <1>1, <1>2
  <2>3. pending \in BOOLEAN /\ ~pending
    BY <1>1
  <2>4. clean \in Int /\ 0 <= clean /\ clean <= Len(packets)
    BY <1>1, <2>2
  <2> QED BY <2>1, <2>3, <2>4 DEF UsbTypes
<1>4. Silent(held)
  BY <1>1, <1>2 DEF Silent
<1>5. Heard(Len(packets))
  <2>1. Fitting(0) = {}
    BY DEF Fitting
  <2>2. Cardinality(Fitting(0)) = 0
    BY <2>1, FS_EmptySet
  <2>3. Heard(0)
    BY <1>1, <1>2, <2>1, <2>2 DEF Heard
  <2> QED BY <1>1, <1>2, <2>3
<1>6. InStep
  BY <1>1, <1>4, <1>5 DEF InStep
<1>7. Growing
  BY <1>1, <1>4 DEF Growing
<1> QED BY <1>3, <1>6, <1>7 DEF UsbInv

\* Heard of the new value of clean.
LEMMA HeardAt == ASSUME NEW k, clean' = k, Heard(k)' PROVE Heard(clean)'
BY DEF Heard, Fitting

\* The header of a packet.
LEMMA HeaderKeeps == ASSUME UsbInv, PublishHeader PROVE UsbInv'
<1>1. /\ packets \in Seq(Sizes) /\ held \in Seq(Nat) /\ heard \in Seq(Seq(Nat)) /\ clean \in Int
      /\ 0 <= clean /\ clean <= Len(packets) /\ ~pending
  BY DEF UsbInv, UsbTypes, PublishHeader
<1>2. pending' = TRUE
  BY DEF PublishHeader
<1>3. PICK n \in Sizes : packets' = Append(packets, n) /\ Write(Header(n), clean)
  BY DEF PublishHeader
<1> DEFINE m == Len(packets)
           c == Header(n)
<1>4. /\ packets' \in Seq(Sizes) /\ Len(packets') = m + 1 /\ m \in Nat /\ packets'[m + 1] = n
  BY <1>1, <1>3, AppendProperties, LenProperties
<1>5. Announced' = n
  BY <1>4 DEF Announced
<1>6. /\ n \in Nat /\ n # 0 /\ n # Magic[1] /\ MaxPayload \in Nat /\ HeaderLen \in Nat /\ HeaderLen >= 2
  BY UsbFacts
<1>7. /\ c \in Seq(Nat) /\ Len(c) = HeaderLen /\ (\A i \in 2 .. Len(c) : c[i] # Magic[1])
      /\ ~Silent(c) /\ (n <= MaxPayload => Waits(c))
  BY HeaderIsCalm
<1> HIDE DEF c
<1>8. CASE Stalls /\ UNCHANGED <<held, heard>> /\ clean' = IF pending' THEN -1 ELSE 0
  <2>1. held' = held /\ heard' = heard /\ clean' = -1
    BY <1>2, <1>8
  <2>2. UsbTypes'
    BY <1>1, <1>2, <1>4, <2>1 DEF UsbTypes
  <2>3. InStep'
    <3>1. ~(clean' + 1 = Len(packets'))
      BY <1>4, <2>1
    <3> QED BY <1>2, <3>1 DEF InStep
  <2>4. Growing'
    <3>1. Silent(held)' \/ Waits(held)'
      BY <2>1 DEF UsbInv, Growing, Silent, Waits
    <3>2. ~(clean' >= 0)
      BY <2>1
    <3> QED BY <1>2, <3>1, <3>2 DEF Growing
  <2> QED BY <2>2, <2>3, <2>4 DEF UsbInv
<1>9. CASE Written(c) /\ clean' = clean
  <2>1. held' = Feed(held, c).buf /\ heard' = heard \o Feed(held, c).frames /\ clean' = clean
    BY <1>9 DEF Written
  <2>2. CASE Silent(held)
    <3>1. /\ Feed(held, c).frames = <<>> /\ Feed(held, c).buf \in Seq(Nat)
          /\ n <= MaxPayload => Feed(held, c).buf = c
          /\ ~(n <= MaxPayload) => Silent(Feed(held, c).buf)
      BY <1>1, <1>6, <2>2, HeaderFeeds DEF c
    <3>2. heard' = heard /\ held' \in Seq(Nat)
      BY <1>1, <2>1, <3>1, ConcatEmptySeq
    <3>3. UsbTypes'
      BY <1>1, <1>2, <1>4, <2>1, <3>2 DEF UsbTypes
    <3>4. n <= MaxPayload => held' = c
      BY <2>1, <3>1
    <3>5. ~(n <= MaxPayload) => Silent(held')
      BY <2>1, <3>1
    <3>6. InStep'
      <4>1. SUFFICES ASSUME clean' + 1 = Len(packets') PROVE Heard(clean)'
        BY <1>2, <1>5, <3>4, <3>5 DEF InStep, c
      <4>2. clean = m
        BY <1>1, <1>4, <2>1, <4>1
      <4>3. PICK k \in Nat : k = clean
        BY <1>4, <4>2
      <4>4. k <= Len(packets) /\ Heard(k)
        BY <1>1, <4>2, <4>3 DEF UsbInv, InStep
      <4>5. Heard(k)'
        BY <1>1, <1>3, <3>2, <4>4, HeardKept
      <4> QED BY <2>1, <4>3, <4>5, HeardAt
    <3>7. Growing'
      <4>1. n <= MaxPayload => Waits(held') /\ held' = Header(Announced')
        BY <1>5, <1>7, <3>4 DEF c
      <4> QED BY <1>2, <3>5, <4>1 DEF Growing
    <3> QED BY <3>3, <3>6, <3>7 DEF UsbInv
  <2>3. CASE ~Silent(held)
    <3>1. Waits(held)
      BY <2>3 DEF UsbInv, Growing
    <3>2. \/ /\ Feed(held, c).buf = held \o c /\ Waits(held \o c) /\ Feed(held, c).frames = <<>>
          \/ /\ Silent(Feed(held, c).buf) /\ Feed(held, c).buf \in Seq(Nat)
             /\ Feed(held, c).frames = <<SubSeq(held \o c, HeaderLen + 1, Ends(held, 1) - 1)>>
      BY <1>1, <1>7, <3>1, WaitingFeeds
    <3>3. held \o c \in Seq(Nat) /\ Len(held \o c) = Len(held) + HeaderLen /\ Len(held) \in Nat
      BY <1>1, <1>7, LongerStream
    <3>4. Feed(held, c).frames \in Seq(Seq(Nat))
      BY <1>1, <1>7, FeedFinds
    <3>5. held' \in Seq(Nat) /\ heard' \in Seq(Seq(Nat))
      BY <1>1, <2>1, <3>2, <3>3, <3>4, ConcatProperties
    <3>6. UsbTypes'
      BY <1>1, <1>2, <1>4, <2>1, <3>5 DEF UsbTypes
    <3>7. InStep'
      <4>1. ~(clean = m)
        BY <1>1, <2>3 DEF UsbInv, InStep
      <4>2. ~(clean' + 1 = Len(packets'))
        BY <1>1, <1>4, <2>1, <4>1
      <4> QED BY <1>2, <4>2 DEF InStep
    <3>8. Growing'
      <4>1. Len(held) >= HeaderLen + clean * (HeaderLen + 1)
        BY <1>1, <2>3 DEF UsbInv, Growing
      <4>2. clean * (HeaderLen + 1) \in Int
        BY <1>1, <1>6
      <4> DEFINE w == clean * (HeaderLen + 1)
      <4>3. w \in Int /\ Len(held) >= HeaderLen + w
        BY <4>1, <4>2
      <4>4. clean' * (HeaderLen + 1) = w
        BY <2>1
      <4> HIDE DEF w
      <4>5. Len(held \o c) >= HeaderLen + HeaderLen + w
        BY <1>6, <3>3, <4>3
      <4>6. CASE held' = held \o c /\ Waits(held \o c)
        BY <1>2, <4>4, <4>5, <4>6 DEF Growing
      <4>7. CASE Silent(held')
        BY <1>2, <4>7 DEF Growing
      <4> QED BY <2>1, <3>2, <4>6, <4>7
    <3> QED BY <3>6, <3>7, <3>8 DEF UsbInv
  <2> QED BY <2>2, <2>3
<1> QED BY <1>3, <1>8, <1>9 DEF Write, c

\* The second part of two.
LEMMA SubSeqBehind ==
  ASSUME NEW b \in Seq(Nat), NEW c \in Seq(Nat)
  PROVE  SubSeq(b \o c, Len(b) + 1, Len(b) + Len(c)) = c
<1> DEFINE s == b \o c
           v == SubSeq(s, Len(b) + 1, Len(b) + Len(c))
<1>1. /\ s \in Seq(Nat) /\ Len(s) = Len(b) + Len(c) /\ Len(b) \in Nat /\ Len(c) \in Nat
      /\ \A i \in 1 .. Len(b) + Len(c) : s[i] = IF i <= Len(b) THEN b[i] ELSE c[i - Len(b)]
  BY ConcatProperties, LenProperties
<1>2. v = Drop(s, Len(b))
  BY <1>1 DEF Drop
<1> HIDE DEF s, v
<1>3. Len(b) \in 0 .. Len(s)
  BY <1>1
<1>4. v \in Seq(Nat) /\ Len(v) = Len(s) - Len(b) /\ \A i \in 1 .. Len(s) - Len(b) : v[i] = s[Len(b) + i]
  BY <1>1, <1>2, <1>3, DropMeans
<1>5. Len(v) = Len(c)
  BY <1>1, <1>4
<1>6. ASSUME NEW i \in 1 .. Len(v) PROVE v[i] = c[i]
  <2>1. PICK g \in Int : g = Len(b) + i
    BY <1>1
  <2>2. g \in 1 .. Len(b) + Len(c) /\ ~(g <= Len(b)) /\ g - Len(b) = i /\ i \in 1 .. Len(s) - Len(b)
    BY <1>1, <1>4, <2>1
  <2>3. s[g] = c[i]
    BY <1>1, <2>2
  <2> QED BY <1>4, <2>1, <2>2, <2>3
<1>7. v = c
  BY <1>4, <1>5, <1>6, SeqEqual
<1> QED BY <1>7 DEF v, s

\* The payload.
LEMMA PayloadKeeps == ASSUME UsbInv, PublishPayload PROVE UsbInv'
<1>1. /\ packets \in Seq(Sizes) /\ held \in Seq(Nat) /\ heard \in Seq(Seq(Nat)) /\ clean \in Int
      /\ -1 <= clean /\ clean + 1 <= Len(packets) /\ Len(packets) # 0 /\ pending
  BY DEF UsbInv, UsbTypes, PublishPayload
<1>2. pending' = FALSE /\ packets' = packets /\ Write(Payload(Len(packets)), clean + 1)
  BY DEF PublishPayload
<1> DEFINE m == Len(packets)
           c == Payload(m)
           n == packets[m]
<1>3. m \in 1 .. Len(packets) /\ m \in Nat
  BY <1>1, LenProperties
<1>4. n \in Sizes /\ c \in Seq(Nat) /\ Len(c) = n /\ Silent(c)
  BY <1>1, <1>3, PayloadIsCalm
<1>5. Announced = n
  BY DEF Announced
<1>6. n \in Nat /\ n # 0 /\ MaxPayload \in Nat /\ HeaderLen \in Nat /\ HeaderLen >= 2
  BY <1>4, UsbFacts
<1>7. /\ Header(n) \in Seq(Nat) /\ Len(Header(n)) = HeaderLen /\ ~Silent(Header(n))
      /\ Ends(Header(n), 1) = HeaderLen + 1 + n
  BY <1>4, HeaderIsCalm
<1>8. \A i \in 2 .. Len(c) : c[i] # Magic[1]
  <2>1. \A i \in 2 .. Len(c) : i \in 1 .. Len(c)
    OBVIOUS
  <2> QED BY <1>4, <2>1 DEF Silent
<1> HIDE DEF c, n
<1>9. ASSUME Silent(held)' PROVE Growing'
  BY <1>2, <1>9 DEF Growing
<1>10. CASE Stalls /\ UNCHANGED <<held, heard>> /\ clean' = IF pending' THEN -1 ELSE 0
  <2>1. held' = held /\ heard' = heard /\ clean' = 0
    BY <1>2, <1>10
  <2>2. UsbTypes'
    <3>1. clean' \in Int /\ 0 <= clean' /\ clean' <= Len(packets')
      BY <1>2, <1>3, <2>1
    <3>2. packets' \in Seq(Sizes) /\ held' \in Seq(Nat) /\ heard' \in Seq(Seq(Nat))
      BY <1>1, <1>2, <2>1
    <3>3. pending' \in BOOLEAN /\ ~pending'
      BY <1>2
    <3> QED BY <3>1, <3>2, <3>3 DEF UsbTypes
  <2>3. InStep'
    <3>1. ~(clean' = Len(packets'))
      BY <1>1, <1>2, <2>1
    <3> QED BY <1>2, <3>1 DEF InStep
  <2>4. Growing'
    <3>1. CASE Silent(held)
      BY <1>9, <2>1, <3>1 DEF Silent
    <3>2. CASE Waits(held)
      <4>1. Waits(held)' /\ Len(held') >= HeaderLen
        BY <1>1, <1>6, <2>1, <3>2 DEF Waits
      <4>2. clean' * (HeaderLen + 1) = 0
        BY <1>6, <2>1, Product
      <4>3. Len(held') >= HeaderLen + clean' * (HeaderLen + 1)
        BY <1>6, <4>1, <4>2
      <4> QED BY <1>2, <4>1, <4>3 DEF Growing
    <3> QED BY <3>1, <3>2 DEF UsbInv, Growing
  <2> QED BY <2>2, <2>3, <2>4 DEF UsbInv
<1>11. CASE Written(c) /\ clean' = clean + 1
  <2>1. held' = Feed(held, c).buf /\ heard' = heard \o Feed(held, c).frames /\ clean' = clean + 1
    BY <1>11 DEF Written
  <2>2. Feed(held, c).frames \in Seq(Seq(Nat))
    BY <1>1, <1>4, FeedFinds
  <2>3. heard' \in Seq(Seq(Nat))
    BY <1>1, <2>1, <2>2, ConcatProperties
  <2>4. ASSUME held' \in Seq(Nat) PROVE UsbTypes'
    <3>1. clean' \in Int /\ 0 <= clean' /\ clean' <= Len(packets')
      BY <1>1, <1>2, <2>1
    <3>2. packets' \in Seq(Sizes)
      BY <1>1, <1>2
    <3>3. pending' \in BOOLEAN /\ ~pending'
      BY <1>2
    <3> QED BY <2>3, <2>4, <3>1, <3>2, <3>3 DEF UsbTypes
  <2>5. PICK k \in Nat : k = clean \/ clean = -1
    <3>1. 0 \in Nat
      OBVIOUS
    <3>2. clean \in Nat \/ clean = -1
      BY <1>1
    <3> QED BY <3>1, <3>2
  <2>6. ASSUME clean' = Len(packets')
        PROVE  /\ Heard(k) /\ k + 1 = m /\ k + 1 = clean'
               /\ n <= MaxPayload => held = Header(n)
               /\ ~(n <= MaxPayload) => Silent(held)
    <3>1. clean + 1 = m /\ clean = k /\ k + 1 = m
      BY <1>1, <1>2, <1>3, <2>1, <2>5, <2>6
    <3>2. Heard(clean)
      BY <1>1, <3>1 DEF UsbInv, InStep
    <3> QED BY <1>1, <1>5, <2>1, <3>1, <3>2 DEF UsbInv, InStep
  <2>7. ASSUME clean' = Len(packets'), Heard(k + 1)', Silent(held)' PROVE InStep'
    <3>1. k + 1 = clean'
      BY <2>6, <2>7
    <3>2. Heard(clean)'
      <4>1. PICK i : i = k + 1
        OBVIOUS
      <4>2. Heard(i)' /\ clean' = i
        BY <2>7, <3>1, <4>1
      <4> QED BY <4>2, HeardAt
    <3>3. Heard(Len(packets))'
      BY <2>7, <3>2 DEF Heard, Fitting
    <3> QED BY <1>2, <2>7, <3>3 DEF InStep
  <2>8. ~(clean' = Len(packets')) => InStep'
    BY <1>2 DEF InStep
  <2>9. CASE Silent(held)
    <3>1. Silent(Feed(held, c).buf) /\ Feed(held, c).frames = <<>> /\ Feed(held, c).buf \in Seq(Nat)
      BY <1>1, <1>4, <2>9, NoiseFeeds
    <3>2. heard' = heard /\ held' \in Seq(Nat) /\ Silent(held)'
      BY <1>1, <2>1, <3>1, ConcatEmptySeq DEF Silent
    <3>3. ASSUME clean' = Len(packets') PROVE InStep'
      <4>1. ~(n <= MaxPayload)
        BY <1>7, <2>6, <2>9, <3>3
      <4>2. Heard(k) /\ ~(packets[k + 1] <= MaxPayload) /\ k + 1 = m
        BY <2>6, <3>3, <4>1 DEF n
      <4>3. Heard(k + 1)
        BY <4>2, HeardLong
      <4>4. Heard(k + 1)'
        BY <1>2, <3>2, <4>3 DEF Heard, Fitting, Payload
      <4> QED BY <2>7, <3>2, <3>3, <4>4
    <3> QED BY <1>9, <2>4, <2>8, <3>2, <3>3 DEF UsbInv
  <2>10. CASE Waits(held)
    <3>1. /\ ~Silent(held) /\ Len(held) \in Nat
      BY <1>1, <2>10, SilentDoesNotWait, LenProperties
    <3>2. CASE /\ Ends(held, 1) > Len(held) + Len(c) + 1
               /\ Feed(held, c).buf = held \o c /\ Waits(held \o c) /\ Feed(held, c).frames = <<>>
      <4>1. held' = held \o c /\ held \o c \in Seq(Nat) /\ Len(held \o c) = Len(held) + n /\ Waits(held)'
        BY <1>1, <1>4, <2>1, <3>2, LongerStream DEF Waits
      <4>2. held # Header(n)
        BY <1>4, <1>6, <1>7, <3>2
      <4>3. ~(clean' = Len(packets'))
        BY <2>6, <3>1, <4>2
      <4>4. Len(held') >= HeaderLen + clean' * (HeaderLen + 1)
        <5> DEFINE w == clean * (HeaderLen + 1)
                   w2 == clean' * (HeaderLen + 1)
        <5>1. CASE clean = -1
          <6>1. w2 = 0
            BY <1>6, <2>1, <5>1, Product
          <6>2. Len(held') >= HeaderLen
            BY <4>1 DEF Waits
          <6> HIDE DEF w2
          <6> QED BY <1>6, <6>1, <6>2 DEF w2
        <5>2. CASE clean >= 0
          <6>1. Len(held) >= HeaderLen + HeaderLen + w
            BY <1>1, <1>5, <3>1, <4>2, <5>2 DEF UsbInv, Growing
          <6>2. w2 = w + (HeaderLen + 1) /\ w \in Int
            BY <1>1, <1>6, <2>1, Product
          <6>3. Len(held') = Len(held) + n
            BY <4>1
          <6> HIDE DEF w, w2
          <6>4. Len(held') >= HeaderLen + w2
            BY <1>6, <3>1, <6>1, <6>2, <6>3
          <6> QED BY <6>4 DEF w2
        <5> QED BY <1>1, <5>1, <5>2
      <4>5. Growing'
        BY <1>2, <4>1, <4>4 DEF Growing
      <4> QED BY <2>4, <2>8, <4>1, <4>3, <4>5 DEF UsbInv
    <3>3. CASE /\ Ends(held, 1) <= Len(held) + Len(c) + 1
               /\ Silent(Feed(held, c).buf) /\ Feed(held, c).buf \in Seq(Nat)
               /\ Feed(held, c).frames = <<SubSeq(held \o c, HeaderLen + 1, Ends(held, 1) - 1)>>
      <4>1. held' \in Seq(Nat) /\ Silent(held)'
        BY <2>1, <3>3 DEF Silent
      <4>2. ASSUME clean' = Len(packets') PROVE InStep'
        <5>1. n <= MaxPayload /\ held = Header(n) /\ Heard(k) /\ k + 1 = m
          BY <2>6, <3>1, <4>2
        <5>2. SubSeq(held \o c, HeaderLen + 1, Ends(held, 1) - 1) = c
          <6>1. Ends(held, 1) - 1 = HeaderLen + n
            BY <1>6, <1>7, <5>1
          <6>2. SubSeq(Header(n) \o c, HeaderLen + 1, HeaderLen + n) = c
            BY <1>4, <1>6, <1>7, SubSeqBehind
          <6> QED BY <5>1, <6>1, <6>2
        <5>3. heard' = heard \o <<Payload(k + 1)>> /\ Payload(k + 1) \in Seq(Nat)
          BY <1>4, <2>1, <3>3, <5>1, <5>2 DEF c
        <5>4. packets[k + 1] <= MaxPayload
          BY <5>1 DEF n
        <5>5. Heard(k + 1)'
          BY <1>1, <1>2, <5>1, <5>3, <5>4, HeardNext
        <5> QED BY <2>7, <4>1, <4>2, <5>5
      <4> QED BY <1>9, <2>4, <2>8, <4>1, <4>2 DEF UsbInv
    <3> QED BY <1>1, <1>4, <1>8, <2>10, <3>2, <3>3, WaitingFeeds
  <2> QED BY <2>9, <2>10 DEF UsbInv, Growing
<1> QED BY <1>2, <1>10, <1>11 DEF Write, c

\* A line of text.
LEMMA TextKeeps == ASSUME UsbInv, WriteText PROVE UsbInv'
<1>1. /\ packets \in Seq(Sizes) /\ held \in Seq(Nat) /\ heard \in Seq(Seq(Nat)) /\ clean \in Int
      /\ pending \in BOOLEAN /\ Len(packets) \in Nat
      /\ pending => Len(packets) # 0
      /\ ~pending => 0 <= clean /\ clean <= Len(packets)
  BY LenProperties DEF UsbInv, UsbTypes
<1>2. pending' = pending /\ packets' = packets /\ Write(<<Text>>, IF pending THEN -1 ELSE clean)
  BY DEF WriteText
<1> DEFINE c == <<Text>>
<1>3. c \in Seq(Nat) /\ Silent(c) /\ Len(c) = 1
  BY TextIsCalm
<1>4. HeaderLen \in Nat /\ MaxPayload \in Nat
  BY UsbFacts
<1> HIDE DEF c
<1>5. ASSUME held' \in Seq(Nat), heard' \in Seq(Seq(Nat)),
             clean' = (IF pending THEN -1 ELSE clean) \/ clean' = (IF pending THEN -1 ELSE 0)
      PROVE  UsbTypes'
  <2>1. pending => clean' = -1
    BY <1>5
  <2>2. ~pending => clean' = clean \/ clean' = 0
    BY <1>5
  <2>3. packets' \in Seq(Sizes) /\ pending' \in BOOLEAN
    BY <1>1, <1>2
  <2>4. CASE pending
    <3>1. clean' \in Int /\ -1 <= clean' /\ clean' + 1 <= Len(packets') /\ Len(packets') # 0 /\ pending'
      BY <1>1, <1>2, <2>1, <2>4
    <3> QED BY <1>5, <2>3, <3>1 DEF UsbTypes
  <2>5. CASE ~pending
    <3>1. clean' \in Int /\ 0 <= clean' /\ clean' <= Len(packets') /\ ~pending'
      BY <1>1, <1>2, <2>2, <2>5
    <3> QED BY <1>5, <2>3, <3>1 DEF UsbTypes
  <2> QED BY <2>4, <2>5
<1>6. ASSUME pending, clean' = -1, Silent(held)' \/ Waits(held)' PROVE InStep' /\ Growing'
  <2>1. ~(clean' + 1 = Len(packets')) /\ ~(clean' >= 0)
    BY <1>1, <1>2, <1>6
  <2> QED BY <1>2, <1>6, <2>1 DEF InStep, Growing
<1>7. ASSUME ~pending, clean' = clean \/ clean' = 0, clean' = Len(packets')
      PROVE  clean = Len(packets) /\ Heard(Len(packets)) /\ Silent(held)
  <2>1. clean = Len(packets)
    BY <1>1, <1>2, <1>7
  <2> QED BY <1>7, <2>1 DEF UsbInv, InStep
<1>8. ASSUME ~pending, Silent(held)', heard' = heard, clean' = clean \/ clean' = 0 PROVE InStep'
  <2>1. SUFFICES ASSUME clean' = Len(packets') PROVE Heard(Len(packets))'
    BY <1>2, <1>8 DEF InStep
  <2>2. Heard(Len(packets))
    BY <1>7, <1>8, <2>1
  <2> QED BY <1>2, <1>8, <2>2 DEF Heard, Fitting, Payload
<1>9. ASSUME ~pending, Silent(held)' PROVE Growing'
  BY <1>2, <1>9 DEF Growing
<1>10. CASE Stalls /\ UNCHANGED <<held, heard>> /\ clean' = IF pending' THEN -1 ELSE 0
  <2>1. held' = held /\ heard' = heard /\ (pending => clean' = -1) /\ (~pending => clean' = 0)
    BY <1>2, <1>10
  <2>2. UsbTypes'
    BY <1>1, <1>2, <1>5, <1>10, <2>1
  <2>3. Silent(held)' \/ Waits(held)'
    BY <2>1 DEF UsbInv, Growing, Silent, Waits
  <2>4. CASE pending
    BY <1>6, <2>1, <2>2, <2>3, <2>4 DEF UsbInv
  <2>5. CASE ~pending /\ Silent(held)
    <3>1. Silent(held)'
      BY <2>1, <2>5 DEF Silent
    <3> QED BY <1>8, <1>9, <2>1, <2>2, <2>5, <3>1 DEF UsbInv
  <2>6. CASE ~pending /\ ~Silent(held)
    <3>1. Waits(held)' /\ Len(held') >= HeaderLen
      BY <2>1, <2>6 DEF UsbInv, Growing, Waits
    <3>2. ~(clean' = Len(packets'))
      BY <1>7, <2>1, <2>6
    <3>3. InStep'
      BY <1>2, <2>6, <3>2 DEF InStep
    <3>4. clean' * (HeaderLen + 1) = 0
      BY <1>4, <2>1, <2>6, Product
    <3>5. Len(held') >= HeaderLen + clean' * (HeaderLen + 1)
      BY <1>4, <3>1, <3>4
    <3>6. Growing'
      BY <1>2, <2>6, <3>1, <3>5 DEF Growing
    <3> QED BY <2>2, <3>3, <3>6 DEF UsbInv
  <2> QED BY <2>4, <2>5, <2>6
<1>11. CASE Written(c) /\ clean' = IF pending THEN -1 ELSE clean
  <2>1. held' = Feed(held, c).buf /\ heard' = heard \o Feed(held, c).frames
        /\ (pending => clean' = -1) /\ (~pending => clean' = clean)
    BY <1>11 DEF Written
  <2>2. Feed(held, c).frames \in Seq(Seq(Nat))
    BY <1>1, <1>3, FeedFinds
  <2>3. heard' \in Seq(Seq(Nat))
    BY <1>1, <2>1, <2>2, ConcatProperties
  <2>4. held' \in Seq(Nat) => UsbTypes'
    BY <1>5, <1>11, <2>3
  <2>5. CASE Silent(held)
    <3>1. Silent(Feed(held, c).buf) /\ Feed(held, c).frames = <<>> /\ Feed(held, c).buf \in Seq(Nat)
      BY <1>1, <1>3, <2>5, NoiseFeeds
    <3>2. heard' = heard /\ held' \in Seq(Nat) /\ Silent(held)'
      BY <1>1, <2>1, <3>1, ConcatEmptySeq DEF Silent
    <3>3. CASE pending
      BY <1>6, <2>1, <2>4, <3>2, <3>3 DEF UsbInv
    <3>4. CASE ~pending
      BY <1>8, <1>9, <2>1, <2>4, <3>2, <3>4 DEF UsbInv
    <3> QED BY <3>3, <3>4
  <2>6. CASE ~Silent(held)
    <3>1. Waits(held) /\ Len(held) \in Nat
      BY <1>1, <2>6, LenProperties DEF UsbInv, Growing
    <3>2. \A i \in 2 .. Len(c) : c[i] # Magic[1]
      BY <1>3
    <3>3. \/ Feed(held, c).buf = held \o c /\ Waits(held \o c)
          \/ Silent(Feed(held, c).buf) /\ Feed(held, c).buf \in Seq(Nat)
      BY <1>1, <1>3, <3>1, <3>2, WaitingFeeds
    <3>4. held \o c \in Seq(Nat) /\ Len(held \o c) = Len(held) + 1
      BY <1>1, <1>3, LongerStream
    <3>5. held' \in Seq(Nat) /\ (Silent(held)' \/ (Waits(held)' /\ held' = held \o c))
      BY <2>1, <3>3, <3>4 DEF Silent, Waits
    <3>6. CASE pending
      BY <1>6, <2>1, <2>4, <3>5, <3>6 DEF UsbInv
    <3>7. CASE ~pending
      <4>1. ~(clean' = Len(packets'))
        BY <1>7, <2>1, <2>6, <3>7
      <4>2. InStep'
        BY <1>2, <3>7, <4>1 DEF InStep
      <4>3. CASE Silent(held)'
        BY <1>9, <2>4, <3>5, <3>7, <4>2, <4>3 DEF UsbInv
      <4>4. CASE Waits(held)' /\ held' = held \o c
        <5> DEFINE w == clean * (HeaderLen + 1)
        <5>1. Len(held) >= HeaderLen + w /\ clean' * (HeaderLen + 1) = w
          BY <2>1, <2>6, <3>7 DEF UsbInv, Growing
        <5>2. w \in Int
          BY <1>1, <1>4
        <5> HIDE DEF w
        <5>3. Len(held') >= HeaderLen + clean' * (HeaderLen + 1)
          BY <1>4, <3>1, <3>4, <4>4, <5>1, <5>2
        <5>4. Growing'
          BY <1>2, <3>7, <4>4, <5>3 DEF Growing
        <5> QED BY <2>4, <3>5, <4>2, <5>4 DEF UsbInv
      <4> QED BY <3>5, <4>3, <4>4
    <3> QED BY <3>6, <3>7
  <2> QED BY <2>5, <2>6
<1> QED BY <1>2, <1>10, <1>11 DEF Write, c

\* Every write keeps the invariant.
LEMMA UsbStepInv == UsbInv /\ [UsbNext]_usbVars => UsbInv'
<1>1. ASSUME UsbInv, UNCHANGED usbVars PROVE UsbInv'
  <2>1. packets' = packets /\ pending' = pending /\ held' = held /\ heard' = heard /\ clean' = clean
    BY <1>1 DEF usbVars
  <2>2. Heard(Len(packets))' = Heard(Len(packets)) /\ Heard(clean)' = Heard(clean)
    BY <2>1 DEF Heard, Fitting, Payload
  <2>3. Announced' = Announced /\ Silent(held)' = Silent(held) /\ Waits(held)' = Waits(held)
    BY <2>1 DEF Announced, Silent, Waits
  <2>4. UsbTypes'
    BY <1>1, <2>1 DEF UsbInv, UsbTypes
  <2>5. InStep'
    BY <1>1, <2>1, <2>2, <2>3 DEF UsbInv, InStep
  <2>6. Growing'
    BY <1>1, <2>1, <2>3 DEF UsbInv, Growing
  <2> QED BY <2>4, <2>5, <2>6 DEF UsbInv
<1> QED BY <1>1, HeaderKeeps, PayloadKeeps, TextKeeps DEF UsbNext

\* The reader is in step, or waits for a frame that every further packet
\* brings nearer to its end.
THEOREM UsbInvariance == UsbSpec => []UsbInv
BY UsbInitInv, UsbStepInv, PTL DEF UsbSpec

\* As long as nothing disturbs the stream, every packet that is not too long for
\* the reader is heard, whole, once and in order.
THEOREM UsbHeardInFull == UsbSpec => []EveryPacketHeard
<1>1. UsbInv => EveryPacketHeard
  BY DEF UsbInv, InStep, Heard, EveryPacketHeard
<1> QED BY <1>1, UsbInvariance, PTL

\* Whatever was lost or came in between, the reader waits for nothing once it
\* has had as many undisturbed packets as the longest payload has room for.
THEOREM UsbBackInStep == UsbSpec => []Resync
<1>1. UsbInv => Resync
  <2> SUFFICES ASSUME UsbInv, clean * (HeaderLen + 1) >= MaxPayload, ~pending, ~Silent(held)
               PROVE  FALSE
    BY SilentHasNoMagic DEF Resync, UsbInv, UsbTypes
  <2>1. held \in Seq(Nat) /\ clean \in Int /\ Len(held) \in Nat
    BY LenProperties DEF UsbInv, UsbTypes
  <2>2. Len(held) >= HeaderLen + clean * (HeaderLen + 1) /\ Waits(held)
    BY DEF UsbInv, Growing
  <2>3. HeaderLen \in Nat /\ HeaderLen >= 2 /\ MaxPayload \in Nat
    BY UsbFacts
  <2>4. HeaderLen \in 1 .. Len(held) /\ 1 + HeaderLen - 1 = HeaderLen
    BY <2>1, <2>2, <2>3 DEF Waits
  <2> DEFINE z == held[HeaderLen]
             w == clean * (HeaderLen + 1)
  <2>5. z \in Nat /\ z <= MaxPayload
    BY <2>1, <2>2, <2>4, ElementOfSeq DEF Waits
  <2>6. 1 + HeaderLen + z > Len(held) + 1
    BY <2>2, <2>4 DEF Waits, Ends
  <2>7. w \in Int /\ w >= MaxPayload /\ Len(held) >= HeaderLen + w
    BY <2>1, <2>2, <2>3
  <2> HIDE DEF z, w
  <2> QED BY <2>1, <2>3, <2>5, <2>6, <2>7
<1> QED BY <1>1, UsbInvariance, PTL

----------------------------------------------------------------------------
(***************************************************************************)
(* PART IV: the BLE stream.                                                *)
(*                                                                         *)
(* For frames of any length, any depth of the queue and chunks longer than *)
(* a header: with the one reader that the app keeps for all connections,   *)
(* with connections that come and go, and with notifications that fail or  *)
(* are lost at any time, what the phone finds as it was captured comes in  *)
(* the order of capture and each at most once - the stream implements      *)
(* LossyFifo - and every frame that was forged costs a frame that broke    *)
(* off in the middle.                                                      *)
(*                                                                         *)
(* Between two steps the reader's buffer is in one of three states         *)
(* (Reading). It is noise (Silent); or it holds the beginning of the frame *)
(* underway, and what the writer has left completes it (Halfway); or it    *)
(* holds the beginning of a torn frame and will take other data for its    *)
(* end (Swallows), which is paid for: the forged frames are fewer than the *)
(* torn ones. BeginFeeds, LastFeeds and SwallowFeeds say what a chunk does *)
(* to the reader in each, LossKeeps what a missed chunk does. A forged     *)
(* payload is known by data of two frames (Mixed). The numbers of the      *)
(* frames found, of the frame underway and of the queue grow along the way *)
(* (Along), which is what LossyFifo asks.                                  *)
(***************************************************************************)

----------------------------------------------------------------------------
(* Frames in pieces *)

\* A whole frame stands at j, at the end of w, and nothing else in w begins one.
OnlyAt(w, j) ==
    /\ Whole(w, j) /\ Ends(w, j) = Len(w) + 1
    /\ \A i \in 1 .. Len(w) : i # j => w[i] # Magic[1]

\* It has the payload x.
Bears(w, x) == \E j : OnlyAt(w, j) /\ x = SubSeq(w, j + HeaderLen, Len(w))

\* The places of that frame.
LEMMA OnlyAtMeans ==
  ASSUME NEW w \in Seq(Nat), NEW j, OnlyAt(w, j)
  PROVE  /\ j \in Nat /\ j \in 1 .. Len(w) /\ Len(w) \in Nat /\ HeaderLen \in Nat
         /\ j + HeaderLen - 1 \in 1 .. Len(w) /\ j + HeaderLen <= Len(w) + 1
         /\ w[j + HeaderLen - 1] \in Nat /\ w[j + HeaderLen - 1] <= MaxPayload
         /\ j + HeaderLen + w[j + HeaderLen - 1] = Len(w) + 1
         /\ j \in MagicAt(w)
         /\ \A i \in MagicAt(w) : i = j
<1>1. Whole(w, j) /\ Ends(w, j) = Len(w) + 1 /\ j \in MagicAt(w)
  BY DEF OnlyAt, Whole
<1>2. Len(w) \in Nat /\ HeaderLen \in Nat
  BY LenProperties, WireTypes
<1>3. \A i \in MagicAt(w) : i = j
  BY MagicBegins DEF OnlyAt
<1>4. /\ j \in 1 .. Len(w) /\ j + HeaderLen - 1 \in 1 .. Len(w)
      /\ w[j + HeaderLen - 1] \in Nat /\ w[j + HeaderLen - 1] <= MaxPayload
      /\ j + HeaderLen + w[j + HeaderLen - 1] = Len(w) + 1
  BY <1>1, WholeEnds
<1>5. j \in Nat /\ j + HeaderLen <= Len(w) + 1
  BY <1>2, <1>4
<1> QED BY <1>1, <1>2, <1>3, <1>4, <1>5

\* A reader that has seen a part of w has not passed the frame over.
LEMMA NotYetPassed ==
  ASSUME NEW s \in Seq(Nat), NEW d \in Seq(Nat), NEW j, OnlyAt(s \o d, j),
         NEW p \in 0 .. Len(s), \A l \in 1 .. p : Dead(s, l)
  PROVE  p < j
<1> DEFINE w == s \o d
<1>1. w \in Seq(Nat) /\ Len(s) \in Nat
  BY LongerStream
<1>2. j \in Nat /\ j \in 1 .. Len(w) /\ j \in MagicAt(w) /\ w[j + HeaderLen - 1] <= MaxPayload
  BY <1>1, OnlyAtMeans
<1>3. SUFFICES ASSUME ~(p < j) PROVE FALSE
  OBVIOUS
<1>4. j \in 1 .. p /\ 1 <= j
  BY <1>1, <1>2, <1>3
<1>5. Dead(w, j)
  BY <1>2, <1>4, DeadStays
<1>6. j \in Plausible(w, j)
  <2>1. j >= j
    BY <1>2
  <2> QED BY <1>2, <2>1 DEF Plausible
<1> HIDE DEF w
<1> QED BY <1>1, <1>5, <1>6, DeadIsNoFrame

\* The last part: the frame is found, and nothing is left.
LEMMA LastFeeds ==
  ASSUME NEW b \in Seq(Nat), NEW c \in Seq(Nat), NEW x, Bears(b \o c, x)
  PROVE  Feed(b, c).frames = <<x>> /\ Feed(b, c).buf = <<>>
<1> DEFINE s == b \o c
           e == <<>>
<1>1. s \in Seq(Nat) /\ Len(s) \in Nat
  BY LongerStream, LenProperties
<1>2. PICK q, p : /\ Parsed(s, q, p) /\ Settled(s, p)
                  /\ Feed(b, c).buf = Drop(s, p) /\ Feed(b, c).frames = Cut(s, q)
  BY FeedFinds
<1>3. PICK j : OnlyAt(s, j) /\ x = SubSeq(s, j + HeaderLen, Len(s))
  BY DEF Bears
<1> HIDE DEF s
<1>4. /\ Chain(s, q) /\ q \in Seq(Nat) /\ Len(q) \in Nat /\ p \in 0 .. Len(s)
      /\ From(s, q, Len(q) + 1) <= p + 1
      /\ \A l \in From(s, q, Len(q) + 1) .. p : Dead(s, l)
  BY <1>2, LenProperties DEF Parsed, Chain
<1>5. /\ j \in Nat /\ j \in 1 .. Len(s) /\ HeaderLen \in Nat
      /\ j + HeaderLen - 1 \in 1 .. Len(s)
      /\ j \in MagicAt(s) /\ \A i \in MagicAt(s) : i = j
  BY <1>1, <1>3, OnlyAtMeans
<1>6. \A k \in 1 .. Len(q) : q[k] = j
  BY <1>4, <1>5 DEF Chain, Whole
<1>7. Ends(s, j) = Len(s) + 1
  BY <1>3 DEF OnlyAt
<1>8. Len(q) # 0
  <2>1. SUFFICES ASSUME Len(q) = 0 PROVE FALSE
    OBVIOUS
  <2>2. \A l \in 1 .. p : Dead(s, l)
    BY <1>4, <2>1 DEF From
  <2>3. s \o e = s /\ e \in Seq(Nat)
    BY <1>1, ConcatEmptySeq, EmptySeq
  <2>4. p < j
    <3> HIDE DEF e
    <3>1. OnlyAt(s \o e, j)
      BY <1>3, <2>3
    <3> QED BY <1>1, <1>4, <2>2, <2>3, <3>1, NotYetPassed
  <2>5. ~(j <= p)
    BY <1>4, <1>5, <2>4
  <2>6. p + 1 \in MagicAt(s) /\ (p + HeaderLen <= Len(s) => Ends(s, p + 1) > Len(s) + 1)
    BY <1>2, <1>5, <2>5 DEF Settled
  <2>7. p + 1 = j
    BY <1>5, <2>6
  <2>8. p + HeaderLen <= Len(s)
    BY <1>1, <1>4, <1>5, <2>7
  <2>9. Len(s) + 1 > Len(s) + 1
    BY <1>7, <2>6, <2>7, <2>8
  <2> QED BY <1>1, <2>9
<1>9. ~(Len(q) > 1)
  <2>1. SUFFICES ASSUME Len(q) > 1 PROVE FALSE
    OBVIOUS
  <2>2. 1 \in 1 .. Len(q) /\ 2 \in 1 .. Len(q)
    BY <1>4, <2>1
  <2>3. q[1] = j /\ q[2] = j
    BY <1>6, <2>2
  <2>4. From(s, q, 2) <= q[2] /\ From(s, q, 2) = Ends(s, q[1])
    BY <1>4, <2>2 DEF Chain, From
  <2>5. Len(s) + 1 <= j
    BY <1>7, <2>3, <2>4
  <2> QED BY <1>1, <1>5, <2>5
<1>10. Len(q) = 1 /\ q[1] = j
  <2>1. PICK n \in Nat : n = Len(q)
    BY <1>4
  <2>2. n = 1
    BY <1>8, <1>9, <2>1
  <2> QED BY <1>6, <2>1, <2>2
<1>11. p = Len(s)
  <2>1. From(s, q, Len(q) + 1) = Ends(s, q[1])
    BY <1>10 DEF From
  <2>2. Len(s) + 1 <= p + 1
    BY <1>4, <1>7, <1>10, <2>1
  <2> QED BY <1>1, <1>4, <2>2
<1>12. Drop(s, p) = <<>>
  <2>1. Drop(s, p) \in Seq(Nat) /\ Len(Drop(s, p)) = Len(s) - p
    BY <1>1, <1>4, DropMeans
  <2>2. Len(Drop(s, p)) = 0
    BY <1>1, <1>11, <2>1
  <2> QED BY <2>1, <2>2, EmptySeq
<1>13. Cut(s, q) = <<x>>
  <2>1. Ends(s, j) - 1 = Len(s)
    BY <1>1, <1>7
  <2>2. Cut(s, q) = [k \in 1 .. 1 |-> SubSeq(s, q[k] + HeaderLen, Ends(s, q[k]) - 1)]
    BY <1>10 DEF Cut
  <2>3. ASSUME NEW k \in 1 .. 1 PROVE SubSeq(s, q[k] + HeaderLen, Ends(s, q[k]) - 1) = x
    <3>1. k = 1
      OBVIOUS
    <3>2. q[k] = j
      BY <1>10, <3>1
    <3> QED BY <1>3, <2>1, <3>2, Zenon
  <2>4. Cut(s, q) = [k \in 1 .. 1 |-> x]
    BY <2>2, <2>3, Zenon
  <2> QED BY <2>4
<1> QED BY <1>2, <1>12, <1>13

\* A packet after noise.
LEMMA PacketBears ==
  ASSUME NEW b \in Seq(Nat), Silent(b), NEW y \in Seq(Nat), Silent(y),
         Len(y) # Magic[1], Len(y) <= MaxPayload
  PROVE  Packet(y) \in Seq(Nat) /\ Packet(y) # <<>> /\ Bears(b \o Packet(y), y)
<1> DEFINE n == Len(y)
           c == Header(n)
           s == b \o c
           w == s \o y
           j == Len(b) + 1
<1>1. n \in Nat /\ Len(b) \in Nat
  BY LenProperties
<1>2. /\ c \in Seq(Nat) /\ Len(c) = HeaderLen /\ c[HeaderLen] = n
      /\ \A k \in 1 .. Len(Magic) : c[k] = Magic[k]
  BY <1>1, HeaderMeans
<1>3. Len(Magic) \in Nat /\ 1 <= Len(Magic) /\ HeaderLen = Len(Magic) + 1 /\ MaxPayload \in Nat
  BY WireTypes
<1>4. w = b \o Packet(y)
  <2>1. Packet(y) = c \o y
    BY DEF Packet
  <2> DEFINE S == Nat
  <2>2. b \in Seq(S) /\ c \in Seq(S) /\ y \in Seq(S)
    BY <1>2
  <2> HIDE DEF c, n, S
  <2>3. b \o (c \o y) = (b \o c) \o y
    BY <2>2, ConcatAssociative
  <2> QED BY <2>1, <2>3
<1>5. Packet(y) \in Seq(Nat) /\ Len(Packet(y)) = HeaderLen + n
  BY <1>1, <1>2, ConcatProperties DEF Packet
<1>6. Packet(y) # <<>>
  <2>1. Len(Packet(y)) # 0
    BY <1>1, <1>3, <1>5
  <2> QED BY <2>1
<1> HIDE DEF c
<1>7. /\ s \in Seq(Nat) /\ Len(s) = Len(b) + HeaderLen
      /\ \A i \in 1 .. Len(b) + HeaderLen : s[i] = IF i <= Len(b) THEN b[i] ELSE c[i - Len(b)]
  <2>1. /\ s \in Seq(Nat) /\ Len(s) = Len(b) + Len(c)
        /\ \A i \in 1 .. Len(b) + Len(c) : s[i] = IF i <= Len(b) THEN b[i] ELSE c[i - Len(b)]
    <3> HIDE DEF n
    <3> QED BY <1>2, ConcatProperties
  <2> HIDE DEF s
  <2> QED BY <1>2, <2>1
<1> HIDE DEF s, n
<1>8. /\ w \in Seq(Nat) /\ Len(w) = Len(b) + HeaderLen + n
      /\ \A i \in 1 .. Len(s) : w[i] = s[i]
  <2>1. w \in Seq(Nat) /\ Len(w) = Len(s) + Len(y) /\ \A i \in 1 .. Len(s) : w[i] = s[i]
    BY <1>7, LongerStream
  <2> HIDE DEF w
  <2> QED BY <1>1, <1>3, <1>7, <2>1 DEF n
<1>9. \A i \in 1 .. n : w[Len(s) + i] = y[i]
  <2>1. \A i \in 1 .. Len(s) + Len(y) : w[i] = IF i <= Len(s) THEN s[i] ELSE y[i - Len(s)]
    BY <1>7, ConcatProperties
  <2> HIDE DEF w
  <2>2. ASSUME NEW i \in 1 .. n PROVE w[Len(s) + i] = y[i]
    <3>1. PICK g \in Int : g = Len(s) + i
      BY <1>1, <1>3, <1>7
    <3>2. g \in 1 .. Len(s) + Len(y) /\ ~(g <= Len(s)) /\ g - Len(s) = i
      BY <1>1, <1>3, <1>7, <3>1 DEF n
    <3>3. w[g] = y[i]
      BY <2>1, <3>2
    <3> QED BY <3>1, <3>3
  <2> QED BY <2>2
<1>10. \A i \in 1 .. HeaderLen : w[Len(b) + i] = c[i]
  <2>1. ASSUME NEW i \in 1 .. HeaderLen PROVE w[Len(b) + i] = c[i]
    <3>1. PICK g \in Int : g = Len(b) + i
      BY <1>1
    <3>2. g \in 1 .. Len(b) + HeaderLen /\ ~(g <= Len(b)) /\ g - Len(b) = i /\ g \in 1 .. Len(s)
      BY <1>1, <1>3, <1>7, <3>1
    <3>3. s[g] = c[i]
      BY <1>7, <3>2
    <3>4. w[g] = s[g]
      BY <1>8, <3>2
    <3> QED BY <3>1, <3>3, <3>4
  <2> QED BY <2>1
<1> HIDE DEF w
<1>11. \A i \in 1 .. Len(w) : i # j => w[i] # Magic[1]
  <2>1. ASSUME NEW i \in 1 .. Len(w), i # j PROVE w[i] # Magic[1]
    <3>1. CASE i <= Len(b)
      <4>1. i \in 1 .. Len(b) /\ i \in 1 .. Len(b) + HeaderLen /\ i \in 1 .. Len(s)
        BY <1>1, <1>3, <1>7, <3>1
      <4>2. w[i] = b[i]
        BY <1>7, <1>8, <3>1, <4>1
      <4> QED BY <4>1, <4>2 DEF Silent
    <3>2. CASE ~(i <= Len(b)) /\ i <= Len(b) + HeaderLen
      <4>1. PICK k \in Int : k = i - Len(b)
        BY <1>1
      <4>2. k \in 2 .. HeaderLen /\ i = Len(b) + k /\ k \in 1 .. HeaderLen
        <5>1. i \in Int /\ Len(b) \in Int /\ HeaderLen \in Int /\ i # Len(b) + 1
          BY <1>1, <1>3, <2>1
        <5>2. i = Len(b) + k /\ k <= HeaderLen
          BY <3>2, <4>1, <5>1
        <5>3. 1 <= k /\ k # 1
          BY <3>2, <4>1, <5>1
        <5> QED BY <4>1, <5>1, <5>2, <5>3
      <4>3. w[i] = c[k]
        BY <1>10, <4>2
      <4>4. CASE k = HeaderLen
        BY <1>2, <4>3, <4>4 DEF n
      <4>5. CASE k # HeaderLen
        <5>1. k \in 2 .. Len(Magic) /\ k \in 1 .. Len(Magic)
          BY <1>3, <4>2, <4>5
        <5> QED BY <1>2, <4>3, <5>1, WireAssumption
      <4> QED BY <4>4, <4>5
    <3>3. CASE ~(i <= Len(b) + HeaderLen)
      <4>1. PICK k \in Int : k = i - Len(s)
        <5>1. i - Len(s) \in Int
          BY <1>1, <1>3, <1>7
        <5> QED BY <5>1
      <4>2. k \in 1 .. n /\ i = Len(s) + k
        BY <1>1, <1>3, <1>7, <1>8, <3>3, <4>1
      <4>3. w[i] = y[k]
        BY <1>9, <4>2
      <4> QED BY <4>2, <4>3 DEF Silent, n
    <3> QED BY <3>1, <3>2, <3>3
  <2> QED BY <2>1
<1>12. j \in 1 .. Len(w) - Len(Magic) + 1 /\ j + Len(Magic) <= Len(w) /\ j + Len(Magic) = Len(b) + HeaderLen
       /\ j + HeaderLen - 1 = j + Len(Magic) /\ j \in Nat /\ j + HeaderLen + n = Len(w) + 1
  BY <1>1, <1>3, <1>8
<1>13. w[j + Len(Magic)] = n
  <2>1. HeaderLen \in 1 .. HeaderLen
    BY <1>3
  <2>2. w[Len(b) + HeaderLen] = n
    BY <1>2, <1>10, <2>1
  <2> QED BY <1>12, <2>2
<1>14. j \in MagicAt(w)
  <2>1. ASSUME NEW k \in 1 .. Len(Magic) PROVE w[j + k - 1] = Magic[k]
    <3>1. j + k - 1 = Len(b) + k /\ k \in 1 .. HeaderLen
      BY <1>1, <1>3
    <3>2. w[Len(b) + k] = c[k] /\ c[k] = Magic[k]
      BY <1>2, <1>10, <3>1
    <3> QED BY <3>1, <3>2
  <2> HIDE DEF j
  <2> QED BY <1>8, <1>12, <2>1, MagicMeans
<1>15. SubSeq(w, j + HeaderLen, Len(w)) = y
  <2>1. SubSeq(s \o y, Len(s) + 1, Len(s) + Len(y)) = y
    BY <1>7, SubSeqBehind
  <2>2. Len(s) + 1 = j + HeaderLen /\ Len(s) + Len(y) = Len(w)
    BY <1>1, <1>3, <1>7, <1>8 DEF n
  <2> QED BY <2>1, <2>2 DEF w
<1> HIDE DEF j
<1>16. Ends(w, j) = Len(w) + 1
  <2>1. Ends(w, j) = j + HeaderLen + n
    BY <1>12, <1>13 DEF Ends
  <2> QED BY <1>12, <2>1
<1>17. Whole(w, j)
  <2>1. Len(w) + 1 <= Len(w) + 1
    BY <1>1, <1>3, <1>8
  <2>2. n <= MaxPayload
    BY DEF n
  <2> QED BY <1>12, <1>13, <1>14, <1>16, <2>1, <2>2 DEF Whole
<1>18. OnlyAt(w, j)
  BY <1>11, <1>16, <1>17 DEF OnlyAt, j
<1>19. Bears(w, y)
  BY <1>15, <1>18 DEF Bears
<1> QED BY <1>4, <1>5, <1>6, <1>19 DEF w, s, c

\* Three sequences in a row.
LEMMA ThreeParts ==
  ASSUME NEW b \in Seq(Nat), NEW c \in Seq(Nat), NEW d \in Seq(Nat)
  PROVE  b \o (c \o d) = (b \o c) \o d
<1> DEFINE S == Nat
<1>1. b \in Seq(S) /\ c \in Seq(S) /\ d \in Seq(S)
  OBVIOUS
<1> HIDE DEF S
<1> QED BY <1>1, ConcatAssociative

\* One sequence behind another.
LEMMA ConcatMeans ==
  ASSUME NEW b \in Seq(Nat), NEW c \in Seq(Nat)
  PROVE  /\ b \o c \in Seq(Nat) /\ Len(b) \in Nat /\ Len(c) \in Nat
         /\ Len(b \o c) = Len(b) + Len(c)
         /\ \A i \in 1 .. Len(b) : (b \o c)[i] = b[i]
         /\ \A i \in 1 .. Len(c) : (b \o c)[Len(b) + i] = c[i]
<1> DEFINE s == b \o c
<1>1. /\ s \in Seq(Nat) /\ Len(s) = Len(b) + Len(c) /\ Len(b) \in Nat /\ Len(c) \in Nat
      /\ \A i \in 1 .. Len(b) + Len(c) : s[i] = IF i <= Len(b) THEN b[i] ELSE c[i - Len(b)]
  BY ConcatProperties, LenProperties
<1> HIDE DEF s
<1>2. \A i \in 1 .. Len(b) : s[i] = b[i]
  BY LongerStream DEF s
<1>3. ASSUME NEW i \in 1 .. Len(c) PROVE s[Len(b) + i] = c[i]
  <2>1. PICK g \in Int : g = Len(b) + i
    BY <1>1
  <2>2. g \in 1 .. Len(b) + Len(c) /\ ~(g <= Len(b)) /\ g - Len(b) = i
    <3>1. Len(b) \in Nat /\ Len(c) \in Nat /\ i \in Int /\ 1 <= i /\ i <= Len(c)
      BY <1>1
    <3> QED BY <2>1, <3>1
  <2>3. s[g] = c[i]
    BY <1>1, <2>2
  <2> QED BY <2>1, <2>3
<1> QED BY <1>1, <1>2, <1>3 DEF s

\* What a packet consists of.
LEMMA PacketMeans ==
  ASSUME NEW y \in Seq(Nat)
  PROVE  /\ Packet(y) \in Seq(Nat) /\ Len(y) \in Nat /\ Len(Packet(y)) = HeaderLen + Len(y)
         /\ Packet(y)[1] = Magic[1] /\ Packet(y)[HeaderLen] = Len(y)
         /\ \A k \in 1 .. Len(Magic) : Packet(y)[k] = Magic[k]
         /\ \A i \in 1 .. Len(y) : Packet(y)[HeaderLen + i] = y[i]
<1> DEFINE h == Header(Len(y))
           w == Packet(y)
<1>1. Len(y) \in Nat
  BY LenProperties
<1>2. h \in Seq(Nat) /\ Len(h) = HeaderLen /\ h[HeaderLen] = Len(y) /\ \A k \in 1 .. Len(Magic) : h[k] = Magic[k]
  BY <1>1, HeaderMeans
<1>3. w = h \o y
  BY DEF Packet
<1> HIDE DEF h, w
<1>4. /\ w \in Seq(Nat) /\ Len(w) = HeaderLen + Len(y)
      /\ \A i \in 1 .. HeaderLen : w[i] = h[i]
      /\ \A i \in 1 .. Len(y) : w[HeaderLen + i] = y[i]
  BY <1>2, <1>3, ConcatMeans
<1>5. HeaderLen \in 1 .. HeaderLen /\ 1 \in 1 .. Len(Magic) /\ \A k \in 1 .. Len(Magic) : k \in 1 .. HeaderLen
  BY WireTypes
<1>6. w[HeaderLen] = Len(y) /\ \A k \in 1 .. Len(Magic) : w[k] = Magic[k]
  BY <1>2, <1>4, <1>5
<1> QED BY <1>1, <1>4, <1>5, <1>6 DEF w

\* A frame that begins b.
LEMMA WaitsMeans ==
  ASSUME NEW b \in Seq(Nat), Waits(b)
  PROVE  /\ Len(b) \in Nat /\ HeaderLen \in 1 .. Len(b) /\ HeaderLen \in Nat /\ b[HeaderLen] \in Nat
         /\ b[HeaderLen] <= MaxPayload
         /\ Ends(b, 1) = HeaderLen + 1 + b[HeaderLen] /\ Ends(b, 1) \in Nat /\ Ends(b, 1) > Len(b) + 1
<1>1. Len(b) \in Nat /\ HeaderLen \in Nat /\ HeaderLen >= 1
  BY LenProperties, WireTypes
<1>2. HeaderLen \in 1 .. Len(b)
  BY <1>1 DEF Waits
<1>3. b[HeaderLen] \in Nat
  BY <1>2, ElementOfSeq
<1>4. 1 + HeaderLen - 1 = HeaderLen
  BY <1>1
<1>5. Ends(b, 1) = 1 + HeaderLen + b[HeaderLen]
  BY <1>4 DEF Ends
<1> QED BY <1>1, <1>2, <1>3, <1>5 DEF Waits

\* More of it that does not complete it.
LEMMA WaitsLonger ==
  ASSUME NEW b \in Seq(Nat), NEW d \in Seq(Nat), Waits(b)
  PROVE  /\ Ends(b \o d, 1) = Ends(b, 1)
         /\ Waits(b \o d) <=> Ends(b, 1) > Len(b) + Len(d) + 1
<1> DEFINE s == b \o d
<1>1. /\ s \in Seq(Nat) /\ Len(b) \in Nat /\ Len(d) \in Nat /\ Len(s) = Len(b) + Len(d)
      /\ \A i \in 1 .. Len(b) : s[i] = b[i]
  BY ConcatMeans
<1> HIDE DEF s
<1>2. /\ HeaderLen \in 1 .. Len(b) /\ HeaderLen \in Nat /\ b[HeaderLen] <= MaxPayload
      /\ Len(Magic) \in Nat /\ 1 <= Len(Magic) /\ HeaderLen = Len(Magic) + 1
  BY WaitsMeans, WireTypes
<1>3. s[HeaderLen] = b[HeaderLen] /\ 1 + HeaderLen - 1 = HeaderLen
  BY <1>1, <1>2
<1>4. Ends(s, 1) = Ends(b, 1)
  BY <1>3 DEF Ends
<1>5. 1 \in MagicAt(s)
  <2>1. 1 \in MagicAt(b)
    BY DEF Waits
  <2>2. 1 \in 1 .. Len(b) - Len(Magic) + 1 /\ \A k \in 1 .. Len(Magic) : b[1 + k - 1] = Magic[k]
    BY <2>1, MagicMeans
  <2>3. 1 \in 1 .. Len(s) - Len(Magic) + 1
    BY <1>1, <1>2, <2>2
  <2>4. ASSUME NEW k \in 1 .. Len(Magic) PROVE s[1 + k - 1] = Magic[k]
    <3>1. 1 + k - 1 \in 1 .. Len(b)
      BY <1>1, <1>2
    <3> QED BY <1>1, <2>2, <3>1
  <2> QED BY <1>1, <2>3, <2>4, MagicMeans
<1>6. HeaderLen <= Len(s)
  BY <1>1, <1>2
<1> QED BY <1>1, <1>2, <1>3, <1>4, <1>5, <1>6 DEF Waits, s

\* Less of it does not complete it either.
LEMMA WaitsShorter ==
  ASSUME NEW b \in Seq(Nat), NEW d \in Seq(Nat), NEW e \in Seq(Nat), Waits(b), Waits(b \o d),
         Len(e) <= Len(d)
  PROVE  Waits(b \o e)
<1>1. Ends(b, 1) > Len(b) + Len(d) + 1
  BY WaitsLonger
<1>2. Len(b) \in Nat /\ Len(d) \in Nat /\ Len(e) \in Nat /\ Ends(b, 1) \in Nat
  BY LenProperties, WaitsMeans
<1>3. Ends(b, 1) > Len(b) + Len(e) + 1
  BY <1>1, <1>2
<1> QED BY <1>3, WaitsLonger

\* The first part of a packet after noise, header and all: the reader waits for the rest.
LEMMA BeginFeeds ==
  ASSUME NEW b \in Seq(Nat), Silent(b), NEW y \in Seq(Nat), Silent(y),
         Len(y) # Magic[1], Len(y) <= MaxPayload,
         NEW c \in Seq(Nat), NEW d \in Seq(Nat), c \o d = Packet(y), d # <<>>, HeaderLen <= Len(c)
  PROVE  Feed(b, c).frames = <<>> /\ Feed(b, c).buf = c /\ Waits(c)
<1> DEFINE s == b \o c
           w == s \o d
           h == HeaderLen
<1>1. /\ s \in Seq(Nat) /\ Len(b) \in Nat /\ Len(c) \in Nat /\ Len(s) = Len(b) + Len(c)
      /\ \A i \in 1 .. Len(c) : s[Len(b) + i] = c[i]
  BY ConcatMeans
<1>2. /\ w \in Seq(Nat) /\ Len(w) = Len(s) + Len(d) /\ Len(d) \in Nat
      /\ \A i \in 1 .. Len(s) : w[i] = s[i]
  <2> HIDE DEF s
  <2> QED BY <1>1, ConcatMeans
<1>3. Len(d) # 0
  BY EmptySeq
<1>4. Bears(w, y)
  <2>1. Bears(b \o (c \o d), y)
    BY PacketBears
  <2> HIDE DEF s, w, h
  <2>2. b \o (c \o d) = (b \o c) \o d
    BY ThreeParts
  <2> QED BY <2>1, <2>2 DEF s, w
<1>5. PICK j : OnlyAt(w, j)
  BY <1>4 DEF Bears
<1>6. PICK q, p : /\ Parsed(s, q, p) /\ Settled(s, p)
                  /\ Feed(b, c).buf = Drop(s, p) /\ Feed(b, c).frames = Cut(s, q)
  BY FeedFinds
<1>7. /\ Packet(y) \in Seq(Nat) /\ Len(y) \in Nat /\ Len(Packet(y)) = h + Len(y)
      /\ Packet(y)[1] = Magic[1] /\ Packet(y)[h] = Len(y)
      /\ \A k \in 1 .. Len(Magic) : Packet(y)[k] = Magic[k]
  BY PacketMeans
<1>8. /\ Len(Packet(y)) = Len(c) + Len(d) /\ \A i \in 1 .. Len(c) : Packet(y)[i] = c[i]
  BY ConcatMeans
<1> HIDE DEF s, w
<1>9. /\ h \in 1 .. Len(c) /\ 1 \in 1 .. Len(c) /\ \A k \in 1 .. Len(Magic) : k \in 1 .. Len(c)
      /\ Len(Magic) \in Nat /\ 1 <= Len(Magic) /\ h = Len(Magic) + 1 /\ MaxPayload \in Nat /\ h \in Nat
  <2>1. /\ Len(Magic) \in Nat /\ 1 <= Len(Magic) /\ h = Len(Magic) + 1 /\ MaxPayload \in Nat /\ h \in Nat
    BY WireTypes
  <2>2. h <= Len(c) /\ Len(c) \in Nat
    BY <1>1
  <2> HIDE DEF h
  <2>3. PICK n \in Nat : n = Len(c)
    BY <2>2
  <2>4. PICK m \in Nat : m = Len(Magic)
    BY <2>1
  <2>5. h \in 1 .. n /\ 1 \in 1 .. n
    <3>1. h \in Nat /\ h <= n /\ m + 1 = h /\ 1 <= m
      BY <2>1, <2>2, <2>3, <2>4
    <3> QED BY <3>1
  <2>6. ASSUME NEW k \in 1 .. m PROVE k \in 1 .. n
    <3>1. m <= n
      BY <2>1, <2>2, <2>3, <2>4
    <3> QED BY <3>1
  <2> QED BY <2>1, <2>3, <2>4, <2>5, <2>6
<1>10. /\ c[1] = Magic[1] /\ c[h] = Len(y) /\ \A k \in 1 .. Len(Magic) : c[k] = Magic[k]
  BY <1>7, <1>8, <1>9
<1> HIDE DEF h
<1>11. PICK z \in Nat : z = Len(b) + 1
  BY <1>1
<1>12. j = z
  <2>1. z \in 1 .. Len(w) /\ z \in 1 .. Len(s)
    BY <1>1, <1>2, <1>9, <1>11
  <2>2. w[z] = Magic[1]
    BY <1>1, <1>2, <1>9, <1>10, <1>11, <2>1
  <2> QED BY <1>5, <2>1, <2>2 DEF OnlyAt
<1>13. /\ Chain(s, q) /\ q \in Seq(Nat) /\ Len(q) \in Nat /\ p \in 0 .. Len(s)
       /\ \A l \in From(s, q, Len(q) + 1) .. p : Dead(s, l)
  BY <1>6, LenProperties DEF Parsed, Chain
<1>14. Len(q) = 0
  <2>1. SUFFICES ASSUME Len(q) # 0 PROVE FALSE
    OBVIOUS
  <2>2. 1 \in 1 .. Len(q)
    BY <1>13, <2>1
  <2>3. Whole(s, q[1])
    BY <1>13, <2>2 DEF Chain
  <2>4. Whole(w, q[1]) /\ Ends(w, q[1]) = Ends(s, q[1]) /\ Ends(s, q[1]) <= Len(s) + 1
    BY <1>1, <2>3, WholeStays DEF Whole, w
  <2>5. q[1] = j
    <3>1. q[1] \in MagicAt(w)
      BY <2>4 DEF Whole
    <3> QED BY <1>2, <1>5, <3>1, OnlyAtMeans
  <2>6. Len(w) + 1 <= Len(s) + 1
    BY <1>5, <2>4, <2>5 DEF OnlyAt
  <2> QED BY <1>1, <1>2, <1>3, <2>6
<1>15. Feed(b, c).frames = <<>>
  BY <1>6, <1>14 DEF Cut
<1>16. \A l \in 1 .. p : Dead(s, l)
  BY <1>13, <1>14 DEF From
<1>17. p < j
  <2>1. OnlyAt(s \o d, j)
    BY <1>5 DEF w
  <2> QED BY <1>1, <1>13, <1>16, <2>1, NotYetPassed
<1>18. j \in MagicAt(s)
  <2>1. j \in 1 .. Len(s) - Len(Magic) + 1
    BY <1>1, <1>9, <1>11, <1>12
  <2>2. ASSUME NEW k \in 1 .. Len(Magic) PROVE s[j + k - 1] = Magic[k]
    <3>1. j + k - 1 = Len(b) + k /\ k \in 1 .. Len(c)
      BY <1>1, <1>9, <1>11, <1>12
    <3> QED BY <1>1, <1>10, <3>1
  <2> QED BY <1>1, <2>1, <2>2, MagicMeans
<1>19. p + 1 = j
  <2>1. ~(\A i \in MagicAt(s) : i <= p)
    <3>1. ~(j <= p)
      BY <1>11, <1>12, <1>13, <1>17
    <3> QED BY <1>18, <3>1
  <2>2. p + 1 \in MagicAt(s)
    BY <1>6, <2>1 DEF Settled
  <2>3. p + 1 \in 1 .. Len(w) /\ p + 1 \in 1 .. Len(s) /\ s[p + 1] = Magic[1]
    <3>1. p + 1 \in 1 .. Len(s) /\ s[p + 1] = Magic[1]
      BY <1>1, <2>2, MagicBegins
    <3> QED BY <1>1, <1>2, <3>1
  <2> QED BY <1>2, <1>5, <2>3 DEF OnlyAt
<1>20. Feed(b, c).buf = c
  <2>1. p = Len(b)
    BY <1>1, <1>11, <1>12, <1>13, <1>19
  <2>2. SubSeq(s, Len(b) + 1, Len(b) + Len(c)) = c
    BY SubSeqBehind DEF s
  <2> QED BY <1>1, <1>6, <2>1, <2>2 DEF Drop
<1>21. Waits(c)
  <2>1. 1 \in MagicAt(c)
    <3>1. 1 \in 1 .. Len(c) - Len(Magic) + 1
      BY <1>1, <1>9
    <3>2. \A k \in 1 .. Len(Magic) : 1 + k - 1 = k
      BY <1>9
    <3>3. \A k \in 1 .. Len(Magic) : c[1 + k - 1] = Magic[k]
      BY <1>10, <3>2
    <3> QED BY <3>1, <3>3, MagicMeans
  <2>2. Ends(c, 1) = 1 + h + Len(y)
    <3>1. 1 + h - 1 = h
      BY <1>9
    <3> QED BY <1>10, <3>1 DEF Ends, h
  <2>3. 1 + h + Len(y) > Len(c) + 1
    BY <1>1, <1>2, <1>3, <1>7, <1>8, <1>9
  <2> QED BY <1>9, <1>10, <2>1, <2>2, <2>3 DEF Waits, h
<1> QED BY <1>15, <1>20, <1>21

\* A payload of pieces.
Mixed(x) == \E i, j \in 1 .. Len(x) : x[i] # x[j]

\* While the reader waits and has other data than the frame's, or is sent them, it
\* goes on waiting, or makes a payload of pieces of it.
LEMMA SwallowFeeds ==
  ASSUME NEW b \in Seq(Nat), Waits(b), HeaderLen < Len(b),
         NEW c \in Seq(Nat), c # <<>>, \A i \in 2 .. Len(c) : c[i] # Magic[1],
         \/ \E i \in HeaderLen + 1 .. Len(b) : b[i] # b[HeaderLen + 1]
         \/ c[1] # b[HeaderLen + 1]
  PROVE  \/ /\ Feed(b, c).buf = b \o c /\ Waits(b \o c) /\ Feed(b, c).frames = <<>>
            /\ HeaderLen < Len(b \o c) /\ (b \o c)[HeaderLen + 1] = b[HeaderLen + 1]
            /\ \E i \in HeaderLen + 1 .. Len(b \o c) : (b \o c)[i] # (b \o c)[HeaderLen + 1]
         \/ /\ Silent(Feed(b, c).buf) /\ Feed(b, c).buf \in Seq(Nat)
            /\ \E x \in Seq(Nat) : Mixed(x) /\ Feed(b, c).frames = <<x>>
<1> DEFINE s == b \o c
           h == HeaderLen
           E == Ends(b, 1)
<1>1. /\ s \in Seq(Nat) /\ Len(b) \in Nat /\ Len(c) \in Nat /\ Len(s) = Len(b) + Len(c)
      /\ \A i \in 1 .. Len(b) : s[i] = b[i]
      /\ \A i \in 1 .. Len(c) : s[Len(b) + i] = c[i]
  BY ConcatMeans
<1>2. Len(c) # 0
  BY EmptySeq
<1>3. h \in Nat /\ h < Len(b) /\ E \in Nat /\ E > Len(b) + 1 /\ h >= 1 /\ Len(b) \in Nat
  BY WaitsMeans, WireTypes
<1>4. PICK g \in Int : /\ g \in h + 1 .. Len(b) + 1 /\ g \in 1 .. Len(s) /\ s[g] # s[h + 1]
                       /\ s[h + 1] = b[h + 1]
  <2>1. h + 1 \in 1 .. Len(b) /\ s[h + 1] = b[h + 1]
    BY <1>1, <1>3
  <2>2. CASE \E i \in h + 1 .. Len(b) : b[i] # b[h + 1]
    <3>1. PICK i \in h + 1 .. Len(b) : b[i] # b[h + 1]
      BY <2>2
    <3>2. i \in 1 .. Len(b) /\ i \in Int /\ i \in h + 1 .. Len(b) + 1 /\ i \in 1 .. Len(s)
      BY <1>1, <1>3
    <3>3. s[i] # s[h + 1]
      BY <1>1, <2>1, <3>1, <3>2
    <3> QED BY <2>1, <3>2, <3>3
  <2>3. CASE c[1] # b[h + 1]
    <3>1. PICK i \in Int : i = Len(b) + 1
      BY <1>1
    <3>2. 1 \in 1 .. Len(c) /\ i \in h + 1 .. Len(b) + 1 /\ i \in 1 .. Len(s)
      BY <1>1, <1>2, <1>3, <3>1
    <3>3. s[i] = c[1]
      BY <1>1, <3>1, <3>2
    <3> QED BY <2>1, <2>3, <3>2, <3>3
  <2> QED BY <2>2, <2>3
<1>5. CASE Feed(b, c).buf = s /\ Waits(s) /\ Feed(b, c).frames = <<>>
  <2>1. h < Len(s) /\ g \in h + 1 .. Len(s)
    BY <1>1, <1>2, <1>3, <1>4
  <2> QED BY <1>4, <1>5, <2>1
<1>6. CASE /\ E <= Len(b) + Len(c) + 1
           /\ Silent(Feed(b, c).buf) /\ Feed(b, c).buf \in Seq(Nat)
           /\ Feed(b, c).frames = <<SubSeq(s, h + 1, E - 1)>>
  <2> DEFINE x == SubSeq(s, h + 1, E - 1)
  <2> HIDE DEF s, E, h
  <2>1. \A i \in h + 1 .. E - 1 : s[i] \in Nat
    <3>1. ASSUME NEW i \in h + 1 .. E - 1 PROVE s[i] \in Nat
      <4>1. E - 1 <= Len(s) /\ E \in Nat /\ h \in Nat /\ Len(s) \in Nat
        BY <1>1, <1>3, <1>6
      <4>2. i \in 1 .. Len(s)
        BY <4>1
      <4> QED BY <1>1, <4>2, ElementOfSeq
    <3> QED BY <3>1
  <2>2. h + 1 <= E - 1 /\ h + 1 \in Int /\ E - 1 \in Int
    <3>1. PICK n \in Nat : n = Len(b)
      BY <1>3
    <3>2. h \in Nat /\ E \in Nat /\ h < n /\ n + 1 < E
      BY <1>3, <3>1
    <3> QED BY <3>2
  <2>3. /\ x \in Seq(Nat) /\ Len(x) = (E - 1) - (h + 1) + 1
        /\ \A i \in 1 .. (E - 1) - (h + 1) + 1 : x[i] = s[(h + 1) + i - 1]
    BY <2>1, <2>2, SubSeqProperties
  <2> HIDE DEF x
  <2>4. PICK k \in Int : k = g - h
    BY <1>3, <1>4
  <2>5. 1 \in 1 .. Len(x) /\ k \in 1 .. Len(x) /\ (h + 1) + 1 - 1 = h + 1 /\ (h + 1) + k - 1 = g
        /\ Len(x) = (E - 1) - (h + 1) + 1
    <3>1. k \in Int /\ k = g - h /\ h + 1 <= g /\ g <= Len(b) + 1 /\ g \in Int
      BY <1>4, <2>4
    <3>2. h \in Nat /\ E \in Nat /\ Len(b) + 1 < E /\ Len(b) \in Nat /\ h < Len(b)
      BY <1>1, <1>3
    <3>3. Len(x) = (E - 1) - (h + 1) + 1
      BY <2>3
    <3>4. Len(x) = E - 1 - h /\ Len(x) \in Int
      BY <3>2, <3>3
    <3>5. 1 <= k /\ k <= Len(x) /\ 1 <= Len(x)
      BY <3>1, <3>2, <3>4
    <3> QED BY <3>1, <3>2, <3>3, <3>4, <3>5
  <2>6. x[1] = s[h + 1] /\ x[k] = s[g]
    BY <2>3, <2>5
  <2>7. Mixed(x)
    BY <1>4, <2>5, <2>6 DEF Mixed
  <2> QED BY <1>6, <2>3, <2>7 DEF x
<1> QED BY <1>5, <1>6, WaitingFeeds

----------------------------------------------------------------------------
(* The theorems of the BLE stream *)

\* The assumptions on the stream, for the lemmas below.
LEMMA BleFacts ==
    /\ Lengths \subseteq Nat /\ \A n \in Lengths : n \in Nat /\ n # 0 /\ n # Magic[1]
    /\ Magic[1] \in Nat /\ Magic[1] < 100
    /\ MaxSize \in Nat /\ MaxPayload \in Nat /\ MaxSize <= MaxPayload
    /\ HeaderLen \in Nat /\ \A n \in Chunks : n \in Nat /\ n > HeaderLen
<1>1. 1 \in 1 .. Len(Magic)
  BY WireTypes
<1>2. Magic[1] \in Nat
  BY <1>1, WireTypes
<1>3. Lengths \subseteq Nat \ {0} /\ Magic[1] \notin Lengths
  BY BleAssumption
<1>4. \A n \in Lengths : n \in Nat /\ n # 0 /\ n # Magic[1]
  BY <1>3
<1>5. Lengths \subseteq Nat
  BY <1>3
<1>6. Magic[1] < 100 /\ MaxSize \in Nat /\ MaxSize <= MaxPayload
  BY BleAssumption
<1>7. \A n \in Chunks : n \in Nat /\ n > HeaderLen
  BY BleAssumption
<1> QED BY <1>2, <1>4, <1>5, <1>6, <1>7, WireTypes

\* The payload of frame k, if c are the frames that were captured.
BodyOf(c, k) == [i \in 1 .. c[k] |-> 100 + k]

\* The payloads among f that are made of pieces, and the others.
MixedOnes(f) == {h \in 1 .. Len(f) : Mixed(f[h])}
PureOnes(f) == {h \in 1 .. Len(f) : ~Mixed(f[h])}

\* No payload begins a magic or is mixed, and no two frames have the same.
LEMMA BodyMeans ==
  ASSUME NEW c \in Seq(Lengths), NEW k \in 1 .. Len(c)
  PROVE  /\ k \in Nat /\ c[k] \in Lengths /\ c[k] \in Nat /\ c[k] # 0 /\ c[k] # Magic[1]
         /\ BodyOf(c, k) \in Seq(Nat) /\ Len(BodyOf(c, k)) = c[k]
         /\ \A i \in 1 .. c[k] : BodyOf(c, k)[i] = 100 + k
         /\ Silent(BodyOf(c, k)) /\ ~Mixed(BodyOf(c, k)) /\ 100 + k # Magic[1]
         /\ \A l \in 1 .. Len(c) : BodyOf(c, l) = BodyOf(c, k) => l = k
<1>1. \A l \in 1 .. Len(c) : l \in Nat /\ c[l] \in Lengths
  BY ElementOfSeq, LenProperties
<1>2. \A l \in 1 .. Len(c) : c[l] \in Nat /\ c[l] # 0 /\ c[l] # Magic[1]
  BY <1>1, BleFacts
<1>3. ASSUME NEW l \in 1 .. Len(c) PROVE BodyOf(c, l)[1] = 100 + l
  <2>1. 1 \in 1 .. c[l]
    BY <1>2
  <2> QED BY <2>1 DEF BodyOf
<1>4. ASSUME NEW l \in 1 .. Len(c), BodyOf(c, l) = BodyOf(c, k) PROVE l = k
  <2>1. 100 + l = 100 + k
    BY <1>3, <1>4
  <2> QED BY <1>1, <2>1
<1>5. PICK n \in Nat : n = c[k]
  BY <1>2
<1>6. PICK v \in Nat : v = 100 + k
  BY <1>1
<1>7. BodyOf(c, k) = [i \in 1 .. n |-> v]
  BY <1>5, <1>6 DEF BodyOf
<1>8. [i \in 1 .. n |-> v] \in Seq(Nat) /\ Len([i \in 1 .. n |-> v]) = n
  OBVIOUS
<1>9. \A i \in 1 .. n : [j \in 1 .. n |-> v][i] = v
  OBVIOUS
<1>10. v # Magic[1]
  BY <1>1, <1>6, BleFacts
<1>11. Silent(BodyOf(c, k)) /\ ~Mixed(BodyOf(c, k))
  BY <1>7, <1>8, <1>9, <1>10 DEF Silent, Mixed
<1>12. \A i \in 1 .. c[k] : BodyOf(c, k)[i] = 100 + k
  BY <1>5, <1>6, <1>7, <1>9
<1> QED BY <1>1, <1>2, <1>4, <1>5, <1>6, <1>7, <1>8, <1>10, <1>11, <1>12

\* The payloads stay when a frame is captured.
LEMMA BodyStays ==
  ASSUME NEW c \in Seq(Lengths), NEW n \in Lengths, NEW l \in 1 .. Len(c)
  PROVE  Append(c, n)[l] = c[l] /\ BodyOf(Append(c, n), l) = BodyOf(c, l)
<1>1. Append(c, n)[l] = c[l]
  BY AppendProperties
<1> QED BY <1>1 DEF BodyOf

\* A packet begins with the one first number of a magic in it; its data are all the same.
LEMMA PacketOf ==
  ASSUME NEW c \in Seq(Lengths), NEW k \in 1 .. Len(c)
  PROVE  LET w == Packet(BodyOf(c, k))
         IN  /\ w \in Seq(Nat) /\ w # <<>> /\ Len(w) = HeaderLen + c[k] /\ w[1] = Magic[1]
             /\ w[HeaderLen] = c[k]
             /\ \A i \in 2 .. Len(w) : w[i] # Magic[1]
             /\ \A i \in HeaderLen + 1 .. Len(w) : w[i] = 100 + k
<1> DEFINE y == BodyOf(c, k)
           w == Packet(y)
<1>1. /\ y \in Seq(Nat) /\ Len(y) = c[k] /\ c[k] \in Nat /\ c[k] # Magic[1] /\ k \in Nat /\ 100 + k # Magic[1]
      /\ \A i \in 1 .. c[k] : y[i] = 100 + k
  BY BodyMeans
<1> HIDE DEF y
<1>2. /\ w \in Seq(Nat) /\ Len(w) = HeaderLen + c[k] /\ w[1] = Magic[1] /\ w[HeaderLen] = c[k]
      /\ \A i \in 1 .. Len(Magic) : w[i] = Magic[i]
      /\ \A i \in 1 .. c[k] : w[HeaderLen + i] = y[i]
  BY <1>1, PacketMeans
<1>3. Len(Magic) \in Nat /\ Len(Magic) >= 1 /\ HeaderLen = Len(Magic) + 1 /\ HeaderLen \in Nat
  BY WireTypes
<1> HIDE DEF w
<1>4. ASSUME NEW i \in HeaderLen + 1 .. Len(w) PROVE w[i] = 100 + k
  <2> DEFINE n == Len(w)
  <2>3. HeaderLen \in Nat /\ n \in Nat
    BY <1>1, <1>2, <1>3
  <2> HIDE DEF n
  <2>4. i \in HeaderLen + 1 .. n
    BY DEF n
  <2>1. PICK g \in Int : g = i - HeaderLen
    BY <2>3, <2>4
  <2>5. PICK h \in Nat : h = c[k]
    BY <1>1
  <2>6. n = HeaderLen + h
    BY <1>2, <2>5 DEF n
  <2>7. g \in 1 .. h /\ HeaderLen + g = i
    BY <2>1, <2>3, <2>4, <2>6
  <2>2. g \in 1 .. c[k] /\ HeaderLen + g = i
    BY <2>5, <2>7
  <2> QED BY <1>1, <1>2, <2>2
<1>5. ASSUME NEW i \in 2 .. Len(w) PROVE w[i] # Magic[1]
  <2>1. CASE i <= Len(Magic)
    <3>1. i \in 2 .. Len(Magic) /\ i \in 1 .. Len(Magic)
      BY <1>3, <2>1
    <3> QED BY <1>2, <3>1, WireAssumption
  <2>2. CASE i = HeaderLen
    BY <1>1, <1>2, <2>2
  <2>3. CASE ~(i <= Len(Magic)) /\ i # HeaderLen
    <3>1. i \in HeaderLen + 1 .. Len(w)
      BY <1>1, <1>2, <1>3, <2>3
    <3> QED BY <1>1, <1>4, <3>1
  <2> QED BY <2>1, <2>2, <2>3
<1>6. w # <<>>
  <2>1. Len(w) # 0
    BY <1>1, <1>2, <1>3
  <2> QED BY <2>1
<1> QED BY <1>2, <1>4, <1>5, <1>6 DEF w, y

\* How many payloads there are of each kind.
LEMMA OnesFinite ==
  ASSUME NEW f \in Seq(Seq(Nat))
  PROVE  /\ IsFiniteSet(MixedOnes(f)) /\ Cardinality(MixedOnes(f)) \in Nat
         /\ IsFiniteSet(PureOnes(f)) /\ Cardinality(PureOnes(f)) \in Nat
<1>1. Len(f) \in Nat
  BY LenProperties
<1>2. IsFiniteSet(1 .. Len(f))
  BY <1>1, FS_Interval
<1>3. MixedOnes(f) \in SUBSET (1 .. Len(f)) /\ PureOnes(f) \in SUBSET (1 .. Len(f))
  BY DEF MixedOnes, PureOnes
<1>4. IsFiniteSet(MixedOnes(f)) /\ IsFiniteSet(PureOnes(f))
  BY <1>2, <1>3, FS_Subset
<1> QED BY <1>4, FS_CardinalityType

\* One more payload.
LEMMA OneMore ==
  ASSUME NEW f \in Seq(Seq(Nat)), NEW x \in Seq(Nat)
  PROVE  /\ f \o <<x>> \in Seq(Seq(Nat)) /\ Len(f) \in Nat /\ Len(f \o <<x>>) = Len(f) + 1
         /\ (f \o <<x>>)[Len(f) + 1] = x /\ \A h \in 1 .. Len(f) : (f \o <<x>>)[h] = f[h]
         /\ Mixed(x) => /\ Cardinality(MixedOnes(f \o <<x>>)) = Cardinality(MixedOnes(f)) + 1
                        /\ PureOnes(f \o <<x>>) = PureOnes(f)
         /\ ~Mixed(x) => /\ MixedOnes(f \o <<x>>) = MixedOnes(f)
                         /\ Cardinality(PureOnes(f \o <<x>>)) = Cardinality(PureOnes(f)) + 1
                         /\ PureOnes(f \o <<x>>) = PureOnes(f) \cup {Len(f) + 1}
<1> DEFINE S == Seq(Nat)
           e == Append(f, x)
           n == Len(f) + 1
<1>1. x \in S /\ f \in Seq(S)
  OBVIOUS
<1> HIDE DEF S
<1>2. /\ e \in Seq(S) /\ Len(e) = n /\ e[n] = x
      /\ \A h \in 1 .. Len(f) : e[h] = f[h]
  BY <1>1, AppendProperties
<1>3. f \o <<x>> = e
  BY <1>1, AppendIsConcat
<1>4. Len(f) \in Nat /\ n \in Nat
  BY <1>1, LenProperties
<1> HIDE DEF e
<1>5. \A h : h \in 1 .. Len(e) <=> h \in 1 .. Len(f) \/ h = n
  BY <1>2, <1>4
<1>6. n \notin MixedOnes(f) /\ n \notin PureOnes(f)
  BY <1>4 DEF MixedOnes, PureOnes
<1>7. n \in 1 .. Len(e) /\ \A h \in 1 .. Len(f) : h # n
  BY <1>4, <1>5
<1> HIDE DEF n
<1>8. ASSUME Mixed(x)
      PROVE  MixedOnes(e) = MixedOnes(f) \cup {n} /\ PureOnes(e) = PureOnes(f)
  BY <1>2, <1>5, <1>7, <1>8 DEF MixedOnes, PureOnes
<1>9. ASSUME ~Mixed(x)
      PROVE  MixedOnes(e) = MixedOnes(f) /\ PureOnes(e) = PureOnes(f) \cup {n}
  BY <1>2, <1>5, <1>7, <1>9 DEF MixedOnes, PureOnes
<1>10. IsFiniteSet(MixedOnes(f)) /\ IsFiniteSet(PureOnes(f))
  BY OnesFinite
<1>11. /\ Cardinality(MixedOnes(f) \cup {n}) = Cardinality(MixedOnes(f)) + 1
       /\ Cardinality(PureOnes(f) \cup {n}) = Cardinality(PureOnes(f)) + 1
  BY <1>6, <1>10, FS_AddElement
<1> QED BY <1>2, <1>3, <1>4, <1>8, <1>9, <1>11 DEF S, n

BleTypes ==
    /\ captured \in Seq(Lengths) /\ s_queue \in Seq(Nat)
    /\ rest \in Seq(Nat) /\ chunk \in Chunks
    /\ unread \in Seq(Nat) /\ found \in Seq(Seq(Nat))
    /\ intact \in BOOLEAN /\ torn \in Nat

\* The phone has found frames up to number m, and pieces.
FoundUpTo(m) ==
    /\ \A h \in PureOnes(found) : \E l \in 1 .. m : found[h] = BodyOf(captured, l)
    /\ m > 0 => \E h \in 1 .. Len(found) : found[h] = BodyOf(captured, m)

\* The frames in the queue come behind frame k, in order, and are short enough.
Behind(k) ==
    /\ \A i \in 1 .. Len(s_queue) :
         /\ k < s_queue[i] /\ s_queue[i] <= Len(captured)
         /\ captured[s_queue[i]] <= MaxSize
    /\ \A i, j \in 1 .. Len(s_queue) : i < j => s_queue[i] < s_queue[j]

\* What writer_task has left: all of frame k, or data of it.
AllOf(k) ==
    /\ k \in 1 .. Len(captured) /\ captured[k] <= MaxSize
    /\ rest = Packet(BodyOf(captured, k)) /\ rest # <<>> /\ intact
DataOf(k) == \A i \in 1 .. Len(rest) : rest[i] = 100 + k

\* The phone waits for what is left, and frame k will be whole.
Halfway(k) ==
    /\ k \in 1 .. Len(captured) /\ DataOf(k) /\ rest # <<>> /\ intact
    /\ Waits(unread) /\ HeaderLen < Len(unread) /\ unread[HeaderLen + 1] = 100 + k
    /\ unread \o rest = Packet(BodyOf(captured, k))

\* The phone waits for data that have been missed: it has taken other data for
\* them, or is going to, or what is left does not suffice.
Swallows(k) ==
    /\ Waits(unread) /\ HeaderLen < Len(unread)
    /\ \E j \in 1 .. k : unread[HeaderLen + 1] = 100 + j /\ (AllOf(k) => j < k)
    /\ \/ \E i \in HeaderLen + 1 .. Len(unread) : unread[i] # unread[HeaderLen + 1]
       \/ rest # <<>> /\ rest[1] # unread[HeaderLen + 1]
       \/ DataOf(k) /\ Waits(unread \o rest)

\* Where the phone is: every frame it has put together from pieces, and the one
\* it is about to, was paid for by a torn one.
Reading(m, k) ==
    \/ Silent(unread) /\ Cardinality(MixedOnes(found)) <= torn
    \/ Halfway(k) /\ m < k /\ Cardinality(MixedOnes(found)) <= torn
    \/ Swallows(k) /\ Cardinality(MixedOnes(found)) + 1 <= torn

\* Where the stream is: at frame k, with frame m as the last that was found.
Along(m, k) ==
    /\ k \in 0 .. Len(captured) /\ m \in 0 .. k
    /\ FoundUpTo(m) /\ Behind(k) /\ (DataOf(k) \/ (AllOf(k) /\ m < k)) /\ Reading(m, k)

BleInv == BleTypes /\ \E k, m : Along(m, k)

\* A step after which the last frame found has number n: nothing was found, or
\* a payload of pieces, or frame n.
Passing(m, n) ==
    \/ n = m /\ found' = found
       /\ (captured' = captured \/ \E x \in Lengths : captured' = Append(captured, x))
    \/ n = m /\ captured' = captured
       /\ \E x \in Seq(Nat) : Mixed(x) /\ found' = found \o <<x>>
    \/ m < n /\ captured' = captured
       /\ \E x \in Seq(Nat) : ~Mixed(x) /\ found' = found \o <<x>>

\* Nothing that the invariant is about changes.
LEMMA AlongStays ==
  ASSUME BleTypes, NEW k, NEW m, Along(m, k),
         UNCHANGED <<captured, s_queue, rest, chunk, unread, found, intact, torn>>
  PROVE  BleTypes' /\ Along(m, k)' /\ Passing(m, m)
<1>1. BleTypes' /\ Passing(m, m)
  BY DEF BleTypes, Passing
<1>2. FoundUpTo(m)' /\ Behind(k)'
  BY DEF FoundUpTo, Behind, Along
<1>3. (DataOf(k)' <=> DataOf(k)) /\ (AllOf(k)' <=> AllOf(k)) /\ (Halfway(k)' <=> Halfway(k)) /\ (Swallows(k)' <=> Swallows(k))
  BY DEF DataOf, AllOf, Halfway, Swallows
<1>4. Reading(m, k)'
  BY <1>3 DEF Reading, Along
<1> QED BY <1>1, <1>2, <1>3, <1>4 DEF Along

\* The reader goes on, or a new one begins with the rest of a frame.
LEMMA ConnectKeeps ==
  ASSUME BleTypes, NEW k, NEW m, Along(m, k), Connect
  PROVE  BleTypes' /\ Along(m, k)' /\ Passing(m, m)
<1>1. unread' \in {unread, <<>>} /\ UNCHANGED <<captured, s_queue, rest, chunk, found, intact, torn>>
  BY DEF Connect, writer, ghosts
<1>2. CASE unread' = unread
  BY <1>1, <1>2, AlongStays
<1>3. CASE unread' = <<>>
  <2>1. BleTypes' /\ Passing(m, m)
    BY <1>1, <1>3, EmptySeq DEF BleTypes, Passing
  <2>2. FoundUpTo(m)' /\ Behind(k)'
    BY <1>1 DEF FoundUpTo, Behind, Along
  <2>3. (DataOf(k)' <=> DataOf(k)) /\ (AllOf(k)' <=> AllOf(k))
    BY <1>1 DEF DataOf, AllOf
  <2>4. Silent(<<>>)
    BY EmptySeq DEF Silent
  <2>5. Cardinality(MixedOnes(found)) <= torn
    <3>1. Cardinality(MixedOnes(found)) \in Nat /\ torn \in Nat
      BY OnesFinite DEF BleTypes
    <3>2. Cardinality(MixedOnes(found)) <= torn \/ Cardinality(MixedOnes(found)) + 1 <= torn
      BY DEF Along, Reading
    <3> QED BY <3>1, <3>2
  <2>6. Reading(m, k)'
    BY <1>1, <1>3, <2>4, <2>5 DEF Reading
  <2> QED BY <1>1, <2>1, <2>2, <2>3, <2>6 DEF Along
<1> QED BY <1>1, <1>2, <1>3

\* A frame is captured, and queued or lost.
LEMMA PublishFrameKeeps ==
  ASSUME BleTypes, NEW k, NEW m, Along(m, k), PublishFrame
  PROVE  BleTypes' /\ Along(m, k)' /\ Passing(m, m)
<1>1. UNCHANGED <<rest, chunk, unread, found, intact, torn>>
  BY DEF PublishFrame, writer, phone, ghosts
<1>2. PICK n \in Lengths : captured' = Append(captured, n)
  BY DEF PublishFrame
<1>3. captured \in Seq(Lengths) /\ s_queue \in Seq(Nat) /\ Len(captured) \in Nat /\ Len(s_queue) \in Nat
  BY LenProperties DEF BleTypes
<1>4. /\ captured' \in Seq(Lengths) /\ Len(captured') = Len(captured) + 1
      /\ \A l \in 1 .. Len(captured) : captured'[l] = captured[l] /\ BodyOf(captured', l) = BodyOf(captured, l)
  BY <1>2, <1>3, AppendProperties, BodyStays
<1>5. \/ s_queue' = s_queue
      \/ s_queue' = Append(s_queue, Len(captured')) /\ captured'[Len(captured')] <= MaxSize
  BY DEF PublishFrame
<1>6. k \in Nat /\ m \in Nat /\ k <= Len(captured) /\ m <= k
  BY <1>3 DEF Along
<1>7. FoundUpTo(m)'
  <2>1. \A l \in 1 .. m : l \in 1 .. Len(captured)
    BY <1>3, <1>6
  <2>2. m > 0 => m \in 1 .. Len(captured)
    BY <1>3, <1>6
  <2>3. FoundUpTo(m)
    BY DEF Along
  <2>4. \A h \in PureOnes(found) : \E l \in 1 .. m : found[h] = BodyOf(captured', l)
    BY <1>4, <2>1, <2>3 DEF FoundUpTo
  <2>5. m > 0 => \E h \in 1 .. Len(found) : found[h] = BodyOf(captured', m)
    BY <1>4, <2>2, <2>3 DEF FoundUpTo
  <2> QED BY <1>1, <2>4, <2>5 DEF FoundUpTo
<1>8. (k \in 1 .. Len(captured) <=> k \in 1 .. Len(captured')) /\ (k \in 1 .. Len(captured) => k \in 1 .. Len(captured'))
  BY <1>3, <1>4, <1>6
<1>9. (DataOf(k)' <=> DataOf(k)) /\ (AllOf(k)' <=> AllOf(k)) /\ (Halfway(k)' <=> Halfway(k)) /\ (Swallows(k)' <=> Swallows(k))
  <2>1. DataOf(k)' <=> DataOf(k)
    BY <1>1 DEF DataOf
  <2>2. AllOf(k)' <=> AllOf(k)
    BY <1>1, <1>4, <1>8 DEF AllOf
  <2>3. Halfway(k)' <=> Halfway(k)
    BY <1>1, <1>4, <1>8, <2>1 DEF Halfway
  <2>4. Swallows(k)' <=> Swallows(k)
    BY <1>1, <2>1, <2>2 DEF Swallows
  <2> QED BY <2>1, <2>2, <2>3, <2>4
<1>10. Reading(m, k)'
  BY <1>1, <1>9 DEF Reading, Along
<1>11. k \in 0 .. Len(captured') /\ Passing(m, m)
  BY <1>1, <1>2, <1>3, <1>4, <1>6 DEF Passing
<1>12. \A i \in 1 .. Len(s_queue) :
         /\ s_queue[i] \in Nat /\ k < s_queue[i] /\ s_queue[i] <= Len(captured)
         /\ captured[s_queue[i]] <= MaxSize
  BY <1>3, ElementOfSeq DEF Along, Behind
<1>13. \A i \in 1 .. Len(s_queue) :
         /\ s_queue[i] <= Len(captured') /\ captured'[s_queue[i]] <= MaxSize
  <2>1. \A i \in 1 .. Len(s_queue) : s_queue[i] \in 1 .. Len(captured) /\ s_queue[i] <= Len(captured) + 1
    BY <1>3, <1>6, <1>12
  <2> QED BY <1>4, <1>12, <2>1
<1>14. CASE s_queue' = s_queue
  <2>1. Behind(k)'
    BY <1>12, <1>13, <1>14 DEF Along, Behind
  <2>2. BleTypes'
    BY <1>1, <1>4, <1>14 DEF BleTypes
  <2> QED BY <1>7, <1>9, <1>10, <1>11, <2>1, <2>2 DEF Along
<1>15. CASE s_queue' = Append(s_queue, Len(captured')) /\ captured'[Len(captured')] <= MaxSize
  <2>1. PICK z \in Nat : z = Len(captured')
    BY <1>3, <1>4
  <2>2. /\ s_queue' \in Seq(Nat) /\ Len(s_queue') = Len(s_queue) + 1
        /\ \A i \in 1 .. Len(s_queue) : s_queue'[i] = s_queue[i]
        /\ s_queue'[Len(s_queue) + 1] = z
    BY <1>3, <1>15, <2>1, AppendProperties
  <2>3. \A i \in 1 .. Len(s_queue') : i \in 1 .. Len(s_queue) \/ i = Len(s_queue) + 1
    BY <1>3, <2>2
  <2>4. k < z /\ z <= Len(captured') /\ captured'[z] <= MaxSize /\ \A i \in 1 .. Len(s_queue) : s_queue[i] < z
    BY <1>3, <1>4, <1>6, <1>12, <1>15, <2>1
  <2>5. ASSUME NEW i \in 1 .. Len(s_queue')
        PROVE k < s_queue'[i] /\ s_queue'[i] <= Len(captured') /\ captured'[s_queue'[i]] <= MaxSize
    BY <1>12, <1>13, <2>2, <2>3, <2>4
  <2>6. ASSUME NEW i \in 1 .. Len(s_queue'), NEW j \in 1 .. Len(s_queue'), i < j
        PROVE s_queue'[i] < s_queue'[j]
    <3>1. i \in 1 .. Len(s_queue)
      BY <1>3, <2>2, <2>6
    <3>2. CASE j \in 1 .. Len(s_queue)
      BY <2>2, <2>6, <3>1, <3>2 DEF Along, Behind
    <3>3. CASE j = Len(s_queue) + 1
      BY <2>2, <2>4, <3>1, <3>3
    <3> QED BY <2>3, <3>2, <3>3
  <2>7. Behind(k)'
    BY <2>5, <2>6 DEF Behind
  <2>8. BleTypes'
    BY <1>1, <1>4, <2>2 DEF BleTypes
  <2> QED BY <1>7, <1>9, <1>10, <1>11, <2>7, <2>8 DEF Along
<1> QED BY <1>5, <1>14, <1>15

\* The next frame of the queue is taken.
LEMMA TakeKeeps ==
  ASSUME BleTypes, NEW k, NEW m, Along(m, k), Take
  PROVE  BleTypes' /\ (\E k2 : Along(m, k2)') /\ Passing(m, m)
<1>1. /\ rest = <<>> /\ s_queue # <<>> /\ s_queue' = Tail(s_queue) /\ chunk' \in Chunks /\ intact' = TRUE
      /\ UNCHANGED <<captured, unread, found, torn>>
  BY DEF Take, phone
<1>2. /\ captured \in Seq(Lengths) /\ s_queue \in Seq(Nat) /\ unread \in Seq(Nat) /\ found \in Seq(Seq(Nat))
      /\ Len(captured) \in Nat /\ Len(s_queue) \in Nat
  BY LenProperties DEF BleTypes
<1>3. PICK z : z = Head(s_queue)
  OBVIOUS
<1>4. /\ z = s_queue[1] /\ Len(s_queue) # 0
      /\ s_queue' \in Seq(Nat) /\ Len(s_queue') = Len(s_queue) - 1
      /\ \A i \in 1 .. Len(s_queue') : s_queue'[i] = s_queue[i + 1]
  BY <1>1, <1>2, <1>3, HeadTailProperties, EmptySeq
<1>5. /\ \A i \in 1 .. Len(s_queue) :
           /\ s_queue[i] \in Nat /\ k < s_queue[i] /\ s_queue[i] <= Len(captured)
           /\ captured[s_queue[i]] <= MaxSize
      /\ \A i, j \in 1 .. Len(s_queue) : i < j => s_queue[i] < s_queue[j]
  BY <1>2, ElementOfSeq DEF Along, Behind
<1>6. 1 \in 1 .. Len(s_queue) /\ \A i \in 1 .. Len(s_queue') : i + 1 \in 1 .. Len(s_queue) /\ 1 < i + 1
  BY <1>2, <1>4
<1>7. k \in Nat /\ m \in Nat /\ m <= k
  BY <1>2 DEF Along
<1>8. z \in 1 .. Len(captured) /\ z \in 0 .. Len(captured) /\ m < z /\ k < z
      /\ captured[z] <= MaxSize /\ z \in Nat /\ m \in 0 .. z
  BY <1>2, <1>4, <1>5, <1>6, <1>7
<1>9. Behind(z)'
  <2>1. ASSUME NEW i \in 1 .. Len(s_queue')
        PROVE z < s_queue'[i] /\ s_queue'[i] <= Len(captured) /\ captured[s_queue'[i]] <= MaxSize
    BY <1>4, <1>5, <1>6
  <2>2. ASSUME NEW i \in 1 .. Len(s_queue'), NEW j \in 1 .. Len(s_queue'), i < j
        PROVE s_queue'[i] < s_queue'[j]
    <3>1. i + 1 \in 1 .. Len(s_queue) /\ j + 1 \in 1 .. Len(s_queue) /\ i + 1 < j + 1
      BY <1>2, <1>6, <2>2
    <3>2. s_queue[i + 1] < s_queue[j + 1]
      BY <1>5, <3>1
    <3> QED BY <1>4, <3>2
  <2> QED BY <1>1, <2>1, <2>2 DEF Behind
<1> DEFINE w == Packet(BodyOf(captured, z))
<1>10. w \in Seq(Nat) /\ w # <<>> /\ w[1] = Magic[1]
  BY <1>2, <1>8, PacketOf
<1>11. rest' = w \/ rest' = <<>>
  BY <1>3 DEF Take, Body, BodyOf
<1> HIDE DEF w
<1>12. BleTypes'
  BY <1>1, <1>2, <1>4, <1>10, <1>11, EmptySeq DEF BleTypes
<1>13. FoundUpTo(m)' /\ Passing(m, m)
  BY <1>1 DEF FoundUpTo, Along, Passing
<1>14. DataOf(z)' \/ AllOf(z)'
  <2>1. CASE rest' = w
    BY <1>1, <1>8, <1>10, <2>1 DEF AllOf, w
  <2>2. CASE rest' = <<>>
    <3>1. 1 .. Len(rest') = {}
      BY <2>2
    <3> QED BY <3>1 DEF DataOf
  <2> QED BY <1>11, <2>1, <2>2
<1>15. Reading(m, z)'
  <2>1. CASE Silent(unread) /\ Cardinality(MixedOnes(found)) <= torn
    BY <1>1, <2>1 DEF Reading
  <2>2. ~Halfway(k)
    BY <1>1 DEF Halfway
  <2>3. CASE Swallows(k) /\ Cardinality(MixedOnes(found)) + 1 <= torn
    <3>1. /\ Waits(unread) /\ HeaderLen < Len(unread)
          /\ \/ \E i \in HeaderLen + 1 .. Len(unread) : unread[i] # unread[HeaderLen + 1]
             \/ Waits(unread \o rest)
      BY <1>1, <2>3 DEF Swallows
    <3>2. PICK j \in 1 .. k : unread[HeaderLen + 1] = 100 + j
      BY <2>3 DEF Swallows
    <3>3. j \in 1 .. z /\ j < z
      BY <1>7, <1>8
    <3>4. Magic[1] # unread[HeaderLen + 1]
      <4>1. j \in Nat
        BY <1>7
      <4> QED BY <3>2, <4>1, BleFacts
    <3>5. \/ \E i \in HeaderLen + 1 .. Len(unread) : unread[i] # unread[HeaderLen + 1]
          \/ rest' # <<>> /\ rest'[1] # unread[HeaderLen + 1]
          \/ DataOf(z)' /\ Waits(unread \o rest')
      <4>1. CASE rest' = w
        BY <1>10, <3>4, <4>1
      <4>2. CASE rest' = <<>>
        <5>1. 1 .. Len(rest') = {}
          BY <4>2
        <5>2. DataOf(z)'
          BY <5>1 DEF DataOf
        <5> QED BY <1>1, <3>1, <4>2, <5>2
      <4> QED BY <1>11, <4>1, <4>2
    <3>6. Swallows(z)'
      BY <1>1, <3>1, <3>2, <3>3, <3>5 DEF Swallows
    <3> QED BY <1>1, <2>3, <3>6 DEF Reading
  <2> QED BY <2>1, <2>2, <2>3 DEF Reading, Along
<1>16. Along(m, z)'
  BY <1>1, <1>8, <1>9, <1>13, <1>14, <1>15 DEF Along
<1> QED BY <1>12, <1>13, <1>16

\* The chunk c is cut from frame k, and d is left.
Slice(k, c, d) ==
    /\ c \in Seq(Nat) /\ d \in Seq(Nat) /\ c # <<>> /\ c \o d = rest
    /\ \A i \in 2 .. Len(c) : c[i] # Magic[1]
    /\ \A i \in 1 .. Len(d) : d[i] = 100 + k
    /\ DataOf(k) => \A i \in 1 .. Len(c) : c[i] = 100 + k
    /\ AllOf(k) /\ d # <<>> => HeaderLen < Len(c)

\* It holds the header at the least, if it is the first.
LEMMA SliceOf ==
  ASSUME BleTypes, NEW k, k \in Nat, NEW m, DataOf(k) \/ AllOf(k), rest # <<>>
  PROVE  LET l == Min({chunk, Len(rest)})
         IN  Slice(k, SubSeq(rest, 1, l), Drop(rest, l)) /\ Len(Drop(rest, l)) < Len(rest)
<1> DEFINE l == Min({chunk, Len(rest)})
           c == SubSeq(rest, 1, l)
           d == Drop(rest, l)
<1>1. rest \in Seq(Nat) /\ chunk \in Chunks /\ captured \in Seq(Lengths)
  BY DEF BleTypes
<1>2. chunk \in Nat /\ chunk > HeaderLen /\ HeaderLen \in Nat /\ HeaderLen >= 1
  BY <1>1, BleFacts, WireTypes
<1>3. Len(rest) \in Nat /\ Len(rest) # 0
  BY <1>1, LenProperties, EmptySeq
<1>4. l \in 1 .. Len(rest) /\ (l = chunk \/ l = Len(rest))
  <2> DEFINE T == {chunk, Len(rest)}
  <2>1. T \in SUBSET Nat /\ T # {}
    BY <1>2, <1>3
  <2>2. Min(T) \in T /\ \A x \in T : Min(T) <= x
    <3> HIDE DEF T
    <3> QED BY <2>1, LeastIsMin
  <2>3. (l = chunk \/ l = Len(rest)) /\ l <= Len(rest)
    BY <2>2
  <2> HIDE DEF l
  <2> QED BY <1>2, <1>3, <2>3
<1> HIDE DEF l
<1>5. d \in Seq(Nat) /\ Len(d) = Len(rest) - l /\ \A i \in 1 .. Len(rest) - l : d[i] = rest[l + i]
  <2>1. l \in 0 .. Len(rest)
    BY <1>4
  <2> QED BY <1>1, <2>1, DropMeans
<1>6. c \in Seq(Nat) /\ Len(c) = l /\ \A i \in 1 .. l : c[i] = rest[i]
  <2>1. \A i \in 1 .. l : rest[i] \in Nat
    BY <1>1, <1>3, <1>4, ElementOfSeq
  <2>2. c \in Seq(Nat) /\ Len(c) = l - 1 + 1 /\ \A i \in 1 .. l - 1 + 1 : c[i] = rest[1 + i - 1]
    BY <1>4, <2>1, SubSeqProperties
  <2> HIDE DEF c
  <2>3. l - 1 + 1 = l /\ \A i \in 1 .. l : 1 + i - 1 = i
    BY <1>4
  <2> QED BY <2>2, <2>3
<1>7. c \o d = rest
  <2>1. 1 \in 1 .. Len(rest) + 1 /\ l \in 1 - 1 .. Len(rest) /\ Len(rest) \in l .. Len(rest)
    BY <1>3, <1>4
  <2>2. SubSeq(rest, 1, l) \o SubSeq(rest, l + 1, Len(rest)) = SubSeq(rest, 1, Len(rest))
    BY <1>1, <2>1, ConcatAdjacentSubSeq
  <2>3. SubSeq(rest, 1, Len(rest)) = rest
    BY <1>1, SubSeqFull
  <2> QED BY <2>2, <2>3 DEF Drop
<1> HIDE DEF c, d
<1>8. c # <<>> /\ Len(d) < Len(rest)
  <2>1. Len(c) # 0 /\ Len(d) < Len(rest)
    BY <1>3, <1>4, <1>5, <1>6
  <2> QED BY <2>1
<1>9. \A i \in 1 .. Len(c) : i \in 1 .. l /\ i \in 1 .. Len(rest)
  BY <1>3, <1>4, <1>6
<1>10. ASSUME NEW i \in 1 .. Len(d) PROVE i \in 1 .. Len(rest) - l /\ l + i \in 1 .. Len(rest) /\ l + i > l
  BY <1>3, <1>4, <1>5
<1>11. CASE DataOf(k) /\ ~AllOf(k)
  <2>1. \A i \in 1 .. Len(c) : c[i] = 100 + k
    BY <1>6, <1>9, <1>11 DEF DataOf
  <2>2. \A i \in 1 .. Len(d) : d[i] = 100 + k
    BY <1>5, <1>10, <1>11 DEF DataOf
  <2>3. \A i \in 2 .. Len(c) : c[i] # Magic[1]
    <3>1. \A i \in 2 .. Len(c) : i \in 1 .. Len(c)
      BY <1>4, <1>6
    <3>2. 100 + k # Magic[1]
      BY BleFacts
    <3> QED BY <2>1, <3>1, <3>2
  <2> QED BY <1>5, <1>6, <1>7, <1>8, <1>11, <2>1, <2>2, <2>3 DEF Slice, c, d, l
<1>12. CASE AllOf(k)
  <2>1. /\ k \in 1 .. Len(captured) /\ rest = Packet(BodyOf(captured, k))
    BY <1>12 DEF AllOf
  <2>2. /\ rest[1] = Magic[1] /\ \A i \in 2 .. Len(rest) : rest[i] # Magic[1]
        /\ \A i \in HeaderLen + 1 .. Len(rest) : rest[i] = 100 + k
    BY <1>1, <2>1, PacketOf
  <2>3. \A i \in 2 .. Len(c) : c[i] # Magic[1]
    <3>1. \A i \in 2 .. Len(c) : i \in 1 .. l /\ i \in 2 .. Len(rest)
      BY <1>3, <1>4, <1>6
    <3> QED BY <1>6, <2>2, <3>1
  <2>4. d # <<>> => HeaderLen < Len(c)
    <3>1. d # <<>> => Len(d) # 0
      BY <1>5, EmptySeq
    <3> QED BY <1>2, <1>3, <1>4, <1>5, <1>6, <3>1
  <2>5. ASSUME NEW i \in 1 .. Len(d) PROVE d[i] = 100 + k
    <3>1. Len(d) # 0
      BY <1>3, <1>4, <1>5
    <3>2. HeaderLen < l
      BY <1>2, <1>3, <1>4, <1>5, <3>1
    <3>3. l + i \in HeaderLen + 1 .. Len(rest)
      BY <1>2, <1>3, <1>4, <1>10, <3>2
    <3> QED BY <1>5, <1>10, <2>2, <3>3
  <2>6. ~DataOf(k)
    <3>1. 1 \in 1 .. Len(rest) /\ 100 + k # Magic[1]
      BY <1>3, BleFacts
    <3> QED BY <2>2, <3>1 DEF DataOf
  <2> QED BY <1>5, <1>6, <1>7, <1>8, <2>3, <2>4, <2>5, <2>6 DEF Slice, c, d, l
<1> QED BY <1>11, <1>12

\* What is left, or less of it, gets lost: a phone that was halfway through the
\* frame has it torn.
LEMMA LossKeeps ==
  ASSUME BleTypes, NEW k, NEW m, Along(m, k), rest # <<>>, Miss,
         NEW d \in Seq(Nat), rest' = d, Len(d) < Len(rest), \A i \in 1 .. Len(d) : d[i] = 100 + k,
         UNCHANGED <<captured, s_queue, chunk, unread, found>>
  PROVE  BleTypes' /\ Along(m, k)' /\ Passing(m, m)
<1>1. /\ captured \in Seq(Lengths) /\ rest \in Seq(Nat) /\ unread \in Seq(Nat) /\ found \in Seq(Seq(Nat))
      /\ torn \in Nat /\ k \in Nat /\ m \in Nat /\ Len(captured) \in Nat
  <2>1. Len(captured) \in Nat
    BY LenProperties DEF BleTypes
  <2> QED BY <2>1 DEF BleTypes, Along
<1>2. Len(d) \in Nat /\ Len(rest) \in Nat /\ Len(rest) # 0 /\ 1 \in 1 .. Len(rest)
  <2>1. Len(d) \in Nat /\ Len(rest) \in Nat /\ Len(rest) # 0
    BY <1>1, LenProperties, EmptySeq
  <2> QED BY <2>1
<1>3. intact' = FALSE /\ torn' \in Nat /\ torn' >= torn /\ (intact /\ rest[1] # Magic[1] => torn' = torn + 1)
  BY <1>1 DEF Miss
<1>4. BleTypes' /\ Passing(m, m)
  BY <1>3 DEF BleTypes, Passing
<1>5. FoundUpTo(m)' /\ Behind(k)' /\ DataOf(k)' /\ ~AllOf(k)'
  BY <1>3 DEF FoundUpTo, Behind, DataOf, AllOf, Along
<1>6. 100 + k # Magic[1]
  BY <1>1, BleFacts
<1> DEFINE F == Cardinality(MixedOnes(found))
<1>7. F \in Nat
  BY <1>1, OnesFinite
<1>8. MixedOnes(found)' = MixedOnes(found)
  BY DEF MixedOnes
<1> HIDE DEF F
<1>9. CASE Silent(unread) /\ F <= torn
  <2>1. F <= torn'
    BY <1>1, <1>3, <1>7, <1>9
  <2> QED BY <1>4, <1>5, <1>8, <1>9, <2>1 DEF Along, Reading, F
<1>10. CASE Halfway(k) /\ F <= torn
  <2> DEFINE y == BodyOf(captured, k)
             w == Packet(y)
  <2>1. /\ k \in 1 .. Len(captured) /\ DataOf(k) /\ intact /\ Waits(unread) /\ HeaderLen < Len(unread)
        /\ unread[HeaderLen + 1] = 100 + k /\ unread \o rest = w
    BY <1>10 DEF Halfway
  <2>2. rest[1] # Magic[1]
    BY <1>2, <1>6, <2>1 DEF DataOf
  <2>3. F + 1 <= torn'
    BY <1>1, <1>3, <1>7, <1>10, <2>1, <2>2
  <2>4. Len(w) = HeaderLen + captured[k] /\ w[HeaderLen] = captured[k] /\ captured[k] \in Nat
    <3>3. captured \in Seq(Lengths) /\ k \in 1 .. Len(captured)
      BY <1>1, <2>1
    <3>1. Len(w) = HeaderLen + captured[k] /\ w[HeaderLen] = captured[k]
      BY <3>3, PacketOf
    <3>2. captured[k] \in Nat
      BY <1>1, <2>1, BodyMeans
    <3> QED BY <3>1, <3>2
  <2> HIDE DEF w
  <2>5. /\ Len(w) = Len(unread) + Len(rest) /\ \A i \in 1 .. Len(unread) : w[i] = unread[i]
    BY <1>1, <2>1, ConcatMeans
  <2>6. /\ Len(unread) \in Nat /\ HeaderLen \in 1 .. Len(unread) /\ HeaderLen \in Nat
        /\ Ends(unread, 1) = HeaderLen + 1 + unread[HeaderLen]
    BY <1>1, <2>1, WaitsMeans
  <2>7. unread[HeaderLen] = captured[k]
    BY <2>4, <2>5, <2>6
  <2>8. Ends(unread, 1) > Len(unread) + Len(d) + 1
    <3>1. HeaderLen + captured[k] = Len(unread) + Len(rest)
      BY <2>4, <2>5
    <3>2. Ends(unread, 1) = HeaderLen + 1 + captured[k]
      BY <2>6, <2>7
    <3> QED BY <1>2, <2>4, <2>6, <3>1, <3>2
  <2>9. Waits(unread \o d)
    BY <1>1, <2>1, <2>8, WaitsLonger
  <2>10. k \in 1 .. k
    BY <1>1, <2>1
  <2>11. Swallows(k)'
    BY <1>5, <2>1, <2>9, <2>10 DEF Swallows
  <2> QED BY <1>4, <1>5, <1>8, <2>3, <2>11 DEF Along, Reading, F
<1>11. CASE Swallows(k) /\ F + 1 <= torn
  <2>1. F + 1 <= torn'
    BY <1>1, <1>3, <1>7, <1>11
  <2>2. /\ Waits(unread) /\ HeaderLen < Len(unread)
    BY <1>11 DEF Swallows
  <2>3. PICK j \in 1 .. k : unread[HeaderLen + 1] = 100 + j /\ (AllOf(k) => j < k)
    BY <1>11 DEF Swallows
  <2>4. \/ \E i \in HeaderLen + 1 .. Len(unread) : unread[i] # unread[HeaderLen + 1]
        \/ d # <<>> /\ d[1] # unread[HeaderLen + 1]
        \/ Waits(unread \o d)
    <3>1. CASE \E i \in HeaderLen + 1 .. Len(unread) : unread[i] # unread[HeaderLen + 1]
      BY <3>1
    <3>2. CASE d = <<>>
      <4>1. unread \o d = unread
        BY <1>1, <3>2, ConcatEmptySeq
      <4> QED BY <2>2, <4>1
    <3>3. CASE d # <<>> /\ rest[1] # unread[HeaderLen + 1]
      <4>1. 1 \in 1 .. Len(d)
        <5>1. Len(d) # 0
          BY <3>3, EmptySeq
        <5> QED BY <1>2, <5>1
      <4>2. d[1] = 100 + k
        BY <4>1
      <4>3. CASE DataOf(k)
        <5>1. rest[1] = 100 + k
          BY <1>2, <4>3 DEF DataOf
        <5> QED BY <3>3, <4>2, <5>1
      <4>4. CASE AllOf(k)
        <5>1. 100 + k # 100 + j
          BY <1>1, <2>3, <4>4
        <5> QED BY <2>3, <3>3, <4>2, <5>1
      <4> QED BY <4>3, <4>4 DEF Along
    <3>4. CASE Waits(unread \o rest)
      <4>1. Len(d) <= Len(rest)
        BY <1>2
      <4> QED BY <1>1, <2>2, <3>4, <4>1, WaitsShorter
    <3> QED BY <1>11, <3>1, <3>2, <3>3, <3>4 DEF Swallows
  <2>5. Swallows(k)'
    BY <1>5, <2>2, <2>3, <2>4 DEF Swallows
  <2> QED BY <1>4, <1>5, <1>8, <2>1, <2>5 DEF Along, Reading, F
<1> QED BY <1>9, <1>10, <1>11 DEF Along, Reading, F

\* A chunk that does not get through.
LEMMA NotifyLostKeeps ==
  ASSUME BleTypes, NEW k, NEW m, Along(m, k), NotifyLost
  PROVE  BleTypes' /\ Along(m, k)' /\ Passing(m, m)
<1> DEFINE l == Min({chunk, Len(rest)})
           c == SubSeq(rest, 1, l)
           d == Drop(rest, l)
<1>1. rest # <<>> /\ rest' = d /\ Miss /\ UNCHANGED <<captured, s_queue, chunk, unread, found>>
  BY DEF NotifyLost, phone
<1>2. k \in Nat
  <2>1. Len(captured) \in Nat
    BY LenProperties DEF BleTypes
  <2> QED BY <2>1 DEF Along
<1>3. Slice(k, c, d) /\ Len(d) < Len(rest)
  BY <1>1, <1>2, SliceOf DEF Along
<1> HIDE DEF c, d
<1>4. d \in Seq(Nat) /\ \A i \in 1 .. Len(d) : d[i] = 100 + k
  BY <1>3 DEF Slice
<1> QED BY <1>1, <1>3, <1>4, LossKeeps

\* The loop breaks.
LEMMA BreakKeeps ==
  ASSUME BleTypes, NEW k, NEW m, Along(m, k), NotifyBreaks
  PROVE  BleTypes' /\ Along(m, k)' /\ Passing(m, m)
<1> DEFINE d == <<>>
<1>1. rest # <<>> /\ rest' = d /\ Miss /\ UNCHANGED <<captured, s_queue, chunk, unread, found>>
  BY DEF NotifyBreaks, phone
<1>2. d \in Seq(Nat) /\ Len(d) = 0
  BY EmptySeq
<1> HIDE DEF d
<1>3. Len(d) < Len(rest)
  <2>1. rest \in Seq(Nat)
    BY DEF BleTypes
  <2>2. Len(rest) \in Nat /\ Len(rest) # 0
    BY <1>1, <2>1, LenProperties, EmptySeq
  <2> QED BY <1>2, <2>2
<1>4. \A i \in 1 .. Len(d) : d[i] = 100 + k
  BY <1>2
<1> QED BY <1>1, <1>2, <1>3, <1>4, LossKeeps

\* A chunk gets through.
Sent(c, d) ==
    /\ unread' = Feed(unread, c).buf /\ found' = found \o Feed(unread, c).frames /\ rest' = d
    /\ UNCHANGED <<captured, s_queue, chunk, intact, torn>>

\* It completes nothing.
LEMMA NothingFound ==
  ASSUME BleTypes, NEW k, NEW m, Along(m, k), NEW c, NEW d, Slice(k, c, d), Sent(c, d),
         Feed(unread, c).frames = <<>>, Feed(unread, c).buf \in Seq(Nat)
  PROVE  /\ BleTypes' /\ Passing(m, m) /\ DataOf(k)' /\ found' = found
         /\ Reading(m, k)' => Along(m, k)'
<1>1. found' = found
  BY ConcatEmptySeq DEF Sent, BleTypes
<1>2. BleTypes' /\ Passing(m, m)
  BY <1>1 DEF BleTypes, Passing, Sent, Slice
<1>3. FoundUpTo(m)' /\ Behind(k)' /\ DataOf(k)'
  BY <1>1 DEF FoundUpTo, Behind, DataOf, Along, Sent, Slice
<1> QED BY <1>1, <1>2, <1>3 DEF Along, Sent

\* It completes a payload of pieces, which a torn frame has paid for.
LEMMA PiecesFound ==
  ASSUME BleTypes, NEW k, NEW m, Along(m, k), NEW c, NEW d, Slice(k, c, d), Sent(c, d),
         NEW x \in Seq(Nat), Mixed(x), Feed(unread, c).frames = <<x>>,
         Feed(unread, c).buf \in Seq(Nat), Silent(Feed(unread, c).buf),
         Cardinality(MixedOnes(found)) + 1 <= torn
  PROVE  BleTypes' /\ Passing(m, m) /\ Along(m, k)'
<1>1. found \in Seq(Seq(Nat)) /\ found' = found \o <<x>>
  BY DEF Sent, BleTypes
<1>2. /\ found' \in Seq(Seq(Nat)) /\ Len(found) \in Nat /\ Len(found') = Len(found) + 1
      /\ \A h \in 1 .. Len(found) : found'[h] = found[h]
      /\ Cardinality(MixedOnes(found')) = Cardinality(MixedOnes(found)) + 1
      /\ PureOnes(found') = PureOnes(found)
  BY <1>1, OneMore
<1>3. BleTypes' /\ Passing(m, m)
  BY <1>1, <1>2 DEF BleTypes, Passing, Sent, Slice
<1>4. FoundUpTo(m)'
  <2>1. \A h \in PureOnes(found) : h \in 1 .. Len(found)
    BY DEF PureOnes
  <2>2. \A h \in PureOnes(found') : \E l \in 1 .. m : found'[h] = BodyOf(captured, l)
    BY <1>2, <2>1 DEF FoundUpTo, Along
  <2>3. \A h \in 1 .. Len(found) : h \in 1 .. Len(found')
    BY <1>2
  <2>4. m > 0 => \E h \in 1 .. Len(found') : found'[h] = BodyOf(captured, m)
    BY <1>2, <2>3 DEF FoundUpTo, Along
  <2>5. captured' = captured
    BY DEF Sent
  <2> QED BY <2>2, <2>4, <2>5 DEF FoundUpTo
<1>5. Behind(k)' /\ DataOf(k)'
  BY DEF Behind, DataOf, Along, Sent, Slice
<1>6. Reading(m, k)'
  BY <1>2 DEF Reading, Sent
<1> QED BY <1>3, <1>4, <1>5, <1>6 DEF Along, Sent

\* It completes frame k.
LEMMA FrameFound ==
  ASSUME BleTypes, NEW k, NEW m, Along(m, k), NEW c, NEW d, Slice(k, c, d), Sent(c, d),
         m < k, k \in 1 .. Len(captured), Feed(unread, c).frames = <<BodyOf(captured, k)>>,
         Feed(unread, c).buf \in Seq(Nat), Silent(Feed(unread, c).buf),
         Cardinality(MixedOnes(found)) <= torn
  PROVE  BleTypes' /\ Passing(m, k) /\ Along(k, k)'
<1> DEFINE x == BodyOf(captured, k)
<1>1. found \in Seq(Seq(Nat)) /\ found' = found \o <<x>> /\ captured \in Seq(Lengths)
  BY DEF Sent, BleTypes
<1>2. x \in Seq(Nat) /\ ~Mixed(x) /\ k \in Nat /\ k > 0 /\ Len(captured) \in Nat /\ k \in 0 .. Len(captured) /\ k \in 0 .. k
  <2>1. x \in Seq(Nat) /\ ~Mixed(x) /\ k \in Nat
    BY <1>1, BodyMeans
  <2>2. Len(captured) \in Nat
    BY <1>1, LenProperties
  <2> QED BY <2>1, <2>2
<1> HIDE DEF x
<1>3. /\ found' \in Seq(Seq(Nat)) /\ Len(found) \in Nat /\ Len(found') = Len(found) + 1
      /\ found'[Len(found) + 1] = x
      /\ \A h \in 1 .. Len(found) : found'[h] = found[h]
      /\ MixedOnes(found') = MixedOnes(found)
      /\ PureOnes(found') = PureOnes(found) \cup {Len(found) + 1}
  BY <1>1, <1>2, OneMore
<1>4. BleTypes' /\ Passing(m, k)
  BY <1>1, <1>2, <1>3 DEF BleTypes, Passing, Sent, Slice
<1>5. FoundUpTo(k)'
  <2>1. \A h \in PureOnes(found) : h \in 1 .. Len(found)
    BY DEF PureOnes
  <2>2. m \in Nat /\ \A l \in 1 .. m : l \in 1 .. k
    <3>1. m \in 0 .. k
      BY DEF Along
    <3> QED BY <1>2, <3>1
  <2>3. \A h \in PureOnes(found) : \E l \in 1 .. k : found'[h] = BodyOf(captured, l)
    BY <1>3, <2>1, <2>2 DEF FoundUpTo, Along
  <2>4. k \in 1 .. k /\ Len(found) + 1 \in 1 .. Len(found')
    BY <1>2, <1>3
  <2>5. \A h \in PureOnes(found') : \E l \in 1 .. k : found'[h] = BodyOf(captured, l)
    BY <1>3, <2>3, <2>4 DEF x
  <2>6. \E h \in 1 .. Len(found') : found'[h] = BodyOf(captured, k)
    BY <1>3, <2>4 DEF x
  <2>7. captured' = captured
    BY DEF Sent
  <2> QED BY <2>5, <2>6, <2>7 DEF FoundUpTo
<1>6. Behind(k)' /\ DataOf(k)'
  BY DEF Behind, DataOf, Along, Sent, Slice
<1>7. Reading(k, k)'
  BY <1>3 DEF Reading, Sent
<1>8. captured' = captured
  BY DEF Sent
<1> QED BY <1>2, <1>4, <1>5, <1>6, <1>7, <1>8 DEF Along

\* A chunk for a phone that holds nothing of a frame.
LEMMA SilentHears ==
  ASSUME BleTypes, NEW k, NEW m, Along(m, k), NEW c, NEW d, Slice(k, c, d), Sent(c, d),
         Silent(unread), Cardinality(MixedOnes(found)) <= torn
  PROVE  BleTypes' /\ \E n : Along(n, k)' /\ Passing(m, n)
<1>1. c \in Seq(Nat) /\ d \in Seq(Nat) /\ unread \in Seq(Nat) /\ captured \in Seq(Lengths) /\ c \o d = rest
  BY DEF Slice, BleTypes
<1>2. CASE DataOf(k)
  <2>1. Silent(c)
    <3>1. k \in Nat
      <4>1. Len(captured) \in Nat
        BY <1>1, LenProperties
      <4> QED BY <4>1 DEF Along
    <3>2. 100 + k # Magic[1]
      BY <3>1, BleFacts
    <3> QED BY <1>2, <3>2 DEF Silent, Slice
  <2>2. Silent(Feed(unread, c).buf) /\ Feed(unread, c).frames = <<>> /\ Feed(unread, c).buf \in Seq(Nat)
    BY <1>1, <2>1, NoiseFeeds
  <2>3. BleTypes' /\ Passing(m, m) /\ found' = found /\ (Reading(m, k)' => Along(m, k)')
    BY <2>2, NothingFound
  <2>4. Reading(m, k)'
    BY <2>2, <2>3 DEF Reading, Sent
  <2> QED BY <2>3, <2>4
<1>3. CASE AllOf(k) /\ m < k
  <2> DEFINE y == BodyOf(captured, k)
  <2>1. k \in 1 .. Len(captured) /\ captured[k] <= MaxSize /\ rest = Packet(y) /\ intact
    BY <1>3 DEF AllOf
  <2>2. /\ y \in Seq(Nat) /\ Silent(y) /\ Len(y) # Magic[1] /\ Len(y) <= MaxPayload /\ captured[k] \in Nat
    <3>1. y \in Seq(Nat) /\ Silent(y) /\ Len(y) = captured[k] /\ captured[k] # Magic[1] /\ captured[k] \in Nat
      BY <1>1, <2>1, BodyMeans
    <3> HIDE DEF y
    <3> QED BY <2>1, <3>1, BleFacts
  <2>3. CASE d = <<>>
    <3>1. c = Packet(y)
      <4>1. c \o d = c
        BY <1>1, <2>3, ConcatEmptySeq
      <4> QED BY <1>1, <2>1, <4>1
    <3> HIDE DEF y
    <3>2. Bears(unread \o c, y)
      BY <1>1, <2>2, <3>1, PacketBears
    <3>3. Feed(unread, c).frames = <<y>> /\ Feed(unread, c).buf = <<>>
      BY <1>1, <3>2, LastFeeds
    <3>4. Feed(unread, c).buf \in Seq(Nat) /\ Silent(Feed(unread, c).buf)
      BY <3>3, EmptySeq DEF Silent
    <3>5. BleTypes' /\ Passing(m, k) /\ Along(k, k)'
      BY <1>3, <2>1, <3>3, <3>4, FrameFound DEF y
    <3> QED BY <3>5
  <2>4. CASE d # <<>>
    <3>1. HeaderLen < Len(c)
      BY <1>3, <2>4 DEF Slice
    <3>2. HeaderLen \in Nat /\ Len(c) \in Nat /\ HeaderLen <= Len(c) /\ HeaderLen + 1 \in 1 .. Len(c)
      <4>1. HeaderLen \in Nat /\ Len(c) \in Nat
        BY <1>1, LenProperties, WireTypes
      <4> QED BY <3>1, <4>1
    <3>3. Feed(unread, c).frames = <<>> /\ Feed(unread, c).buf = c /\ Waits(c)
      <4> HIDE DEF y
      <4>1. c \o d = Packet(y)
        BY <1>1, <2>1
      <4> QED BY <1>1, <2>2, <2>4, <3>2, <4>1, BeginFeeds
    <3>4. BleTypes' /\ Passing(m, m) /\ DataOf(k)' /\ found' = found /\ (Reading(m, k)' => Along(m, k)')
      BY <1>1, <3>3, NothingFound
    <3>5. c[HeaderLen + 1] = 100 + k
      <4>1. \A i \in HeaderLen + 1 .. Len(rest) : rest[i] = 100 + k
        BY <1>1, <2>1, PacketOf
      <4>2. Len(rest) = Len(c) + Len(d) /\ Len(d) \in Nat /\ \A i \in 1 .. Len(c) : rest[i] = c[i]
        BY <1>1, ConcatMeans
      <4>3. HeaderLen + 1 \in HeaderLen + 1 .. Len(rest)
        BY <3>2, <4>2
      <4> QED BY <3>2, <4>1, <4>2, <4>3
    <3>6. Halfway(k)'
      <4>1. rest' = d /\ unread' = c /\ captured' = captured /\ intact' = intact
        BY <3>3 DEF Sent
      <4> QED BY <1>1, <2>1, <2>4, <3>1, <3>3, <3>4, <3>5, <4>1 DEF Halfway
    <3>7. Reading(m, k)'
      BY <1>3, <3>4, <3>6 DEF Reading, Sent
    <3> QED BY <3>4, <3>7
  <2> QED BY <2>3, <2>4
<1> QED BY <1>2, <1>3 DEF Along

\* A chunk for a phone that waits for it.
LEMMA HalfwayHears ==
  ASSUME BleTypes, NEW k, NEW m, Along(m, k), NEW c, NEW d, Slice(k, c, d), Sent(c, d),
         Halfway(k), m < k, Cardinality(MixedOnes(found)) <= torn
  PROVE  BleTypes' /\ \E n : Along(n, k)' /\ Passing(m, n)
<1> DEFINE y == BodyOf(captured, k)
           w == Packet(y)
           b == unread
           E == Ends(b, 1)
<1>1. /\ c \in Seq(Nat) /\ d \in Seq(Nat) /\ b \in Seq(Nat) /\ captured \in Seq(Lengths) /\ c \o d = rest
      /\ \A i \in 2 .. Len(c) : c[i] # Magic[1]
  BY DEF Slice, BleTypes
<1>2. /\ k \in 1 .. Len(captured) /\ intact /\ Waits(b) /\ HeaderLen < Len(b)
      /\ b[HeaderLen + 1] = 100 + k /\ b \o rest = w
  BY DEF Halfway
<1>3. /\ w \in Seq(Nat) /\ Len(w) = HeaderLen + captured[k] /\ w[HeaderLen] = captured[k]
      /\ captured[k] \in Nat /\ y \in Seq(Nat) /\ Len(y) = captured[k]
  <2>3. captured \in Seq(Lengths) /\ k \in 1 .. Len(captured)
    BY <1>1, <1>2
  <2>1. w \in Seq(Nat) /\ Len(w) = HeaderLen + captured[k] /\ w[HeaderLen] = captured[k]
    BY <2>3, PacketOf
  <2>2. captured[k] \in Nat /\ y \in Seq(Nat) /\ Len(y) = captured[k]
    BY <1>1, <1>2, BodyMeans
  <2> QED BY <2>1, <2>2
<1>4. b \o rest = (b \o c) \o d
  BY <1>1, ThreeParts
<1>5. SubSeq(w, HeaderLen + 1, HeaderLen + captured[k]) = y
  <2>1. Header(Len(y)) \in Seq(Nat) /\ Len(Header(Len(y))) = HeaderLen
    BY <1>3, HeaderMeans
  <2>2. SubSeq(Header(Len(y)) \o y, HeaderLen + 1, HeaderLen + Len(y)) = y
    <3> DEFINE h == Header(Len(y))
    <3>1. SubSeq(h \o y, Len(h) + 1, Len(h) + Len(y)) = y
      <4> HIDE DEF h, y
      <4> QED BY <1>3, <2>1, SubSeqBehind DEF h
    <3> QED BY <2>1, <3>1
  <2> QED BY <1>3, <2>2 DEF Packet
<1> HIDE DEF y, w
<1>6. /\ Len(b) \in Nat /\ Len(c) \in Nat /\ Len(d) \in Nat /\ Len(b \o c) = Len(b) + Len(c)
      /\ b \o c \in Seq(Nat) /\ Len(w) = Len(b) + Len(c) + Len(d)
      /\ \A i \in 1 .. Len(b) : w[i] = b[i] /\ (b \o c)[i] = b[i]
  <2>1. /\ Len(b) \in Nat /\ Len(c) \in Nat /\ Len(b \o c) = Len(b) + Len(c) /\ b \o c \in Seq(Nat)
        /\ \A i \in 1 .. Len(b) : (b \o c)[i] = b[i]
    BY <1>1, ConcatMeans
  <2>2. /\ Len(d) \in Nat /\ Len((b \o c) \o d) = Len(b \o c) + Len(d)
        /\ \A i \in 1 .. Len(b \o c) : ((b \o c) \o d)[i] = (b \o c)[i]
    BY <1>1, <2>1, ConcatMeans
  <2>3. w = (b \o c) \o d
    BY <1>2, <1>4
  <2>4. \A i \in 1 .. Len(b) : i \in 1 .. Len(b \o c)
    BY <2>1
  <2> QED BY <2>1, <2>2, <2>3, <2>4
<1>7. /\ HeaderLen \in 1 .. Len(b) /\ HeaderLen \in Nat /\ E = HeaderLen + 1 + b[HeaderLen]
  BY <1>1, <1>2, WaitsMeans
<1> HIDE DEF E
<1>8. E = HeaderLen + captured[k] + 1 /\ E = Len(b) + Len(c) + Len(d) + 1
  <2>1. b[HeaderLen] = captured[k]
    BY <1>3, <1>6, <1>7
  <2>2. E = HeaderLen + 1 + captured[k] /\ HeaderLen \in Nat /\ captured[k] \in Nat
    BY <1>3, <1>7, <2>1
  <2>3. HeaderLen + captured[k] = Len(b) + Len(c) + Len(d)
    BY <1>3, <1>6
  <2>4. Len(b) \in Nat /\ Len(c) \in Nat /\ Len(d) \in Nat
    BY <1>6
  <2>5. E = (HeaderLen + captured[k]) + 1
    BY <2>2
  <2> QED BY <2>3, <2>4, <2>5
<1>9. CASE /\ E > Len(b) + Len(c) + 1
           /\ Feed(b, c).buf = b \o c /\ Waits(b \o c) /\ Feed(b, c).frames = <<>>
  <2>1. BleTypes' /\ Passing(m, m) /\ DataOf(k)' /\ found' = found /\ (Reading(m, k)' => Along(m, k)')
    BY <1>6, <1>9, NothingFound
  <2>2. rest' = d /\ unread' = b \o c /\ captured' = captured /\ intact' = intact /\ torn' = torn
    BY <1>9 DEF Sent
  <2>3. d # <<>>
    <3>1. Len(d) # 0
      BY <1>6, <1>8, <1>9
    <3> QED BY <3>1
  <2>4. HeaderLen < Len(b \o c) /\ (b \o c)[HeaderLen + 1] = 100 + k
    <3>1. HeaderLen + 1 \in 1 .. Len(b) /\ HeaderLen < Len(b) + Len(c)
      BY <1>2, <1>6, <1>7
    <3> QED BY <1>2, <1>6, <3>1
  <2>5. Halfway(k)'
    BY <1>2, <1>4, <1>9, <2>1, <2>2, <2>3, <2>4 DEF Halfway, w, y
  <2>6. Reading(m, k)'
    BY <2>1, <2>2, <2>5 DEF Reading
  <2> QED BY <2>1, <2>6
<1>10. CASE /\ E <= Len(b) + Len(c) + 1
            /\ Silent(Feed(b, c).buf) /\ Feed(b, c).buf \in Seq(Nat)
            /\ Feed(b, c).frames = <<SubSeq(b \o c, HeaderLen + 1, E - 1)>>
  <2>1. d = <<>>
    <3>1. Len(d) = 0
      BY <1>6, <1>8, <1>10
    <3> QED BY <1>1, <3>1, EmptySeq
  <2>2. b \o c = w
    <3>1. c \o d = c
      BY <1>1, <2>1, ConcatEmptySeq
    <3> QED BY <1>1, <1>2, <3>1
  <2>3. E - 1 = HeaderLen + captured[k]
    BY <1>3, <1>7, <1>8
  <2>4. Feed(b, c).frames = <<y>>
    BY <1>5, <1>10, <2>2, <2>3
  <2>5. BleTypes' /\ Passing(m, k) /\ Along(k, k)'
    BY <1>2, <1>10, <2>4, FrameFound DEF y
  <2> QED BY <2>5
<1> QED BY <1>1, <1>2, <1>9, <1>10, WaitingFeeds DEF E

\* A chunk for a phone that waits for data that it has missed.
LEMMA SwallowsHears ==
  ASSUME BleTypes, NEW k, NEW m, Along(m, k), NEW c, NEW d, Slice(k, c, d), Sent(c, d),
         Swallows(k), Cardinality(MixedOnes(found)) + 1 <= torn
  PROVE  BleTypes' /\ \E n : Along(n, k)' /\ Passing(m, n)
<1> DEFINE b == unread
<1>1. /\ c \in Seq(Nat) /\ d \in Seq(Nat) /\ b \in Seq(Nat) /\ c \o d = rest /\ c # <<>>
      /\ \A i \in 2 .. Len(c) : c[i] # Magic[1]
  BY DEF Slice, BleTypes
<1>2. Waits(b) /\ HeaderLen < Len(b)
  BY DEF Swallows
<1>3. PICK j \in 1 .. k : b[HeaderLen + 1] = 100 + j
  BY DEF Swallows
<1>4. c[1] = rest[1]
  <2>1. Len(c) # 0 /\ Len(c) \in Nat
    BY <1>1, LenProperties, EmptySeq
  <2>2. 1 \in 1 .. Len(c)
    BY <2>1
  <2> QED BY <1>1, <2>2, LongerStream
<1>5. ASSUME Feed(b, c).buf = b \o c, Feed(b, c).frames = <<>>, Waits(b \o c),
             HeaderLen < Len(b \o c), (b \o c)[HeaderLen + 1] = b[HeaderLen + 1],
             \/ \E i \in HeaderLen + 1 .. Len(b \o c) : (b \o c)[i] # (b \o c)[HeaderLen + 1]
             \/ Waits((b \o c) \o d)
      PROVE  BleTypes' /\ \E n : Along(n, k)' /\ Passing(m, n)
  <2>1. b \o c \in Seq(Nat)
    BY <1>1, ConcatMeans
  <2>2. BleTypes' /\ Passing(m, m) /\ DataOf(k)' /\ found' = found /\ (Reading(m, k)' => Along(m, k)')
    BY <1>5, <2>1, NothingFound
  <2>3. rest' = d /\ unread' = b \o c /\ captured' = captured /\ intact' = intact /\ torn' = torn
    BY <1>5 DEF Sent
  <2>4. ~AllOf(k)'
    <3>1. CASE d = <<>>
      BY <2>3, <3>1 DEF AllOf
    <3>2. CASE d # <<>>
      <4>1. 1 \in 1 .. Len(d)
        <5>1. Len(d) # 0 /\ Len(d) \in Nat
          BY <1>1, <3>2, LenProperties, EmptySeq
        <5> QED BY <5>1
      <4>2. d[1] = 100 + k
        BY <4>1 DEF Slice
      <4>3. ASSUME AllOf(k)' PROVE FALSE
        <5>1. k \in 1 .. Len(captured) /\ d = Packet(BodyOf(captured, k))
          BY <2>3, <4>3 DEF AllOf
        <5>2. captured \in Seq(Lengths)
          BY DEF BleTypes
        <5>3. d[1] = Magic[1] /\ 100 + k # Magic[1]
          BY <5>1, <5>2, PacketOf, BodyMeans
        <5> QED BY <4>2, <5>3
      <4> QED BY <4>3
    <3> QED BY <3>1, <3>2
  <2>5. Swallows(k)'
    BY <1>3, <1>5, <2>2, <2>3, <2>4 DEF Swallows
  <2>6. Reading(m, k)'
    BY <2>2, <2>3, <2>5 DEF Reading
  <2> QED BY <2>2, <2>6
<1>6. CASE \/ \E i \in HeaderLen + 1 .. Len(b) : b[i] # b[HeaderLen + 1]
           \/ c[1] # b[HeaderLen + 1]
  <2>1. CASE /\ Feed(b, c).buf = b \o c /\ Waits(b \o c) /\ Feed(b, c).frames = <<>>
             /\ HeaderLen < Len(b \o c) /\ (b \o c)[HeaderLen + 1] = b[HeaderLen + 1]
             /\ \E i \in HeaderLen + 1 .. Len(b \o c) : (b \o c)[i] # (b \o c)[HeaderLen + 1]
    BY <1>5, <2>1
  <2>2. CASE /\ Silent(Feed(b, c).buf) /\ Feed(b, c).buf \in Seq(Nat)
             /\ \E x \in Seq(Nat) : Mixed(x) /\ Feed(b, c).frames = <<x>>
    <3>1. BleTypes' /\ Passing(m, m) /\ Along(m, k)'
      BY <2>2, PiecesFound
    <3> QED BY <3>1
  <2> QED BY <1>1, <1>2, <1>6, <2>1, <2>2, SwallowFeeds
<1>7. CASE Waits(b \o rest)
  <2>1. b \o rest = (b \o c) \o d
    BY <1>1, ThreeParts
  <2>2. rest \in Seq(Nat) /\ Len(c) \in Nat /\ Len(d) \in Nat /\ Len(rest) = Len(c) + Len(d) /\ Len(b) \in Nat
    BY <1>1, ConcatMeans
  <2>3. Ends(b, 1) > Len(b) + Len(rest) + 1 /\ Ends(b, 1) \in Nat
    BY <1>1, <1>2, <1>7, <2>2, WaitsLonger, WaitsMeans
  <2>4. ~(Ends(b, 1) <= Len(b) + Len(c) + 1)
    BY <2>2, <2>3
  <2>5. Feed(b, c).buf = b \o c /\ Waits(b \o c) /\ Feed(b, c).frames = <<>>
    BY <1>1, <1>2, <2>4, WaitingFeeds
  <2>6. HeaderLen < Len(b \o c) /\ (b \o c)[HeaderLen + 1] = b[HeaderLen + 1]
    <3>1. Len(b \o c) = Len(b) + Len(c) /\ \A i \in 1 .. Len(b) : (b \o c)[i] = b[i]
      BY <1>1, ConcatMeans
    <3>2. HeaderLen \in Nat /\ HeaderLen + 1 \in 1 .. Len(b)
      BY <1>2, <2>2, WireTypes
    <3> QED BY <1>2, <2>2, <3>1, <3>2
  <2>7. Waits((b \o c) \o d)
    BY <1>7, <2>1
  <2> QED BY <1>5, <2>5, <2>6, <2>7
<1> QED BY <1>4, <1>6, <1>7 DEF Swallows

\* A chunk reaches the phone.
LEMMA NotifyKeeps ==
  ASSUME BleTypes, NEW k, NEW m, Along(m, k), Notify
  PROVE  BleTypes' /\ \E n : Along(n, k)' /\ Passing(m, n)
<1> DEFINE l == Min({chunk, Len(rest)})
           c == SubSeq(rest, 1, l)
           d == Drop(rest, l)
<1>1. rest # <<>> /\ Sent(c, d)
  BY DEF Notify, Sent, ghosts
<1>2. k \in Nat
  <2>1. Len(captured) \in Nat
    BY LenProperties DEF BleTypes
  <2> QED BY <2>1 DEF Along
<1>3. Slice(k, c, d)
  BY <1>1, <1>2, SliceOf DEF Along
<1> HIDE DEF c, d
<1>4. CASE Silent(unread) /\ Cardinality(MixedOnes(found)) <= torn
  BY <1>1, <1>3, <1>4, SilentHears
<1>5. CASE Halfway(k) /\ m < k /\ Cardinality(MixedOnes(found)) <= torn
  BY <1>1, <1>3, <1>5, HalfwayHears
<1>6. CASE Swallows(k) /\ Cardinality(MixedOnes(found)) + 1 <= torn
  BY <1>1, <1>3, <1>6, SwallowsHears
<1> QED BY <1>4, <1>5, <1>6 DEF Along, Reading

\* A stream that has begun.
LEMMA BleInitInv == BleInit => BleInv
<1> SUFFICES ASSUME BleInit PROVE BleInv
  OBVIOUS
<1>1. /\ captured = <<>> /\ s_queue = <<>> /\ rest = <<>> /\ unread = <<>> /\ found = <<>>
      /\ chunk \in Chunks /\ intact = FALSE /\ torn = 0
  BY DEF BleInit
<1>2. BleTypes
  BY <1>1, EmptySeq DEF BleTypes
<1>3. Len(captured) = 0 /\ Len(s_queue) = 0 /\ Len(rest) = 0 /\ Len(found) = 0 /\ 0 \in 0 .. 0 /\ 1 .. 0 = {}
  BY <1>1
<1>4. MixedOnes(found) = {} /\ PureOnes(found) = {}
  BY <1>3 DEF MixedOnes, PureOnes
<1>5. FoundUpTo(0) /\ Behind(0) /\ DataOf(0)
  BY <1>3, <1>4 DEF FoundUpTo, Behind, DataOf
<1>6. Reading(0, 0)
  <2>1. Silent(unread)
    BY <1>1, EmptySeq DEF Silent
  <2>2. Cardinality(MixedOnes(found)) <= torn
    <3>1. Cardinality({}) = 0
      BY FS_EmptySet
    <3>2. torn = 0 /\ MixedOnes(found) = {}
      BY <1>1, <1>4
    <3> QED BY <3>1, <3>2
  <2> QED BY <2>1, <2>2 DEF Reading
<1> QED BY <1>2, <1>3, <1>5, <1>6 DEF BleInv, Along

\* Every step takes the stream along, and passes at most one frame.
LEMMA BleStep ==
  ASSUME BleTypes, NEW k, NEW m, Along(m, k), [BleNext]_bleVars
  PROVE  BleTypes' /\ \E k2, n : Along(n, k2)' /\ Passing(m, n)
<1>1. CASE Connect
  BY <1>1, ConnectKeeps
<1>2. CASE Subscribe \/ LinkDies \/ Disconnect \/ UNCHANGED bleVars
  <2>1. UNCHANGED <<captured, s_queue, rest, chunk, unread, found, intact, torn>>
    BY <1>2 DEF Subscribe, LinkDies, Disconnect, bleVars, writer, phone, ghosts
  <2>2. BleTypes' /\ Along(m, k)' /\ Passing(m, m)
    BY <2>1, AlongStays
  <2> QED BY <2>2
<1>3. CASE PublishFrame
  BY <1>3, PublishFrameKeeps
<1>4. CASE Take
  BY <1>4, TakeKeeps
<1>5. CASE Notify
  BY <1>5, NotifyKeeps
<1>6. CASE NotifyLost
  BY <1>6, NotifyLostKeeps
<1>7. CASE NotifyBreaks
  BY <1>7, BreakKeeps
<1> QED BY <1>1, <1>2, <1>3, <1>4, <1>5, <1>6, <1>7 DEF BleNext

\* So does the invariant.
LEMMA BleStepInv == BleInv /\ [BleNext]_bleVars => BleInv'
<1> SUFFICES ASSUME BleInv, [BleNext]_bleVars PROVE BleInv'
  OBVIOUS
<1>1. PICK k, m : Along(m, k)
  BY DEF BleInv
<1>2. BleTypes
  BY DEF BleInv
<1>3. BleTypes' /\ \E k2, n : Along(n, k2)'
  BY <1>1, <1>2, BleStep
<1> QED BY <1>3 DEF BleInv

\* The phone holds nothing of a frame, is halfway through one, or waits for data
\* that it missed; the frames that it found, the one under way and the ones in
\* the queue are in order, and torn frames have paid for what it made of pieces.
THEOREM BleInvariance == BleSpec => []BleInv
BY BleInitInv, BleStepInv, PTL DEF BleSpec

\* What the reader made of pieces is what it forged, and the last frame is frame m.
LEMMA FoundMeans ==
  ASSUME NEW c \in Seq(Lengths), NEW f \in Seq(Seq(Nat)), NEW m \in 0 .. Len(c),
         \A h \in PureOnes(f) : \E l \in 1 .. m : f[h] = BodyOf(c, l),
         m > 0 => \E h \in 1 .. Len(f) : f[h] = BodyOf(c, m)
  PROVE  LET genuine == {h \in 1 .. Len(f) : \E k \in 1 .. Len(c) : f[h] = BodyOf(c, k)}
             numbers == {k \in 1 .. Len(c) : \E h \in 1 .. Len(f) : f[h] = BodyOf(c, k)}
         IN  /\ genuine = PureOnes(f) /\ 1 .. Len(f) \ genuine = MixedOnes(f)
             /\ (IF numbers = {} THEN 0 ELSE Max(numbers)) = m
<1> DEFINE genuine == {h \in 1 .. Len(f) : \E k \in 1 .. Len(c) : f[h] = BodyOf(c, k)}
           numbers == {k \in 1 .. Len(c) : \E h \in 1 .. Len(f) : f[h] = BodyOf(c, k)}
<1>1. Len(c) \in Nat /\ m \in Nat /\ \A l \in 1 .. m : l \in 1 .. Len(c)
  <2>1. Len(c) \in Nat
    BY LenProperties
  <2> QED BY <2>1
<1>2. \A k \in 1 .. Len(c) : ~Mixed(BodyOf(c, k)) /\ \A l \in 1 .. Len(c) : BodyOf(c, l) = BodyOf(c, k) => l = k
  <2>1. ASSUME NEW k \in 1 .. Len(c)
        PROVE  ~Mixed(BodyOf(c, k)) /\ \A l \in 1 .. Len(c) : BodyOf(c, l) = BodyOf(c, k) => l = k
    BY BodyMeans
  <2> QED BY <2>1
<1>3. ASSUME NEW h \in genuine PROVE h \in PureOnes(f)
  BY <1>2 DEF PureOnes
<1>4. ASSUME NEW h \in PureOnes(f) PROVE h \in genuine
  <2>1. h \in 1 .. Len(f)
    BY DEF PureOnes
  <2>2. PICK l \in 1 .. m : f[h] = BodyOf(c, l)
    OBVIOUS
  <2> QED BY <1>1, <2>1, <2>2
<1>5. genuine = PureOnes(f)
  BY <1>3, <1>4
<1>6. 1 .. Len(f) \ PureOnes(f) = MixedOnes(f)
  BY DEF PureOnes, MixedOnes
<1>7. ASSUME NEW k \in numbers PROVE k \in 1 .. m
  <2>1. PICK h \in 1 .. Len(f) : f[h] = BodyOf(c, k)
    OBVIOUS
  <2>2. h \in PureOnes(f)
    BY <1>2, <2>1 DEF PureOnes
  <2>3. PICK l \in 1 .. m : f[h] = BodyOf(c, l)
    BY <2>2
  <2>4. l = k
    BY <1>1, <1>2, <2>1, <2>3
  <2> QED BY <2>4
<1>8. m > 0 => m \in numbers
  <2>1. m > 0 => m \in 1 .. Len(c)
    BY <1>1
  <2> QED BY <2>1
<1>9. CASE m = 0
  <2>1. numbers = {}
    BY <1>7, <1>9
  <2> QED BY <1>5, <1>6, <1>9, <2>1
<1>10. CASE m > 0
  <2>1. m \in numbers
    BY <1>8, <1>10
  <2>2. \A y \in numbers : m >= y
    BY <1>1, <1>7
  <2>3. ASSUME NEW x \in numbers, \A y \in numbers : x >= y PROVE x = m
    <3>1. x >= m /\ m >= x /\ x \in 1 .. m
      BY <1>7, <2>1, <2>2, <2>3
    <3> QED BY <1>1, <3>1
  <2> HIDE DEF numbers
  <2>4. \E x \in numbers : \A y \in numbers : x >= y
    BY <2>1, <2>2
  <2>5. Max(numbers) = m
    BY <2>3, <2>4 DEF Max
  <2> QED BY <1>5, <1>6, <2>1, <2>5 DEF numbers
<1> QED BY <1>1, <1>9, <1>10

\* The same of the variables.
LEMMA FoundIs ==
  ASSUME BleTypes, NEW k, NEW m, Along(m, k)
  PROVE  /\ Genuine = PureOnes(found) /\ Forged = MixedOnes(found) /\ m \in Nat /\ m <= Len(captured)
         /\ (IF Recognized = {} THEN 0 ELSE Max(Recognized)) = m
<1>1. captured \in Seq(Lengths) /\ found \in Seq(Seq(Nat)) /\ Len(captured) \in Nat
  BY LenProperties DEF BleTypes
<1>2. m \in 0 .. Len(captured)
  BY <1>1 DEF Along
<1>3. /\ \A h \in PureOnes(found) : \E l \in 1 .. m : found[h] = BodyOf(captured, l)
      /\ m > 0 => \E h \in 1 .. Len(found) : found[h] = BodyOf(captured, m)
  BY DEF Along, FoundUpTo
<1> DEFINE genuine == {h \in 1 .. Len(found) : \E n \in 1 .. Len(captured) : found[h] = BodyOf(captured, n)}
           numbers == {n \in 1 .. Len(captured) : \E h \in 1 .. Len(found) : found[h] = BodyOf(captured, n)}
<1>4. /\ genuine = PureOnes(found) /\ 1 .. Len(found) \ genuine = MixedOnes(found)
      /\ (IF numbers = {} THEN 0 ELSE Max(numbers)) = m
  BY <1>1, <1>2, <1>3, FoundMeans
<1>5. Genuine = genuine /\ Recognized = numbers
  BY DEF Genuine, Recognized, Body, BodyOf
<1> HIDE DEF genuine, numbers
<1> QED BY <1>1, <1>2, <1>4, <1>5 DEF Forged

\* And after a step.
LEMMA FoundAfter ==
  ASSUME NEW k, NEW m, BleTypes', Along(m, k)'
  PROVE  /\ Genuine' = PureOnes(found') /\ m \in Nat /\ m <= Len(captured')
         /\ (IF Recognized = {} THEN 0 ELSE Max(Recognized))' = m
<1>1. captured' \in Seq(Lengths) /\ found' \in Seq(Seq(Nat)) /\ Len(captured') \in Nat
  BY LenProperties DEF BleTypes
<1>2. m \in 0 .. Len(captured')
  BY <1>1 DEF Along
<1>3. /\ \A h \in PureOnes(found') : \E l \in 1 .. m : found'[h] = BodyOf(captured', l)
      /\ m > 0 => \E h \in 1 .. Len(found') : found'[h] = BodyOf(captured', m)
  BY DEF Along, FoundUpTo, PureOnes
<1> DEFINE genuine == {h \in 1 .. Len(found') : \E n \in 1 .. Len(captured') : found'[h] = BodyOf(captured', n)}
           numbers == {n \in 1 .. Len(captured') : \E h \in 1 .. Len(found') : found'[h] = BodyOf(captured', n)}
<1>4. genuine = PureOnes(found') /\ (IF numbers = {} THEN 0 ELSE Max(numbers)) = m
  BY <1>1, <1>2, <1>3, FoundMeans
<1>5. Genuine' = genuine /\ Recognized' = numbers
  BY DEF Genuine, Recognized, Body, BodyOf
<1> HIDE DEF genuine, numbers
<1> QED BY <1>1, <1>2, <1>4, <1>5

\* Whatever is lost on the way, a frame that breaks off in the middle costs one
\* forged frame at the most, and nothing else does.
THEOREM BleForgesByTearing == BleSpec => []ForgedByTearing
<1>1. BleInv => ForgedByTearing
  <2> SUFFICES ASSUME BleInv PROVE ForgedByTearing
    OBVIOUS
  <2>1. BleTypes /\ \E k, m : Along(m, k)
    BY DEF BleInv
  <2>2. PICK k, m : Along(m, k)
    BY <2>1
  <2>3. Forged = MixedOnes(found)
    BY <2>1, <2>2, FoundIs
  <2>4. Cardinality(MixedOnes(found)) \in Nat /\ torn \in Nat
    BY <2>1, OnesFinite DEF BleTypes
  <2>5. Cardinality(MixedOnes(found)) <= torn \/ Cardinality(MixedOnes(found)) + 1 <= torn
    BY <2>2 DEF Along, Reading
  <2>6. Cardinality(MixedOnes(found)) <= torn
    BY <2>4, <2>5
  <2> QED BY <2>3, <2>6 DEF ForgedByTearing
<1> QED BY <1>1, BleInvariance, PTL

\* A step of the stream is one of LossyFifo, or changes nothing of it.
LEMMA StepAir ==
  BleInv /\ [BleNext]_bleVars =>
    [Air!Next]_<<Len(captured), IF Recognized = {} THEN 0 ELSE Max(Recognized), Cardinality(Genuine)>>
<1> DEFINE last == IF Recognized = {} THEN 0 ELSE Max(Recognized)
<1> SUFFICES ASSUME BleInv, [BleNext]_bleVars
             PROVE  [Air!Next]_<<Len(captured), last, Cardinality(Genuine)>>
  OBVIOUS
<1>1. BleTypes /\ \E k, m : Along(m, k)
  BY DEF BleInv
<1>2. PICK k, m : Along(m, k)
  BY <1>1
<1>3. PICK k2, n : BleTypes' /\ Along(n, k2)' /\ Passing(m, n)
  BY <1>1, <1>2, BleStep
<1>4. Genuine = PureOnes(found) /\ last = m /\ m \in Nat /\ m <= Len(captured)
  BY <1>1, <1>2, FoundIs
<1>5. Genuine' = PureOnes(found') /\ last' = n /\ n \in Nat /\ n <= Len(captured')
  BY <1>3, FoundAfter
<1>6. captured \in Seq(Lengths) /\ Len(captured) \in Nat /\ found \in Seq(Seq(Nat))
  BY <1>1, LenProperties DEF BleTypes
<1> HIDE DEF last
<1>7. CASE n = m /\ found' = found /\ captured' = captured
  BY <1>4, <1>5, <1>7
<1>8. CASE n = m /\ found' = found /\ \E x \in Lengths : captured' = Append(captured, x)
  <2>1. Len(captured') = Len(captured) + 1
    BY <1>6, <1>8, AppendProperties
  <2> QED BY <1>4, <1>5, <1>8, <2>1 DEF Air!Next, Air!Offer, last
<1>9. CASE n = m /\ captured' = captured /\ \E x \in Seq(Nat) : Mixed(x) /\ found' = found \o <<x>>
  <2>1. PureOnes(found') = PureOnes(found)
    BY <1>6, <1>9, OneMore
  <2> QED BY <1>4, <1>5, <1>9, <2>1
<1>10. CASE m < n /\ captured' = captured /\ \E x \in Seq(Nat) : ~Mixed(x) /\ found' = found \o <<x>>
  <2>1. Cardinality(PureOnes(found')) = Cardinality(PureOnes(found)) + 1
    BY <1>6, <1>10, OneMore
  <2>2. n \in (m + 1) .. Len(captured)
    BY <1>4, <1>5, <1>6, <1>10
  <2> QED BY <1>4, <1>5, <1>10, <2>1, <2>2 DEF Air!Next, Air!Pass, last
<1> QED BY <1>3, <1>7, <1>8, <1>9, <1>10 DEF Passing

\* Whatever breaks off and whoever listens: the frames that the phone finds as
\* they were captured are never repeated or overtaken.
THEOREM BleImplementsLossyFifo == BleSpec => BleFifoSpec
<1>1. BleInit => Air!Init
  <2> SUFFICES ASSUME BleInit PROVE Air!Init
    OBVIOUS
  <2>1. captured = <<>> /\ found = <<>>
    BY DEF BleInit
  <2>2. Len(captured) = 0 /\ Len(found) = 0 /\ 1 .. 0 = {}
    BY <2>1
  <2>3. Recognized = {} /\ Genuine = {}
    BY <2>2 DEF Recognized, Genuine
  <2>4. Cardinality(Genuine) = 0
    BY <2>3, FS_EmptySet
  <2> QED BY <2>2, <2>3, <2>4 DEF Air!Init
<1> QED
  BY <1>1, StepAir, BleInvariance, PTL DEF BleSpec, BleFifoSpec, Air!Spec
=============================================================================
