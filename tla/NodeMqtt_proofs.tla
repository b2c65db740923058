--------------------------- MODULE NodeMqtt_proofs ---------------------------
(***************************************************************************)
(* Theorems about NodeMqtt, for any number of changes of link and lease.   *)
(* While the queue of the event loop has room, an address brings the       *)
(* client, a loss ends it, and the LED is honest (Delivered); and it has   *)
(* room if frames do not flood it and it is long enough for the changes    *)
(* there are (QueueSuffices).                                              *)
(*                                                                         *)
(* What matters of a queue is which event of a kind comes last in it.  The *)
(* invariants say, hop by hop, what the last relevant event will have done *)
(* when the loop has come to it: Started for the client, Green and Dark    *)
(* for the LED.  The length of the queue is bounded by a weight: each      *)
(* change brings at most four events, each event is dispatched into events *)
(* of no more weight than its own (Load).                                  *)
(***************************************************************************)
EXTENDS NodeMqtt, SequenceTheorems, TLAPS

----------------------------------------------------------------------------
(* The invariants *)

\* What the loop has ahead in mqtt_stop.
Stop4 == <<"stop_timer", "stop_client", "await_task", "forget">>
Stop3 == <<"stop_client", "await_task", "forget">>
Stop2 == <<"await_task", "forget">>
Stop1 == <<"forget">>

\* The place in mqtt_stop tells what has become of the client and its task.
Stages ==
    /\ stopping \in {<<>>, Stop4, Stop3, Stop2, Stop1}
    /\ stopping # <<>> => client
    /\ stopping \in {Stop2, Stop1} => ~run
    /\ stopping = Stop1 => task = "none" /\ ~connected
    /\ client /\ stopping \notin {Stop2, Stop1} => run
    /\ (connected \/ task # "none") => client
    /\ task \in {"online", "command"} /\ run /\ stopping = <<>> => timer

\* No event of K is queued; an event of G is, with none of L behind it.
Free(q, K) == \A i \in 1 .. Len(q) : q[i] \notin K
Ends(q, G, L) ==
    \E i \in 1 .. Len(q) : q[i] \in G /\ \A j \in i + 1 .. Len(q) : q[j] \notin L

Gains == {"eth_got_ip"}
Losses == {"eth_lost_ip", "eth_disconnected"}

\* What is queued leaves the client started, or it is and stays so: the first
\* hop, the second hop, the client.
Started ==
    \/ Ends(events, Gains, Losses)
    \/ /\ Free(events, Gains) /\ Free(events, Losses)
       /\ \/ Ends(events, {"GOT_IP"}, {"LOST_IP"})
          \/ /\ Free(events, {"GOT_IP"}) /\ Free(events, {"LOST_IP"})
             /\ client /\ stopping = <<>>

\* An address has started the client, or will; or its loss is queued.
AddressStarts ==
    netif = "bound" /\ usable => Started \/ ~Free(events, {"eth_disconnected"})

\* From DHCP, what starts the client or keeps it is an address that is held.
StartHasAddress ==
    ~staticIp => Free(events, {"netif_up"}) /\ (Started => leased /\ link)

\* Without a connection, what is queued does not leave the LED green.
Green ==
    ~connected => /\ mqttLed = "green" => ~Free(events, {"MQTT_DISCONNECTED"})
                  /\ ~Ends(events, {"MQTT_CONNECTED"}, {"MQTT_DISCONNECTED"})

\* Without a link, the last that the LEDs hear is its loss: the first hop, the
\* second, and what is left.
Ups == {"eth_connected", "eth_got_ip"}
Bright == {"CONNECTED", "GOT_IP", "MQTT_CONNECTED"}
Dark ==
    ~link /\ ~staticIp =>
        \/ Ends(events, {"eth_disconnected"}, Ups)
        \/ /\ Free(events, {"eth_disconnected"}) /\ Free(events, Ups)
           /\ \/ Ends(events, {"DISCONNECTED"}, Bright)
              \/ Free(events, Bright) /\ mqttLed = "dark" /\ ~linkLed

\* The types, in parts.
Flags ==
    /\ staticIp \in BOOLEAN /\ remote \in BOOLEAN /\ usable \in BOOLEAN
    /\ link \in BOOLEAN /\ leased \in BOOLEAN /\ station \in BOOLEAN /\ client \in BOOLEAN /\ connected \in BOOLEAN /\ timer \in BOOLEAN
    /\ run \in BOOLEAN /\ linkLed \in BOOLEAN /\ running \in BOOLEAN /\ sem \in BOOLEAN

Places ==
    /\ netif \in {"down", "up", "bound"}
    /\ flaps \in 0 .. MaxFlaps
    /\ task \in {"none", "connecting", "greeting", "online", "command"}
    /\ mqttLed \in {"dark", "yellow", "green"}
    /\ sniffer \in {"test", "receive", "publish", "post", "over"}

Queued == events \in Seq(AllEvents) /\ Len(events) <= QueueLen

\* The inductive invariant that needs no room in the queue ...
IInv == Flags /\ Places /\ Queued /\ Stages

\* ... and what is inductive as long as there is room.
Settles == AddressStarts /\ StartHasAddress /\ Green /\ Dark

\* The next step finds room for all that it posts.
Room == Len(events) + 2 <= QueueLen

----------------------------------------------------------------------------
(* Posting *)

\* Whatever is posted, the queue stays a queue of events of its length.
LEMMA PostedTyped ==
  ASSUME NEW q \in Seq(AllEvents), NEW new \in Seq(AllEvents)
  PROVE  Posted(q, new) \in Seq(AllEvents) /\ Len(Posted(q, new)) <= QueueLen
<1> DEFINE all == q \o new
           n == IF Len(q) + Len(new) < QueueLen THEN Len(q) + Len(new) ELSE QueueLen
<1>1. /\ QueueLen \in Nat \ {0} /\ Len(q) \in Nat /\ Len(new) \in Nat
      /\ all \in Seq(AllEvents) /\ Len(all) = Len(q) + Len(new)
  BY UplinkAssumption, ConcatProperties, LenProperties
<1>2. n \in 0 .. Len(all) /\ n <= QueueLen
  BY <1>1
<1>3. \A i \in 1 .. n : all[i] \in AllEvents
  BY <1>1, <1>2, ElementOfSeq
<1>4. SubSeq(all, 1, n) \in Seq(AllEvents) /\ Len(SubSeq(all, 1, n)) = IF 1 <= n THEN n ELSE 0
  <2>1. 1 \in Int /\ n \in Int
    BY <1>1, <1>2
  <2> HIDE DEF all, n
  <2> QED
    BY <1>2, <1>3, <2>1, SubSeqProperties
<1>5. Posted(q, new) = SubSeq(all, 1, n)
  BY DEF Posted
<1> HIDE DEF all, n
<1> QED
  BY <1>2, <1>4, <1>5, <1>1

\* With room, all of it is posted.
LEMMA PostedWhole ==
  ASSUME NEW q \in Seq(AllEvents), NEW new \in Seq(AllEvents), Len(q) + Len(new) <= QueueLen
  PROVE  Posted(q, new) = q \o new
<1> DEFINE all == q \o new
           n == IF Len(q) + Len(new) < QueueLen THEN Len(q) + Len(new) ELSE QueueLen
<1>1. /\ QueueLen \in Nat \ {0} /\ Len(q) \in Nat /\ Len(new) \in Nat
      /\ all \in Seq(AllEvents) /\ Len(all) = Len(q) + Len(new)
  BY UplinkAssumption, ConcatProperties, LenProperties
<1>2. n = Len(all)
  BY <1>1
<1>3. Posted(q, new) = SubSeq(all, 1, n)
  BY DEF Posted
<1> HIDE DEF all, n
<1>4. SubSeq(all, 1, Len(all)) = all
  BY <1>1, SubSeqFull
<1> QED
  BY <1>2, <1>3, <1>4 DEF all

\* One, two or three events at the end of a queue.
LEMMA PostNone ==
  ASSUME NEW q \in Seq(AllEvents), Len(q) <= QueueLen
  PROVE  Posted(q, <<>>) = q
<1>1. <<>> \in Seq(AllEvents) /\ Len(<<>>) = 0 /\ Len(q) \in Nat
  BY EmptySeq, LenProperties
<1>2. q \o <<>> = q
  <2>1. /\ q \o <<>> \in Seq(AllEvents) /\ Len(q \o <<>>) = Len(q)
        /\ \A i \in 1 .. Len(q) : (q \o <<>>)[i] = q[i]
    BY <1>1, ConcatProperties
  <2> QED
    BY <2>1, SeqEqual
<1>3. Len(q) + Len(<<>>) <= QueueLen
  BY <1>1
<1>4. Posted(q, <<>>) = q \o <<>>
  BY <1>1, <1>3, PostedWhole
<1> QED
  BY <1>2, <1>4

LEMMA PostOne ==
  ASSUME NEW q \in Seq(AllEvents), NEW a \in AllEvents, Len(q) + 1 <= QueueLen
  PROVE  Posted(q, <<a>>) = Append(q, a)
<1>1. <<a>> \in Seq(AllEvents) /\ Len(<<a>>) = 1
  OBVIOUS
<1> QED
  BY <1>1, PostedWhole, AppendIsConcat

LEMMA PostTwo ==
  ASSUME NEW q \in Seq(AllEvents), NEW a \in AllEvents, NEW b \in AllEvents, Len(q) + 2 <= QueueLen
  PROVE  Posted(q, <<a, b>>) = Append(Append(q, a), b)
<1>1. <<a, b>> \in Seq(AllEvents) /\ Len(<<a, b>>) = 2
  OBVIOUS
<1>2. q \o <<a, b>> = Append(Append(q, a), b)
  OBVIOUS
<1> QED
  BY <1>1, <1>2, PostedWhole

LEMMA PostThree ==
  ASSUME NEW q \in Seq(AllEvents), NEW a \in AllEvents, NEW b \in AllEvents, NEW c \in AllEvents,
         Len(q) + 3 <= QueueLen
  PROVE  Posted(q, <<a, b>> \o <<c>>) = Append(Append(Append(q, a), b), c)
<1>1. /\ <<a, b>> \o <<c>> \in Seq(AllEvents) /\ Len(<<a, b>> \o <<c>>) = 3
  OBVIOUS
<1>2. q \o (<<a, b>> \o <<c>>) = Append(Append(Append(q, a), b), c)
  OBVIOUS
<1> QED
  BY <1>1, <1>2, PostedWhole

\* What an event becomes.
LEMMA Becomes ==
  /\ Posts("eth_connected") = <<"CONNECTED">>
  /\ Posts("eth_disconnected") = <<"LOST_IP", "DISCONNECTED">>
  /\ Posts("eth_got_ip") = <<"GOT_IP">>
  /\ Posts("eth_lost_ip") = <<"LOST_IP">>
  /\ Posts("netif_up") = IF staticIp THEN <<"GOT_IP">> ELSE <<>>
  /\ \A e \in AllEvents \ {"eth_connected", "eth_disconnected", "eth_got_ip", "eth_lost_ip", "netif_up"} :
        Posts(e) = <<>>
<1>1. /\ Posts("eth_connected") = <<"CONNECTED">>
      /\ Posts("eth_disconnected") = <<"LOST_IP", "DISCONNECTED">>
      /\ Posts("eth_got_ip") = <<"GOT_IP">>
      /\ Posts("eth_lost_ip") = <<"LOST_IP">>
  BY DEF Posts
<1>2. Posts("netif_up") = IF staticIp THEN <<"GOT_IP">> ELSE <<>>
  BY DEF Posts
<1>3. ASSUME NEW e \in AllEvents \ {"eth_connected", "eth_disconnected", "eth_got_ip", "eth_lost_ip",
                                    "netif_up"}
      PROVE  Posts(e) = <<>>
  BY <1>3 DEF Posts
<1> QED
  BY <1>1, <1>2, <1>3

LEMMA PostsTyped ==
  ASSUME NEW e \in AllEvents
  PROVE  NetifPosts(e) \o Posts(e) \in Seq(AllEvents)
<1>1. NetifPosts(e) \in Seq(AllEvents)
  <2>1. <<>> \in Seq(AllEvents) /\ <<"eth_got_ip", "netif_up">> \in Seq(AllEvents)
    BY DEF AllEvents
  <2> QED
    BY <2>1 DEF NetifPosts
<1>2. Posts(e) \in Seq(AllEvents)
  <2>1. /\ <<>> \in Seq(AllEvents) /\ <<"CONNECTED">> \in Seq(AllEvents)
        /\ <<"GOT_IP">> \in Seq(AllEvents) /\ <<"LOST_IP">> \in Seq(AllEvents)
        /\ <<"LOST_IP", "DISCONNECTED">> \in Seq(AllEvents)
    BY DEF AllEvents
  <2> QED
    BY <2>1, Becomes
<1> QED
  BY <1>1, <1>2, ConcatProperties

----------------------------------------------------------------------------
(* The last event of a kind *)

LEMMA FreeEmpty == \A K, G, L : Free(<<>>, K) /\ ~Ends(<<>>, G, L)
  BY DEF Free, Ends

LEMMA FreeAppend ==
  ASSUME NEW q \in Seq(AllEvents), NEW e \in AllEvents
  PROVE  \A K : Free(Append(q, e), K) <=> Free(q, K) /\ e \notin K
<1>1. /\ Len(q) \in Nat /\ Len(Append(q, e)) = Len(q) + 1
      /\ \A i \in 1 .. Len(q) : Append(q, e)[i] = q[i]
      /\ Append(q, e)[Len(q) + 1] = e
  BY AppendProperties, LenProperties
<1> QED
  BY <1>1 DEF Free

LEMMA EndsAppend ==
  ASSUME NEW q \in Seq(AllEvents), NEW e \in AllEvents
  PROVE  \A G, L : Ends(Append(q, e), G, L) <=> e \in G \/ (e \notin L /\ Ends(q, G, L))
<1> DEFINE r == Append(q, e)
           n == Len(q)
<1>1. /\ n \in Nat /\ Len(r) = n + 1
      /\ \A i \in 1 .. n : r[i] = q[i]
      /\ r[n + 1] = e
  BY AppendProperties, LenProperties
<1> HIDE DEF r
<1> TAKE G, L
<1>2. ASSUME Ends(r, G, L), e \notin G PROVE e \notin L /\ Ends(q, G, L)
  <2>1. PICK i \in 1 .. n + 1 : r[i] \in G /\ \A j \in i + 1 .. n + 1 : r[j] \notin L
    BY <1>1, <1>2 DEF Ends
  <2>2. i \in 1 .. n
    BY <1>1, <1>2, <2>1
  <2>3. e \notin L
    BY <1>1, <2>1, <2>2
  <2>4. q[i] \in G /\ \A j \in i + 1 .. n : q[j] \notin L
    BY <1>1, <2>1, <2>2
  <2> QED
    BY <2>2, <2>3, <2>4 DEF Ends
<1>3. ASSUME e \in G PROVE Ends(r, G, L)
  <2>1. r[n + 1] \in G /\ \A j \in (n + 1) + 1 .. n + 1 : r[j] \notin L
    BY <1>1, <1>3
  <2> QED
    BY <1>1, <2>1 DEF Ends
<1>4. ASSUME e \notin L, Ends(q, G, L) PROVE Ends(r, G, L)
  <2>1. PICK i \in 1 .. n : q[i] \in G /\ \A j \in i + 1 .. n : q[j] \notin L
    BY <1>4 DEF Ends
  <2>2. r[i] \in G /\ \A j \in i + 1 .. n + 1 : r[j] \notin L
    BY <1>1, <1>4, <2>1
  <2> QED
    BY <1>1, <2>1, <2>2 DEF Ends
<1> QED
  BY <1>2, <1>3, <1>4 DEF r

LEMMA FreeOrEnds == \A q, G, L : Free(q, L) => Free(q, G) \/ Ends(q, G, L)
  BY DEF Free, Ends

LEMMA QueueTail ==
  ASSUME NEW q \in Seq(AllEvents), q # <<>>
  PROVE  /\ Len(q) \in Nat \ {0} /\ Head(q) = q[1] /\ Head(q) \in AllEvents
         /\ Tail(q) \in Seq(AllEvents) /\ Len(Tail(q)) = Len(q) - 1
         /\ \A i \in 1 .. Len(q) - 1 : Tail(q)[i] = q[i + 1]
  BY HeadTailProperties, EmptySeq

LEMMA FreeTail ==
  ASSUME NEW q \in Seq(AllEvents), q # <<>>
  PROVE  \A K : Free(q, K) <=> Head(q) \notin K /\ Free(Tail(q), K)
<1> DEFINE t == Tail(q)
           n == Len(q)
<1>1. /\ n \in Nat \ {0} /\ Len(t) = n - 1 /\ Head(q) = q[1]
      /\ \A i \in 1 .. n - 1 : t[i] = q[i + 1]
  BY QueueTail
<1>2. \A i \in 2 .. n : i - 1 \in 1 .. n - 1 /\ t[i - 1] = q[i]
  BY <1>1
<1> HIDE DEF t
<1> TAKE K
<1>3. Free(q, K) => Head(q) \notin K /\ Free(t, K)
  BY <1>1 DEF Free
<1>4. ASSUME Head(q) \notin K, Free(t, K) PROVE Free(q, K)
  <2>1. \A i \in 1 .. n : i = 1 \/ i \in 2 .. n
    BY <1>1
  <2> QED
    BY <1>1, <1>2, <1>4, <2>1 DEF Free
<1> QED
  BY <1>3, <1>4 DEF t

LEMMA EndsTail ==
  ASSUME NEW q \in Seq(AllEvents), q # <<>>
  PROVE  \A G, L : Ends(q, G, L) <=> Ends(Tail(q), G, L) \/ (Head(q) \in G /\ Free(Tail(q), L))
<1> DEFINE t == Tail(q)
           n == Len(q)
<1>1. /\ n \in Nat \ {0} /\ Len(t) = n - 1 /\ Head(q) = q[1]
      /\ \A i \in 1 .. n - 1 : t[i] = q[i + 1]
  BY QueueTail
<1>2. \A i \in 2 .. n : i - 1 \in 1 .. n - 1 /\ t[i - 1] = q[i]
  BY <1>1
<1> HIDE DEF t
<1> TAKE G, L
<1>3. ASSUME Ends(q, G, L) PROVE Ends(t, G, L) \/ (Head(q) \in G /\ Free(t, L))
  <2>1. PICK i \in 1 .. n : q[i] \in G /\ \A j \in i + 1 .. n : q[j] \notin L
    BY <1>3 DEF Ends
  <2>2. \A j \in i .. n - 1 : j \in 1 .. n - 1 /\ t[j] \notin L
    BY <1>1, <2>1
  <2>3. CASE i = 1
    BY <1>1, <2>1, <2>2, <2>3 DEF Free
  <2>4. CASE i # 1
    <3>1. i - 1 \in 1 .. n - 1 /\ t[i - 1] \in G
      BY <1>1, <1>2, <2>1, <2>4
    <3>2. \A j \in (i - 1) + 1 .. n - 1 : t[j] \notin L
      BY <1>1, <2>1, <2>2
    <3> QED
      BY <1>1, <3>1, <3>2 DEF Ends
  <2> QED
    BY <2>3, <2>4
<1>4. ASSUME Ends(t, G, L) PROVE Ends(q, G, L)
  <2>1. PICK i \in 1 .. n - 1 : t[i] \in G /\ \A j \in i + 1 .. n - 1 : t[j] \notin L
    BY <1>1, <1>4 DEF Ends
  <2>2. i + 1 \in 1 .. n /\ q[i + 1] \in G
    BY <1>1, <2>1
  <2>3. \A j \in (i + 1) + 1 .. n : q[j] \notin L
    BY <1>1, <1>2, <2>1
  <2> QED
    BY <2>2, <2>3 DEF Ends
<1>5. ASSUME Head(q) \in G, Free(t, L) PROVE Ends(q, G, L)
  <2>1. \A j \in 1 + 1 .. n : q[j] \notin L
    BY <1>1, <1>2, <1>5 DEF Free
  <2> QED
    BY <1>1, <1>5, <2>1 DEF Ends
<1> QED
  BY <1>3, <1>4, <1>5 DEF t

----------------------------------------------------------------------------
(* Types and stages *)

\* The actions, one by one.
LEMMA Steps ==
  [Next]_vars =>
    \/ LinkChange \/ Bind \/ Lapse \/ ReportLoss \/ StationGotIp \/ Dispatch
    \/ StopTimer \/ StopClient \/ AwaitTask \/ Forget
    \/ (LoopYields /\ (Greet \/ Greeted \/ ConnectionLost \/ TaskEnds \/ CommandStop
                       \/ CommandStopped \/ CommandStart))
    \/ (LoopYields /\ (SnifferTest \/ SnifferReceive \/ SnifferPublish \/ SnifferPost))
    \/ UNCHANGED vars
  BY DEF Next, Network, MqttStop, MqttTask, SnifferTask

\* What is left of mqtt_stop.
LEMMA Bodies ==
  /\ Stop4 # <<>> /\ Head(Stop4) = "stop_timer" /\ Tail(Stop4) = Stop3
  /\ Stop3 # <<>> /\ Head(Stop3) = "stop_client" /\ Tail(Stop3) = Stop2
  /\ Stop2 # <<>> /\ Head(Stop2) = "await_task" /\ Tail(Stop2) = Stop1
  /\ Stop1 # <<>> /\ Head(Stop1) = "forget" /\ Tail(Stop1) = <<>>
  /\ {<<>>, Stop4, Stop3, Stop2, Stop1} \subseteq Seq({"stop_timer", "stop_client", "await_task", "forget"})
  BY DEF Stop4, Stop3, Stop2, Stop1

LEMMA BodiesDiffer ==
  /\ Stop4 # Stop3 /\ Stop4 # Stop2 /\ Stop4 # Stop1
  /\ Stop3 # Stop2 /\ Stop3 # Stop1 /\ Stop2 # Stop1
  BY Bodies

\* The step of mqtt_stop that is next.
LEMMA StopSteps ==
  ASSUME Stages, NEW step, StopStep(step)
  PROVE  /\ step = "stop_timer" => stopping = Stop4 /\ stopping' = Stop3
         /\ step = "stop_client" => stopping = Stop3 /\ stopping' = Stop2
         /\ step = "await_task" => stopping = Stop2 /\ stopping' = Stop1
         /\ step = "forget" => stopping = Stop1 /\ stopping' = <<>>
  BY Bodies DEF Stages, StopStep

\* The tasks of a lower priority run when nothing is queued, or while mqtt_stop
\* waits.
LEMMA Yields ==
  ASSUME Stages, LoopYields
  PROVE  \/ events = <<>> /\ stopping = <<>>
         \/ stopping = Stop3 /\ Locked
         \/ stopping = Stop2 /\ task # "none"
  BY Bodies DEF Stages, LoopYields, Waits

\* What the parts say together.
LEMMA TypesHold == IInv => TypeOK /\ StatsRun
<1> SUFFICES ASSUME IInv PROVE TypeOK /\ StatsRun
  OBVIOUS
<1>1. {staticIp, remote, usable, link, leased, station, client, connected, timer, run, linkLed, running, sem}
        \subseteq BOOLEAN
  BY DEF IInv, Flags
<1>2. stopping \in Seq({"stop_timer", "stop_client", "await_task", "forget"})
  BY Bodies DEF IInv, Stages
<1>3. TypeOK
  BY <1>1, <1>2 DEF IInv, TypeOK, Places, Queued, Stages
<1> QED
  BY <1>3 DEF IInv, StatsRun, Stages

\* One more event leaves a queue.
LEMMA QueuedPosts ==
  ASSUME Queued
  PROVE  \A e \in AllEvents : /\ Posted(events, <<e>>) \in Seq(AllEvents)
                             /\ Len(Posted(events, <<e>>)) <= QueueLen
<1> TAKE e \in AllEvents
<1>1. <<e>> \in Seq(AllEvents)
  OBVIOUS
<1> QED
  BY <1>1, PostedTyped DEF Queued

\* The network.
LEMMA LinkChangeKeeps == ASSUME IInv, LinkChange PROVE IInv'
<1> USE DEF setup, network, mqtt, leds, capture
<1>1. Flags /\ Places /\ Queued /\ Stages
  BY DEF IInv
<1>2. Flags'
  BY <1>1 DEF LinkChange, Flags
<1>3. Places'
  BY <1>1, UplinkAssumption DEF LinkChange, Places, Flap
<1>4. Queued'
  BY <1>1, QueuedPosts DEF LinkChange, Queued, AllEvents, DriverPosts
<1>5. Stages'
  BY <1>1 DEF LinkChange, Stages, Flags, Places
<1> QED
  BY <1>2, <1>3, <1>4, <1>5 DEF IInv

LEMMA BindKeeps == ASSUME IInv, Bind PROVE IInv'
<1> USE DEF setup, network, mqtt, leds, capture
<1>1. Flags /\ Places /\ Queued /\ Stages
  BY DEF IInv
<1>2. Flags'
  BY <1>1 DEF Bind, Flags
<1>3. Places'
  BY <1>1, UplinkAssumption DEF Bind, Places
<1>4. Queued'
  BY <1>1, QueuedPosts DEF Bind, Queued, AllEvents, DriverPosts
<1>5. Stages'
  BY <1>1 DEF Bind, Stages, Flags, Places
<1> QED
  BY <1>2, <1>3, <1>4, <1>5 DEF IInv

LEMMA LapseKeeps == ASSUME IInv, Lapse PROVE IInv'
<1> USE DEF setup, network, mqtt, leds, capture
<1>1. Flags /\ Places /\ Queued /\ Stages
  BY DEF IInv
<1>2. Flags'
  BY <1>1 DEF Lapse, Flags
<1>3. Places'
  BY <1>1, UplinkAssumption DEF Lapse, Places, Flap
<1>4. Queued'
  BY <1>1 DEF Lapse, Queued
<1>5. Stages'
  BY <1>1 DEF Lapse, Stages, Flags, Places
<1> QED
  BY <1>2, <1>3, <1>4, <1>5 DEF IInv

LEMMA ReportLossKeeps == ASSUME IInv, ReportLoss PROVE IInv'
<1> USE DEF setup, network, mqtt, leds, capture
<1>1. Flags /\ Places /\ Queued /\ Stages
  BY DEF IInv
<1>2. Flags'
  BY <1>1 DEF ReportLoss, Flags
<1>3. Places'
  BY <1>1, UplinkAssumption DEF ReportLoss, Places
<1>4. Queued'
  BY <1>1, QueuedPosts DEF ReportLoss, Queued, AllEvents, DriverPosts
<1>5. Stages'
  BY <1>1 DEF ReportLoss, Stages, Flags, Places
<1> QED
  BY <1>2, <1>3, <1>4, <1>5 DEF IInv

LEMMA StationGotIpKeeps == ASSUME IInv, StationGotIp PROVE IInv'
<1> USE DEF setup, network, mqtt, leds, capture
<1>1. Flags /\ Places /\ Queued /\ Stages
  BY DEF IInv
<1>2. Flags'
  BY <1>1 DEF StationGotIp, Flags
<1>3. Places'
  BY <1>1, UplinkAssumption DEF StationGotIp, Places, Flap
<1>4. Queued'
  BY <1>1, QueuedPosts DEF StationGotIp, Queued, AllEvents, DriverPosts
<1>5. Stages'
  BY <1>1 DEF StationGotIp, Stages, Flags, Places
<1> QED
  BY <1>2, <1>3, <1>4, <1>5 DEF IInv

\* mqtt_stop.
LEMMA StopTimerKeeps == ASSUME IInv, StopTimer PROVE IInv'
<1> USE DEF setup, network, mqtt, leds, capture
<1>1. Flags /\ Places /\ Queued /\ Stages
  BY DEF IInv
<1>2. Flags'
  BY <1>1 DEF StopTimer, Flags
<1>3. Places'
  BY <1>1, UplinkAssumption DEF StopTimer, Places
<1>4. Queued'
  BY <1>1 DEF StopTimer, Queued
<1>5. Stages'
  BY <1>1, StopSteps, BodiesDiffer, Bodies DEF StopTimer, Stages, Flags, Places
<1> QED
  BY <1>2, <1>3, <1>4, <1>5 DEF IInv

LEMMA StopClientKeeps == ASSUME IInv, StopClient PROVE IInv'
<1> USE DEF setup, network, mqtt, leds, capture
<1>1. Flags /\ Places /\ Queued /\ Stages
  BY DEF IInv
<1>2. Flags'
  BY <1>1 DEF StopClient, Flags
<1>3. Places'
  BY <1>1, UplinkAssumption DEF StopClient, Places
<1>4. Queued'
  BY <1>1 DEF StopClient, Queued
<1>5. Stages'
  BY <1>1, StopSteps, BodiesDiffer, Bodies DEF StopClient, Stages, Flags, Places
<1> QED
  BY <1>2, <1>3, <1>4, <1>5 DEF IInv

LEMMA AwaitTaskKeeps == ASSUME IInv, AwaitTask PROVE IInv'
<1> USE DEF setup, network, mqtt, leds, capture
<1>1. Flags /\ Places /\ Queued /\ Stages
  BY DEF IInv
<1>2. Flags'
  BY <1>1 DEF AwaitTask, Flags
<1>3. Places'
  BY <1>1, UplinkAssumption DEF AwaitTask, Places
<1>4. Queued'
  BY <1>1, QueuedPosts DEF AwaitTask, Queued, AllEvents
<1>5. Stages'
  BY <1>1, StopSteps, BodiesDiffer, Bodies DEF AwaitTask, Stages, Flags, Places
<1> QED
  BY <1>2, <1>3, <1>4, <1>5 DEF IInv

LEMMA ForgetKeeps == ASSUME IInv, Forget PROVE IInv'
<1> USE DEF setup, network, mqtt, leds, capture
<1>1. Flags /\ Places /\ Queued /\ Stages
  BY DEF IInv
<1>2. Flags'
  BY <1>1 DEF Forget, Flags
<1>3. Places'
  BY <1>1, UplinkAssumption DEF Forget, Places
<1>4. Queued'
  BY <1>1 DEF Forget, Queued
<1>5. Stages'
  BY <1>1, StopSteps, BodiesDiffer, Bodies DEF Forget, Stages, Flags, Places
<1> QED
  BY <1>2, <1>3, <1>4, <1>5 DEF IInv

\* The MQTT task.
LEMMA GreetKeeps == ASSUME IInv, Greet PROVE IInv'
<1> USE DEF setup, network, mqtt, leds, capture
<1>1. Flags /\ Places /\ Queued /\ Stages
  BY DEF IInv
<1>2. Flags'
  BY <1>1 DEF Greet, Flags, SetConnected
<1>3. Places'
  BY <1>1, UplinkAssumption DEF Greet, Places
<1>4. Queued'
  BY <1>1, QueuedPosts DEF Greet, Queued, AllEvents, SetConnected
<1>5. Stages'
  BY <1>1, BodiesDiffer, Bodies DEF Greet, Stages, Flags, Places, SetConnected
<1> QED
  BY <1>2, <1>3, <1>4, <1>5 DEF IInv

LEMMA GreetedKeeps == ASSUME IInv, Greeted PROVE IInv'
<1> USE DEF setup, network, mqtt, leds, capture
<1>1. Flags /\ Places /\ Queued /\ Stages
  BY DEF IInv
<1>2. Flags'
  BY <1>1 DEF Greeted, Flags
<1>3. Places'
  BY <1>1, UplinkAssumption DEF Greeted, Places
<1>4. Queued'
  BY <1>1 DEF Greeted, Queued
<1>5. Stages'
  BY <1>1, BodiesDiffer, Bodies DEF Greeted, Stages, Flags, Places
<1> QED
  BY <1>2, <1>3, <1>4, <1>5 DEF IInv

LEMMA ConnectionLostKeeps == ASSUME IInv, ConnectionLost PROVE IInv'
<1> USE DEF setup, network, mqtt, leds, capture
<1>1. Flags /\ Places /\ Queued /\ Stages
  BY DEF IInv
<1>2. Flags'
  BY <1>1 DEF ConnectionLost, Flags, SetConnected
<1>3. Places'
  BY <1>1, UplinkAssumption DEF ConnectionLost, Places
<1>4. Queued'
  BY <1>1, QueuedPosts DEF ConnectionLost, Queued, AllEvents, SetConnected
<1>5. Stages'
  BY <1>1, BodiesDiffer, Bodies DEF ConnectionLost, Stages, Flags, Places, SetConnected
<1> QED
  BY <1>2, <1>3, <1>4, <1>5 DEF IInv

LEMMA TaskEndsKeeps == ASSUME IInv, TaskEnds PROVE IInv'
<1> USE DEF setup, network, mqtt, leds, capture
<1>1. Flags /\ Places /\ Queued /\ Stages
  BY DEF IInv
<1>2. Flags'
  BY <1>1 DEF TaskEnds, Flags
<1>3. Places'
  BY <1>1, UplinkAssumption DEF TaskEnds, Places
<1>4. Queued'
  BY <1>1 DEF TaskEnds, Queued
<1>5. Stages'
  BY <1>1, BodiesDiffer, Bodies DEF TaskEnds, Stages, Flags, Places
<1> QED
  BY <1>2, <1>3, <1>4, <1>5 DEF IInv

LEMMA CommandStopKeeps == ASSUME IInv, CommandStop PROVE IInv'
<1> USE DEF setup, network, mqtt, leds, capture
<1>1. Flags /\ Places /\ Queued /\ Stages
  BY DEF IInv
<1>2. Flags'
  BY <1>1 DEF CommandStop, Flags
<1>3. Places'
  BY <1>1, UplinkAssumption DEF CommandStop, Places
<1>4. Queued'
  BY <1>1 DEF CommandStop, Queued
<1>5. Stages'
  BY <1>1, BodiesDiffer, Bodies DEF CommandStop, Stages, Flags, Places
<1> QED
  BY <1>2, <1>3, <1>4, <1>5 DEF IInv

LEMMA CommandStoppedKeeps == ASSUME IInv, CommandStopped PROVE IInv'
<1> USE DEF setup, network, mqtt, leds, capture
<1>1. Flags /\ Places /\ Queued /\ Stages
  BY DEF IInv
<1>2. Flags'
  BY <1>1 DEF CommandStopped, Flags
<1>3. Places'
  BY <1>1, UplinkAssumption DEF CommandStopped, Places
<1>4. Queued'
  BY <1>1 DEF CommandStopped, Queued
<1>5. Stages'
  BY <1>1, BodiesDiffer, Bodies DEF CommandStopped, Stages, Flags, Places
<1> QED
  BY <1>2, <1>3, <1>4, <1>5 DEF IInv

LEMMA CommandStartKeeps == ASSUME IInv, CommandStart PROVE IInv'
<1> USE DEF setup, network, mqtt, leds, capture
<1>1. Flags /\ Places /\ Queued /\ Stages
  BY DEF IInv
<1>2. Flags'
  BY <1>1 DEF CommandStart, Flags
<1>3. Places'
  BY <1>1, UplinkAssumption DEF CommandStart, Places
<1>4. Queued'
  BY <1>1 DEF CommandStart, Queued
<1>5. Stages'
  BY <1>1, BodiesDiffer, Bodies DEF CommandStart, Stages, Flags, Places
<1> QED
  BY <1>2, <1>3, <1>4, <1>5 DEF IInv

\* The sniffer task.
LEMMA SnifferTestKeeps == ASSUME IInv, SnifferTest PROVE IInv'
<1> USE DEF setup, network, mqtt, leds, capture
<1>1. Flags /\ Places /\ Queued /\ Stages
  BY DEF IInv
<1>2. Flags'
  BY <1>1 DEF SnifferTest, Flags
<1>3. Places'
  BY <1>1, UplinkAssumption DEF SnifferTest, Places
<1>4. Queued'
  BY <1>1 DEF SnifferTest, Queued
<1>5. Stages'
  BY <1>1 DEF SnifferTest, Stages, Flags, Places
<1> QED
  BY <1>2, <1>3, <1>4, <1>5 DEF IInv

LEMMA SnifferReceiveKeeps == ASSUME IInv, SnifferReceive PROVE IInv'
<1> USE DEF setup, network, mqtt, leds, capture
<1>1. Flags /\ Places /\ Queued /\ Stages
  BY DEF IInv
<1>2. Flags'
  BY <1>1 DEF SnifferReceive, Flags
<1>3. Places'
  BY <1>1, UplinkAssumption DEF SnifferReceive, Places
<1>4. Queued'
  BY <1>1 DEF SnifferReceive, Queued
<1>5. Stages'
  BY <1>1 DEF SnifferReceive, Stages, Flags, Places
<1> QED
  BY <1>2, <1>3, <1>4, <1>5 DEF IInv

LEMMA SnifferPublishKeeps == ASSUME IInv, SnifferPublish PROVE IInv'
<1> USE DEF setup, network, mqtt, leds, capture
<1>1. Flags /\ Places /\ Queued /\ Stages
  BY DEF IInv
<1>2. Flags'
  BY <1>1 DEF SnifferPublish, Flags
<1>3. Places'
  BY <1>1, UplinkAssumption DEF SnifferPublish, Places
<1>4. Queued'
  BY <1>1 DEF SnifferPublish, Queued
<1>5. Stages'
  BY <1>1 DEF SnifferPublish, Stages, Flags, Places
<1> QED
  BY <1>2, <1>3, <1>4, <1>5 DEF IInv

LEMMA SnifferPostKeeps == ASSUME IInv, SnifferPost PROVE IInv'
<1> USE DEF setup, network, mqtt, leds, capture
<1>1. Flags /\ Places /\ Queued /\ Stages
  BY DEF IInv
<1>2. Flags'
  BY <1>1 DEF SnifferPost, Flags
<1>3. Places'
  BY <1>1, UplinkAssumption DEF SnifferPost, Places
<1>4. Queued'
  BY <1>1, QueuedPosts DEF SnifferPost, Queued, AllEvents
<1>5. Stages'
  BY <1>1 DEF SnifferPost, Stages, Flags, Places
<1> QED
  BY <1>2, <1>3, <1>4, <1>5 DEF IInv

LEMMA DispatchKeeps == ASSUME IInv, Dispatch PROVE IInv'
<1>1. Flags /\ Places /\ Queued /\ Stages
  BY DEF IInv
<1> DEFINE e == Head(events)
<1>2. e \in AllEvents /\ Tail(events) \in Seq(AllEvents)
  BY <1>1, QueueTail DEF Dispatch, Queued
<1>3. /\ stopping = <<>>
      /\ events' = Posted(Tail(events), NetifPosts(e) \o Posts(e))
      /\ NetifFollows(e) /\ LedsFollow(e) /\ MqttFollows(e)
      /\ UNCHANGED <<setup, link, flaps, station, connected, timer, capture>>
  BY DEF Dispatch
<1> HIDE DEF e
<1>4. Flags'
  <2>1. client' \in BOOLEAN /\ run' \in BOOLEAN
    BY <1>1, <1>3, Zenon DEF Flags, MqttFollows
  <2>2. linkLed' \in BOOLEAN
    BY <1>1, <1>3 DEF Flags, LedsFollow
  <2>3. leased' \in BOOLEAN
    BY <1>1, <1>3 DEF Flags, NetifFollows
  <2> QED
    BY <1>1, <1>3, <2>1, <2>2, <2>3 DEF Flags, setup, capture
<1>5. Places'
  <2>1. netif' \in {"down", "up", "bound"}
    BY <1>1, <1>3 DEF Places, NetifFollows
  <2>2. mqttLed' \in {"dark", "yellow", "green"}
    BY <1>1, <1>3 DEF Places, LedsFollow, Colour
  <2>3. task' \in {"none", "connecting", "greeting", "online", "command"}
    BY <1>1, <1>3 DEF Places, MqttFollows
  <2> QED
    BY <1>1, <1>3, <2>1, <2>2, <2>3 DEF Places, capture
<1>6. Queued'
  BY <1>2, <1>3, PostsTyped, PostedTyped DEF Queued
<1>7. Stages'
  <2>1. CASE e = "GOT_IP" /\ ~client /\ usable
    BY <1>1, <1>3, <2>1, Bodies DEF MqttFollows, Stages, Flags
  <2>2. CASE e = "LOST_IP" /\ client
    BY <1>1, <1>3, <2>2, Bodies, BodiesDiffer DEF MqttFollows, Stages, Flags, Stop4
  <2>3. CASE ~(e = "GOT_IP" /\ ~client /\ usable) /\ ~(e = "LOST_IP" /\ client)
    BY <1>1, <1>3, <2>3, Bodies DEF MqttFollows, Stages, Flags
  <2> QED
    BY <2>1, <2>2, <2>3
<1> QED
  BY <1>4, <1>5, <1>6, <1>7 DEF IInv

LEMMA InitIInv == ASSUME Init PROVE IInv
<1>1. Flags
  BY UplinkAssumption DEF Init, Flags
<1>2. Places
  BY UplinkAssumption DEF Init, Places
<1>3. Queued
  BY UplinkAssumption, EmptySeq DEF Init, Queued
<1>4. Stages
  BY Bodies DEF Init, Stages
<1> QED
  BY <1>1, <1>2, <1>3, <1>4 DEF IInv

LEMMA IInvStep == ASSUME IInv, [Next]_vars PROVE IInv'
<1>1. CASE LinkChange
  BY <1>1, LinkChangeKeeps
<1>2. CASE Bind
  BY <1>2, BindKeeps
<1>3. CASE Lapse
  BY <1>3, LapseKeeps
<1>4. CASE ReportLoss
  BY <1>4, ReportLossKeeps
<1>5. CASE StationGotIp
  BY <1>5, StationGotIpKeeps
<1>6. CASE Dispatch
  BY <1>6, DispatchKeeps
<1>7. CASE StopTimer \/ StopClient \/ AwaitTask \/ Forget
  BY <1>7, StopTimerKeeps, StopClientKeeps, AwaitTaskKeeps, ForgetKeeps
<1>8. CASE Greet \/ Greeted \/ ConnectionLost \/ TaskEnds
  BY <1>8, GreetKeeps, GreetedKeeps, ConnectionLostKeeps, TaskEndsKeeps
<1>9. CASE CommandStop \/ CommandStopped \/ CommandStart
  BY <1>9, CommandStopKeeps, CommandStoppedKeeps, CommandStartKeeps
<1>10. CASE SnifferTest \/ SnifferReceive \/ SnifferPublish \/ SnifferPost
  BY <1>10, SnifferTestKeeps, SnifferReceiveKeeps, SnifferPublishKeeps, SnifferPostKeeps
<1>11. CASE UNCHANGED vars
  BY <1>11 DEF vars, setup, network, mqtt, leds, capture, IInv, Flags, Places, Queued, Stages
<1> QED
  BY <1>1, <1>2, <1>3, <1>4, <1>5, <1>6, <1>7, <1>8, <1>9, <1>10, <1>11, Steps

\* The place in mqtt_stop tells what has become of the client, its task and its
\* timer; the queue is never longer than its length.
THEOREM Invariance == Spec => []IInv
<1>1. Init => IInv
  BY InitIInv
<1>2. IInv /\ [Next]_vars => IInv'
  BY IInvStep
<1> QED
  BY <1>1, <1>2, PTL DEF Spec

----------------------------------------------------------------------------
(* What is queued will be right *)

\* An event behind the others.
LEMMA Appended ==
  ASSUME IInv, Room, NEW e \in AllEvents, events' = Posted(events, <<e>>)
  PROVE  /\ \A K : Free(events', K) <=> Free(events, K) /\ e \notin K
         /\ \A G, L : Ends(events', G, L) <=> e \in G \/ (e \notin L /\ Ends(events, G, L))
<1>1. events \in Seq(AllEvents) /\ Len(events) \in Nat
  BY LenProperties DEF IInv, Queued
<1>2. Len(events) + 1 <= QueueLen
  BY <1>1, UplinkAssumption DEF Room
<1>3. events' = Append(events, e)
  BY <1>1, <1>2, PostOne
<1>4. \A K : Free(Append(events, e), K) <=> Free(events, K) /\ e \notin K
  BY <1>1, FreeAppend
<1>5. \A G, L : Ends(Append(events, e), G, L) <=> e \in G \/ (e \notin L /\ Ends(events, G, L))
  BY <1>1, EndsAppend
<1>6. \A K : Free(events', K) <=> Free(events, K) /\ e \notin K
  BY <1>3, <1>4
<1>7. ASSUME NEW G, NEW L
      PROVE  Ends(events', G, L) <=> e \in G \/ (e \notin L /\ Ends(events, G, L))
  <2>1. Ends(Append(events, e), G, L) <=> e \in G \/ (e \notin L /\ Ends(events, G, L))
    BY <1>5
  <2> QED
    BY <1>3, <2>1
<1> QED
  BY <1>6, <1>7

\* A step that has no part in any of it.
Aside ==
    /\ UNCHANGED <<staticIp, usable, link, netif, leased, client, connected, stopping, linkLed, mqttLed>>
    /\ events' = events \/ events' = Posted(events, <<"RECEIVED_PACKET">>)

LEMMA Effects ==
  ASSUME [Next]_vars
  PROVE  \/ LinkChange \/ Bind \/ Lapse \/ ReportLoss \/ StationGotIp \/ Dispatch
         \/ StopTimer \/ StopClient \/ AwaitTask \/ Forget
         \/ (LoopYields /\ Greet) \/ (LoopYields /\ ConnectionLost)
         \/ Aside
<1>1. Greeted \/ TaskEnds \/ CommandStop \/ CommandStopped \/ CommandStart => Aside
  BY DEF Greeted, TaskEnds, CommandStop, CommandStopped, CommandStart, Aside, setup, network,
     mqtt, leds
<1>2. SnifferTest \/ SnifferReceive \/ SnifferPublish \/ SnifferPost => Aside
  BY DEF SnifferTest, SnifferReceive, SnifferPublish, SnifferPost, Aside, setup, network, mqtt, leds
<1>3. UNCHANGED vars => Aside
  BY DEF Aside, vars, setup, network, mqtt, leds
<1> QED
  BY <1>1, <1>2, <1>3, Steps

\* The cable is put in.
LEMMA LinkUpSettles == ASSUME IInv, Room, Settles, ~link, LinkChange PROVE Settles'
<1> USE DEF setup, network, mqtt, leds
<1>1. AddressStarts /\ StartHasAddress /\ Green /\ Dark /\ Flags /\ Places /\ Stages
  BY DEF Settles, IInv
<1>2. /\ \A K : Free(events', K) <=> Free(events, K) /\ "eth_connected" \notin K
      /\ \A G, L : Ends(events', G, L) <=>
               "eth_connected" \in G \/ ("eth_connected" \notin L /\ Ends(events, G, L))
  BY Appended DEF AllEvents, DriverPosts, LinkChange
<1>3. AddressStarts'
  BY <1>1, <1>2 DEF AddressStarts, Started, Gains, Losses, Flags, Places, DriverPosts, LinkChange
<1>4. StartHasAddress'
  BY <1>1, <1>2 DEF StartHasAddress, Started, Gains, Losses, Flags, Places, DriverPosts, LinkChange
<1>5. Green'
  BY <1>1, <1>2 DEF Green, Flags, Places, DriverPosts, LinkChange
<1>6. Dark'
  BY <1>1, <1>2 DEF Dark, Ups, Bright, Flags, Places, DriverPosts, LinkChange
<1> QED
  BY <1>3, <1>4, <1>5, <1>6 DEF Settles

\* The cable is taken out: the last that is heard.
LEMMA LinkDownSettles == ASSUME IInv, Room, Settles, link, LinkChange PROVE Settles'
<1> USE DEF setup, network, mqtt, leds
<1>1. AddressStarts /\ StartHasAddress /\ Green /\ Dark /\ Flags /\ Places /\ Stages
  BY DEF Settles, IInv
<1>2. /\ \A K : Free(events', K) <=> Free(events, K) /\ "eth_disconnected" \notin K
      /\ \A G, L : Ends(events', G, L) <=>
               "eth_disconnected" \in G \/ ("eth_disconnected" \notin L /\ Ends(events, G, L))
  BY Appended DEF AllEvents, DriverPosts, LinkChange
<1>3. AddressStarts'
  BY <1>1, <1>2 DEF AddressStarts, Started, Gains, Losses, Flags, Places, DriverPosts, LinkChange
<1>4. StartHasAddress'
  BY <1>1, <1>2 DEF StartHasAddress, Started, Gains, Losses, Flags, Places, DriverPosts, LinkChange
<1>5. Green'
  BY <1>1, <1>2 DEF Green, Flags, Places, DriverPosts, LinkChange
<1>6. Dark'
  BY <1>1, <1>2 DEF Dark, Ups, Bright, Flags, Places, DriverPosts, LinkChange
<1> QED
  BY <1>3, <1>4, <1>5, <1>6 DEF Settles

\* An address, after every loss there was.
LEMMA BindSettles == ASSUME IInv, Room, Settles, Bind PROVE Settles'
<1> USE DEF setup, network, mqtt, leds
<1>1. AddressStarts /\ StartHasAddress /\ Green /\ Dark /\ Flags /\ Places /\ Stages
  BY DEF Settles, IInv
<1>2. /\ \A K : Free(events', K) <=> Free(events, K) /\ "eth_got_ip" \notin K
      /\ \A G, L : Ends(events', G, L) <=>
               "eth_got_ip" \in G \/ ("eth_got_ip" \notin L /\ Ends(events, G, L))
  BY Appended DEF Bind, AllEvents, DriverPosts
<1>3. AddressStarts'
  BY <1>1, <1>2 DEF Bind, AddressStarts, Started, Gains, Losses, Flags, Places, DriverPosts
<1>4. StartHasAddress'
  BY <1>1, <1>2 DEF Bind, StartHasAddress, Started, Gains, Losses, Flags, Places, DriverPosts
<1>5. Green'
  BY <1>1, <1>2 DEF Bind, Green, Flags, Places, DriverPosts
<1>6. Dark'
  BY <1>1, <1>2 DEF Bind, Dark, Ups, Bright, Flags, Places, DriverPosts
<1> QED
  BY <1>3, <1>4, <1>5, <1>6 DEF Settles

\* A lease that ends, and is not reported yet.
LEMMA LapseSettles == ASSUME IInv, Room, Settles, Lapse PROVE Settles'
<1> USE DEF setup, network, mqtt, leds
<1>1. AddressStarts /\ StartHasAddress /\ Green /\ Dark /\ Flags /\ Places /\ Stages
  BY DEF Settles, IInv
<1>2. events' = events
  BY DEF Lapse
<1>3. AddressStarts'
  BY <1>1, <1>2 DEF Lapse, AddressStarts, Started, Gains, Losses, Flags, Places
<1>4. StartHasAddress'
  BY <1>1, <1>2 DEF Lapse, StartHasAddress, Started, Gains, Losses, Flags, Places
<1>5. Green'
  BY <1>1, <1>2 DEF Lapse, Green, Flags, Places
<1>6. Dark'
  BY <1>1, <1>2 DEF Lapse, Dark, Ups, Bright, Flags, Places
<1> QED
  BY <1>3, <1>4, <1>5, <1>6 DEF Settles

\* The loss is reported.
LEMMA ReportLossSettles == ASSUME IInv, Room, Settles, ReportLoss PROVE Settles'
<1> USE DEF setup, network, mqtt, leds
<1>1. AddressStarts /\ StartHasAddress /\ Green /\ Dark /\ Flags /\ Places /\ Stages
  BY DEF Settles, IInv
<1>2. /\ \A K : Free(events', K) <=> Free(events, K) /\ "eth_lost_ip" \notin K
      /\ \A G, L : Ends(events', G, L) <=>
               "eth_lost_ip" \in G \/ ("eth_lost_ip" \notin L /\ Ends(events, G, L))
  BY Appended DEF ReportLoss, AllEvents, DriverPosts
<1>3. AddressStarts'
  BY <1>1, <1>2 DEF ReportLoss, AddressStarts, Started, Gains, Losses, Flags, Places, DriverPosts
<1>4. StartHasAddress'
  BY <1>1, <1>2 DEF ReportLoss, StartHasAddress, Started, Gains, Losses, Flags, Places, DriverPosts
<1>5. Green'
  BY <1>1, <1>2 DEF ReportLoss, Green, Flags, Places, DriverPosts
<1>6. Dark'
  BY <1>1, <1>2 DEF ReportLoss, Dark, Ups, Bright, Flags, Places, DriverPosts
<1> QED
  BY <1>3, <1>4, <1>5, <1>6 DEF Settles

\* The station has no part.
LEMMA StationGotIpSettles == ASSUME IInv, Room, Settles, StationGotIp PROVE Settles'
<1> USE DEF setup, network, mqtt, leds
<1>1. AddressStarts /\ StartHasAddress /\ Green /\ Dark /\ Flags /\ Places /\ Stages
  BY DEF Settles, IInv
<1>2. /\ \A K : Free(events', K) <=> Free(events, K) /\ "sta_got_ip" \notin K
      /\ \A G, L : Ends(events', G, L) <=>
               "sta_got_ip" \in G \/ ("sta_got_ip" \notin L /\ Ends(events, G, L))
  BY Appended DEF StationGotIp, AllEvents, DriverPosts
<1>3. AddressStarts'
  BY <1>1, <1>2 DEF StationGotIp, AddressStarts, Started, Gains, Losses, Flags, Places, DriverPosts
<1>4. StartHasAddress'
  BY <1>1, <1>2 DEF StationGotIp, StartHasAddress, Started, Gains, Losses, Flags, Places,
     DriverPosts
<1>5. Green'
  BY <1>1, <1>2 DEF StationGotIp, Green, Flags, Places, DriverPosts
<1>6. Dark'
  BY <1>1, <1>2 DEF StationGotIp, Dark, Ups, Bright, Flags, Places, DriverPosts
<1> QED
  BY <1>3, <1>4, <1>5, <1>6 DEF Settles

\* mqtt_stop goes on.
LEMMA StopTimerSettles == ASSUME IInv, Room, Settles, StopTimer PROVE Settles'
<1> USE DEF setup, network, mqtt, leds
<1>1. AddressStarts /\ StartHasAddress /\ Green /\ Dark /\ Flags /\ Places /\ Stages
  BY DEF Settles, IInv
<1>2. events' = events
  BY DEF StopTimer
<1>3. AddressStarts'
  BY <1>1, <1>2, StopSteps, Bodies DEF StopTimer, AddressStarts, Started, Gains, Losses, Flags,
     Places
<1>4. StartHasAddress'
  BY <1>1, <1>2, StopSteps, Bodies DEF StopTimer, StartHasAddress, Started, Gains, Losses, Flags,
     Places
<1>5. Green'
  BY <1>1, <1>2, StopSteps, Bodies DEF StopTimer, Green, Flags, Places
<1>6. Dark'
  BY <1>1, <1>2, StopSteps, Bodies DEF StopTimer, Dark, Ups, Bright, Flags, Places
<1> QED
  BY <1>3, <1>4, <1>5, <1>6 DEF Settles

\* mqtt_stop goes on.
LEMMA StopClientSettles == ASSUME IInv, Room, Settles, StopClient PROVE Settles'
<1> USE DEF setup, network, mqtt, leds
<1>1. AddressStarts /\ StartHasAddress /\ Green /\ Dark /\ Flags /\ Places /\ Stages
  BY DEF Settles, IInv
<1>2. events' = events
  BY DEF StopClient
<1>3. AddressStarts'
  BY <1>1, <1>2, StopSteps, Bodies DEF StopClient, AddressStarts, Started, Gains, Losses, Flags,
     Places
<1>4. StartHasAddress'
  BY <1>1, <1>2, StopSteps, Bodies DEF StopClient, StartHasAddress, Started, Gains, Losses,
     Flags, Places
<1>5. Green'
  BY <1>1, <1>2, StopSteps, Bodies DEF StopClient, Green, Flags, Places
<1>6. Dark'
  BY <1>1, <1>2, StopSteps, Bodies DEF StopClient, Dark, Ups, Bright, Flags, Places
<1> QED
  BY <1>3, <1>4, <1>5, <1>6 DEF Settles

\* Nothing is left that could have started the client.
LEMMA ForgetSettles == ASSUME IInv, Room, Settles, Forget PROVE Settles'
<1> USE DEF setup, network, mqtt, leds
<1>1. AddressStarts /\ StartHasAddress /\ Green /\ Dark /\ Flags /\ Places /\ Stages
  BY DEF Settles, IInv
<1>2. events' = events
  BY DEF Forget
<1>3. AddressStarts'
  BY <1>1, <1>2, StopSteps, Bodies DEF Forget, AddressStarts, Started, Gains, Losses, Flags, Places
<1>4. StartHasAddress'
  BY <1>1, <1>2, StopSteps, Bodies DEF Forget, StartHasAddress, Started, Gains, Losses, Flags,
     Places
<1>5. Green'
  BY <1>1, <1>2, StopSteps, Bodies DEF Forget, Green, Flags, Places
<1>6. Dark'
  BY <1>1, <1>2, StopSteps, Bodies DEF Forget, Dark, Ups, Bright, Flags, Places
<1> QED
  BY <1>3, <1>4, <1>5, <1>6 DEF Settles

\* mqtt_stop reports a connection that is gone.
LEMMA AwaitTaskSettles == ASSUME IInv, Room, Settles, AwaitTask PROVE Settles'
<1> USE DEF setup, network, mqtt, leds
<1>1. AddressStarts /\ StartHasAddress /\ Green /\ Dark /\ Flags /\ Places /\ Stages
  BY DEF Settles, IInv
<1>2. stopping # <<>> /\ stopping' # <<>> /\ connected' = FALSE
  BY <1>1, StopSteps, Bodies DEF AwaitTask
<1>3. CASE connected
  <2>1. /\ \A K : Free(events', K) <=> Free(events, K) /\ "MQTT_DISCONNECTED" \notin K
        /\ \A G, L : Ends(events', G, L) <=>
                 "MQTT_DISCONNECTED" \in G \/ ("MQTT_DISCONNECTED" \notin L /\ Ends(events, G, L))
    BY <1>3, Appended DEF AwaitTask, AllEvents
  <2>2. AddressStarts'
    BY <1>1, <1>2, <2>1 DEF AwaitTask, AddressStarts, Started, Gains, Losses, Flags, Places
  <2>3. StartHasAddress'
    BY <1>1, <1>2, <2>1 DEF AwaitTask, StartHasAddress, Started, Gains, Losses, Flags, Places
  <2>4. Green'
    BY <1>1, <1>2, <2>1 DEF AwaitTask, Green, Flags, Places
  <2>5. Dark'
    BY <1>1, <1>2, <2>1 DEF AwaitTask, Dark, Ups, Bright, Flags, Places
  <2> QED
    BY <2>2, <2>3, <2>4, <2>5 DEF Settles
<1>4. CASE ~(connected)
  <2>1. events' = events
    BY <1>1, <1>4 DEF AwaitTask, Flags
  <2>2. AddressStarts'
    BY <1>1, <1>2, <1>4, <2>1 DEF AwaitTask, AddressStarts, Started, Gains, Losses, Flags, Places
  <2>3. StartHasAddress'
    BY <1>1, <1>2, <1>4, <2>1 DEF AwaitTask, StartHasAddress, Started, Gains, Losses, Flags, Places
  <2>4. Green'
    BY <1>1, <1>2, <1>4, <2>1 DEF AwaitTask, Green, Flags, Places
  <2>5. Dark'
    BY <1>1, <1>2, <1>4, <2>1 DEF AwaitTask, Dark, Ups, Bright, Flags, Places
  <2> QED
    BY <2>2, <2>3, <2>4, <2>5 DEF Settles
<1> QED
  BY <1>3, <1>4

\* A connection is greeted when nothing else is queued: then there is a link.
LEMMA GreetSettles == ASSUME IInv, Room, Settles, LoopYields, Greet PROVE Settles'
<1> USE DEF setup, network, mqtt, leds
<1>1. AddressStarts /\ StartHasAddress /\ Green /\ Dark /\ Flags /\ Places /\ Stages
  BY DEF Settles, IInv
<1>2. events = <<>> /\ stopping = <<>> /\ client
  BY <1>1, Yields, BodiesDiffer DEF Greet, Stages, Locked
<1>3. \A K, G, L : Free(events, K) /\ ~Ends(events, G, L)
  BY <1>2, FreeEmpty
<1>4. connected' = TRUE /\ (~staticIp => link)
  BY <1>1, <1>2, <1>3 DEF Greet, SetConnected, StartHasAddress, Started
<1>5. CASE ~connected
  <2>1. /\ \A K : Free(events', K) <=> Free(events, K) /\ "MQTT_CONNECTED" \notin K
        /\ \A G, L : Ends(events', G, L) <=>
                 "MQTT_CONNECTED" \in G \/ ("MQTT_CONNECTED" \notin L /\ Ends(events, G, L))
    BY <1>5, Appended DEF Greet, AllEvents, SetConnected
  <2>2. AddressStarts'
    BY <1>1, <1>2, <1>3, <1>4, <2>1 DEF Greet, AddressStarts, Started, Gains, Losses, Flags,
       Places, SetConnected
  <2>3. StartHasAddress'
    BY <1>1, <1>2, <1>3, <1>4, <2>1 DEF Greet, StartHasAddress, Started, Gains, Losses, Flags,
       Places, SetConnected
  <2>4. Green'
    BY <1>1, <1>2, <1>3, <1>4, <2>1 DEF Greet, Green, Flags, Places, SetConnected
  <2>5. Dark'
    BY <1>1, <1>2, <1>3, <1>4, <2>1 DEF Greet, Dark, Ups, Bright, Flags, Places, SetConnected
  <2> QED
    BY <2>2, <2>3, <2>4, <2>5 DEF Settles
<1>6. CASE ~(~connected)
  <2>1. events' = events
    BY <1>1, <1>6 DEF Greet, Flags, SetConnected
  <2>2. AddressStarts'
    BY <1>1, <1>2, <1>3, <1>4, <1>6, <2>1 DEF Greet, AddressStarts, Started, Gains, Losses,
       Flags, Places, SetConnected
  <2>3. StartHasAddress'
    BY <1>1, <1>2, <1>3, <1>4, <1>6, <2>1 DEF Greet, StartHasAddress, Started, Gains, Losses,
       Flags, Places, SetConnected
  <2>4. Green'
    BY <1>1, <1>2, <1>3, <1>4, <1>6, <2>1 DEF Greet, Green, Flags, Places, SetConnected
  <2>5. Dark'
    BY <1>1, <1>2, <1>3, <1>4, <1>6, <2>1 DEF Greet, Dark, Ups, Bright, Flags, Places, SetConnected
  <2> QED
    BY <2>2, <2>3, <2>4, <2>5 DEF Settles
<1> QED
  BY <1>5, <1>6

\* A connection that is gone is reported.
LEMMA ConnectionLostSettles == ASSUME IInv, Room, Settles, LoopYields, ConnectionLost PROVE Settles'
<1> USE DEF setup, network, mqtt, leds
<1>1. AddressStarts /\ StartHasAddress /\ Green /\ Dark /\ Flags /\ Places /\ Stages
  BY DEF Settles, IInv
<1>2. connected' = FALSE
  BY DEF ConnectionLost, SetConnected
<1>3. CASE connected
  <2>1. /\ \A K : Free(events', K) <=> Free(events, K) /\ "MQTT_DISCONNECTED" \notin K
        /\ \A G, L : Ends(events', G, L) <=>
                 "MQTT_DISCONNECTED" \in G \/ ("MQTT_DISCONNECTED" \notin L /\ Ends(events, G, L))
    BY <1>3, Appended DEF ConnectionLost, AllEvents, SetConnected
  <2>2. AddressStarts'
    BY <1>1, <1>2, <2>1 DEF ConnectionLost, AddressStarts, Started, Gains, Losses, Flags, Places,
       SetConnected
  <2>3. StartHasAddress'
    BY <1>1, <1>2, <2>1 DEF ConnectionLost, StartHasAddress, Started, Gains, Losses, Flags,
       Places, SetConnected
  <2>4. Green'
    BY <1>1, <1>2, <2>1 DEF ConnectionLost, Green, Flags, Places, SetConnected
  <2>5. Dark'
    BY <1>1, <1>2, <2>1 DEF ConnectionLost, Dark, Ups, Bright, Flags, Places, SetConnected
  <2> QED
    BY <2>2, <2>3, <2>4, <2>5 DEF Settles
<1>4. CASE ~(connected)
  <2>1. events' = events
    BY <1>1, <1>4 DEF ConnectionLost, Flags, SetConnected
  <2>2. AddressStarts'
    BY <1>1, <1>2, <1>4, <2>1 DEF ConnectionLost, AddressStarts, Started, Gains, Losses, Flags,
       Places, SetConnected
  <2>3. StartHasAddress'
    BY <1>1, <1>2, <1>4, <2>1 DEF ConnectionLost, StartHasAddress, Started, Gains, Losses, Flags,
       Places, SetConnected
  <2>4. Green'
    BY <1>1, <1>2, <1>4, <2>1 DEF ConnectionLost, Green, Flags, Places, SetConnected
  <2>5. Dark'
    BY <1>1, <1>2, <1>4, <2>1 DEF ConnectionLost, Dark, Ups, Bright, Flags, Places, SetConnected
  <2> QED
    BY <2>2, <2>3, <2>4, <2>5 DEF Settles
<1> QED
  BY <1>3, <1>4

\* The steps of the others.
LEMMA AsideSettles == ASSUME IInv, Room, Settles, Aside PROVE Settles'
<1>1. CASE events' = events
  BY <1>1 DEF Aside, Settles, AddressStarts, StartHasAddress, Started, Green, Dark
<1>2. CASE events' = Posted(events, <<"RECEIVED_PACKET">>)
  <2>1. /\ \A K : Free(events', K) <=> Free(events, K) /\ "RECEIVED_PACKET" \notin K
        /\ \A G, L : Ends(events', G, L) <=>
              "RECEIVED_PACKET" \in G \/ ("RECEIVED_PACKET" \notin L /\ Ends(events, G, L))
    BY <1>2, Appended DEF AllEvents
  <2>2. AddressStarts'
    BY <2>1 DEF Aside, Settles, AddressStarts, Started, Gains, Losses
  <2>3. StartHasAddress'
    BY <2>1 DEF Aside, Settles, StartHasAddress, Started, Gains, Losses
  <2>4. Green'
    BY <2>1 DEF Aside, Settles, Green
  <2>5. Dark'
    BY <2>1 DEF Aside, Settles, Dark, Ups, Bright
  <2> QED
    BY <2>2, <2>3, <2>4, <2>5 DEF Settles
<1> QED
  BY <1>1, <1>2 DEF Aside
----------------------------------------------------------------------------
(* The dispatch of an event *)

\* What the head of the queue means for the whole of it.
LEMMA Taken ==
  ASSUME IInv, events # <<>>
  PROVE  /\ Head(events) \in AllEvents /\ Tail(events) \in Seq(AllEvents)
         /\ \A K : Free(events, K) <=> Head(events) \notin K /\ Free(Tail(events), K)
         /\ \A G, L : Ends(events, G, L) <=>
               Ends(Tail(events), G, L) \/ (Head(events) \in G /\ Free(Tail(events), L))
<1>1. events \in Seq(AllEvents)
  BY DEF IInv, Queued
<1> QED
  BY <1>1, QueueTail, FreeTail, EndsTail

\* Behind the others come the events that it becomes.
Becoming == NetifPosts(Head(events)) \o Posts(Head(events))

\* There is room for three.
LEMMA RoomForAll ==
  ASSUME IInv, Room, Dispatch
  PROVE  /\ Tail(events) \in Seq(AllEvents) /\ Len(Tail(events)) + 3 <= QueueLen
         /\ Len(Tail(events)) \in Nat /\ events' = Posted(Tail(events), Becoming)
<1>1. events \in Seq(AllEvents) /\ events # <<>>
  BY DEF IInv, Queued, Dispatch
<1>2. Len(events) \in Nat \ {0} /\ Len(Tail(events)) = Len(events) - 1 /\ Tail(events) \in Seq(AllEvents)
  BY <1>1, QueueTail
<1> QED
  BY <1>2, UplinkAssumption DEF Room, Dispatch, Becoming

LEMMA QueueNone ==
  ASSUME IInv, Room, Dispatch, Becoming = <<>>
  PROVE  events' = Tail(events)
<1>1. /\ Tail(events) \in Seq(AllEvents) /\ Len(Tail(events)) + 3 <= QueueLen /\ Len(Tail(events)) \in Nat
      /\ events' = Posted(Tail(events), Becoming)
  BY RoomForAll
<1>2. Len(Tail(events)) + 0 <= QueueLen /\ Len(Tail(events)) <= QueueLen
  BY <1>1, UplinkAssumption
<1> QED
  BY <1>1, <1>2, PostNone, Zenon

LEMMA ThenNone ==
  ASSUME IInv, Room, Dispatch, Becoming = <<>>
  PROVE  /\ \A K : Free(events', K) <=> Free(Tail(events), K)
         /\ \A G, L : Ends(events', G, L) <=> Ends(Tail(events), G, L)
  BY QueueNone

LEMMA QueueOne ==
  ASSUME IInv, Room, Dispatch, NEW a \in AllEvents, Becoming = <<a>>
  PROVE  events' = Append(Tail(events), a)
<1>1. /\ Tail(events) \in Seq(AllEvents) /\ Len(Tail(events)) + 3 <= QueueLen /\ Len(Tail(events)) \in Nat
      /\ events' = Posted(Tail(events), Becoming)
  BY RoomForAll
<1>2. Len(Tail(events)) + 1 <= QueueLen /\ Len(Tail(events)) <= QueueLen
  BY <1>1, UplinkAssumption
<1> QED
  BY <1>1, <1>2, PostOne, Zenon

LEMMA ThenOne ==
  ASSUME IInv, Room, Dispatch, NEW a \in AllEvents, Becoming = <<a>>
  PROVE  /\ \A K : Free(events', K) <=> Free(Tail(events), K) /\ a \notin K
         /\ \A G, L : Ends(events', G, L) <=> a \in G \/ (a \notin L /\ (Ends(Tail(events), G, L)))
<1>1. Tail(events) \in Seq(AllEvents)
  BY RoomForAll
<1>2. events' = Append(Tail(events), a)
  BY QueueOne
<1> DEFINE q == Tail(events)
           q1 == Append(q, a)
<1>3. q \in Seq(AllEvents)
  BY <1>1, AppendProperties
<1>4. /\ \A K : Free(q1, K) <=> Free(q, K) /\ a \notin K
      /\ \A G, L : Ends(q1, G, L) <=> a \in G \/ (a \notin L /\ Ends(q, G, L))
  <2> HIDE DEF q
  <2> QED
    BY <1>3, FreeAppend, EndsAppend
<1>5. events' = q1
  BY <1>2
<1> HIDE DEF q1
<1>6. ASSUME NEW K PROVE Free(events', K) <=> Free(q, K) /\ a \notin K
  BY <1>4, <1>5
<1>7. ASSUME NEW G, NEW L
      PROVE  Ends(events', G, L) <=> a \in G \/ (a \notin L /\ (Ends(q, G, L)))
  <2>1. Ends(q1, G, L) <=> a \in G \/ (a \notin L /\ Ends(q, G, L))
    BY <1>4
  <2> QED
    BY <2>1, <1>5
<1> QED
  BY <1>6, <1>7

LEMMA QueueTwo ==
  ASSUME IInv, Room, Dispatch, NEW a \in AllEvents, NEW b \in AllEvents, Becoming = <<a, b>>
  PROVE  events' = Append(Append(Tail(events), a), b)
<1>1. /\ Tail(events) \in Seq(AllEvents) /\ Len(Tail(events)) + 3 <= QueueLen /\ Len(Tail(events)) \in Nat
      /\ events' = Posted(Tail(events), Becoming)
  BY RoomForAll
<1>2. Len(Tail(events)) + 2 <= QueueLen /\ Len(Tail(events)) <= QueueLen
  BY <1>1, UplinkAssumption
<1> QED
  BY <1>1, <1>2, PostTwo, Zenon

LEMMA ThenTwo ==
  ASSUME IInv, Room, Dispatch, NEW a \in AllEvents, NEW b \in AllEvents, Becoming = <<a, b>>
  PROVE  /\ \A K : Free(events', K) <=> Free(Tail(events), K) /\ a \notin K /\ b \notin K
         /\ \A G, L : Ends(events', G, L) <=>
                  b \in G \/ (b \notin L /\ (a \in G \/ (a \notin L /\ (Ends(Tail(events), G, L)))))
<1>1. Tail(events) \in Seq(AllEvents)
  BY RoomForAll
<1>2. events' = Append(Append(Tail(events), a), b)
  BY QueueTwo
<1> DEFINE q == Tail(events)
           q1 == Append(q, a)
           q2 == Append(q1, b)
<1>3. q \in Seq(AllEvents) /\ q1 \in Seq(AllEvents)
  BY <1>1, AppendProperties
<1>4. /\ \A K : Free(q1, K) <=> Free(q, K) /\ a \notin K
      /\ \A G, L : Ends(q1, G, L) <=> a \in G \/ (a \notin L /\ Ends(q, G, L))
  <2> HIDE DEF q
  <2> QED
    BY <1>3, FreeAppend, EndsAppend
<1>5. /\ \A K : Free(q2, K) <=> Free(q1, K) /\ b \notin K
      /\ \A G, L : Ends(q2, G, L) <=> b \in G \/ (b \notin L /\ Ends(q1, G, L))
  <2> HIDE DEF q, q1
  <2> QED
    BY <1>3, FreeAppend, EndsAppend
<1>6. events' = q2
  BY <1>2
<1> HIDE DEF q1, q2
<1>7. ASSUME NEW K PROVE Free(events', K) <=> Free(q, K) /\ a \notin K /\ b \notin K
  BY <1>4, <1>5, <1>6
<1>8. ASSUME NEW G, NEW L
      PROVE  Ends(events', G, L) <=>
                   b \in G \/ (b \notin L /\ (a \in G \/ (a \notin L /\ (Ends(q, G, L)))))
  <2>1. Ends(q1, G, L) <=> a \in G \/ (a \notin L /\ Ends(q, G, L))
    BY <1>4
  <2>2. Ends(q2, G, L) <=> b \in G \/ (b \notin L /\ Ends(q1, G, L))
    BY <1>5
  <2> QED
    BY <2>1, <2>2, <1>6
<1> QED
  BY <1>7, <1>8

LEMMA QueueThree ==
  ASSUME IInv, Room, Dispatch, NEW a \in AllEvents, NEW b \in AllEvents, NEW c \in AllEvents,
         Becoming = <<a, b>> \o <<c>>
  PROVE  events' = Append(Append(Append(Tail(events), a), b), c)
<1>1. /\ Tail(events) \in Seq(AllEvents) /\ Len(Tail(events)) + 3 <= QueueLen /\ Len(Tail(events)) \in Nat
      /\ events' = Posted(Tail(events), Becoming)
  BY RoomForAll
<1>2. Len(Tail(events)) + 3 <= QueueLen /\ Len(Tail(events)) <= QueueLen
  BY <1>1, UplinkAssumption
<1> QED
  BY <1>1, <1>2, PostThree, Zenon

LEMMA ThenThree ==
  ASSUME IInv, Room, Dispatch, NEW a \in AllEvents, NEW b \in AllEvents, NEW c \in AllEvents,
         Becoming = <<a, b>> \o <<c>>
  PROVE  /\ \A K : Free(events', K) <=> Free(Tail(events), K) /\ a \notin K /\ b \notin K /\ c \notin K
         /\ \A G, L : Ends(events', G, L) <=>
                  c \in G \/ (c \notin L /\ (b \in G \/ (b \notin L /\ (a \in G \/ (a \notin L /\
                     (Ends(Tail(events), G, L)))))))
<1>1. Tail(events) \in Seq(AllEvents)
  BY RoomForAll
<1>2. events' = Append(Append(Append(Tail(events), a), b), c)
  BY QueueThree
<1> DEFINE q == Tail(events)
           q1 == Append(q, a)
           q2 == Append(q1, b)
           q3 == Append(q2, c)
<1>3. q \in Seq(AllEvents) /\ q1 \in Seq(AllEvents) /\ q2 \in Seq(AllEvents)
  BY <1>1, AppendProperties
<1>4. /\ \A K : Free(q1, K) <=> Free(q, K) /\ a \notin K
      /\ \A G, L : Ends(q1, G, L) <=> a \in G \/ (a \notin L /\ Ends(q, G, L))
  <2> HIDE DEF q
  <2> QED
    BY <1>3, FreeAppend, EndsAppend
<1>5. /\ \A K : Free(q2, K) <=> Free(q1, K) /\ b \notin K
      /\ \A G, L : Ends(q2, G, L) <=> b \in G \/ (b \notin L /\ Ends(q1, G, L))
  <2> HIDE DEF q, q1
  <2> QED
    BY <1>3, FreeAppend, EndsAppend
<1>6. /\ \A K : Free(q3, K) <=> Free(q2, K) /\ c \notin K
      /\ \A G, L : Ends(q3, G, L) <=> c \in G \/ (c \notin L /\ Ends(q2, G, L))
  <2> HIDE DEF q, q1, q2
  <2> QED
    BY <1>3, FreeAppend, EndsAppend
<1>7. events' = q3
  BY <1>2
<1> HIDE DEF q1, q2, q3
<1>8. ASSUME NEW K PROVE Free(events', K) <=> Free(q, K) /\ a \notin K /\ b \notin K /\ c \notin K
  BY <1>4, <1>5, <1>6, <1>7
<1>9. ASSUME NEW G, NEW L
      PROVE  Ends(events', G, L) <=>
                   c \in G \/ (c \notin L /\ (b \in G \/ (b \notin L /\ (a \in G \/ (a \notin L /\
                      (Ends(q, G, L)))))))
  <2>1. Ends(q1, G, L) <=> a \in G \/ (a \notin L /\ Ends(q, G, L))
    BY <1>4
  <2>2. Ends(q2, G, L) <=> b \in G \/ (b \notin L /\ Ends(q1, G, L))
    BY <1>5
  <2>3. Ends(q3, G, L) <=> c \in G \/ (c \notin L /\ Ends(q2, G, L))
    BY <1>6
  <2> QED
    BY <2>1, <2>2, <2>3, <1>7
<1> QED
  BY <1>8, <1>9
\* What happens to the network, the LEDs and the client.
LEMMA NetifDoes ==
  ASSUME Dispatch
  PROVE  /\ Head(events) = "eth_connected" => netif' = IF staticIp THEN "bound" ELSE "up"
         /\ Head(events) = "eth_disconnected" => netif' = "down"
         /\ Head(events) \notin {"eth_connected", "eth_disconnected"} => netif' = netif
         /\ leased' = (leased \/ (Head(events) = "eth_connected" /\ staticIp))
  BY DEF Dispatch, NetifFollows

LEMMA LedsDo ==
  ASSUME Dispatch
  PROVE  /\ Head(events) = "GOT_IP" => mqttLed' = "yellow"
         /\ Head(events) \in {"LOST_IP", "DISCONNECTED"} => mqttLed' = "dark"
         /\ Head(events) = "MQTT_CONNECTED" => mqttLed' = "green"
         /\ Head(events) = "MQTT_DISCONNECTED" => mqttLed' = IF linkLed THEN "yellow" ELSE "dark"
         /\ Head(events) \notin {"GOT_IP", "LOST_IP", "DISCONNECTED",
                                 "MQTT_CONNECTED", "MQTT_DISCONNECTED"} =>
               mqttLed' = mqttLed
         /\ Head(events) = "CONNECTED" => linkLed'
         /\ Head(events) = "DISCONNECTED" => ~linkLed'
         /\ Head(events) \notin {"CONNECTED", "DISCONNECTED"} => linkLed' = linkLed
<1>1. LedsFollow(Head(events))
  BY DEF Dispatch
<1> QED
  BY <1>1 DEF LedsFollow, Colour

LEMMA MqttDoes ==
  ASSUME Dispatch
  PROVE  /\ Head(events) = "GOT_IP" /\ ~client /\ usable => client' /\ stopping' = <<>>
         /\ Head(events) = "LOST_IP" /\ client => client' = client /\ stopping' # <<>>
         /\ ~(Head(events) = "GOT_IP" /\ ~client /\ usable) /\ ~(Head(events) = "LOST_IP" /\ client) =>
               client' = client /\ stopping' = <<>>
<1>1. MqttFollows(Head(events)) /\ stopping = <<>>
  BY DEF Dispatch
<1>2. Stop4 # <<>> /\ Stop4 = <<"stop_timer", "stop_client", "await_task", "forget">>
  BY Bodies DEF Stop4
<1> QED
  BY <1>1, <1>2 DEF MqttFollows

\* The link is up: with an address from the configuration the rest follows at once.
LEMMA ConnectedSettles ==
  ASSUME IInv, Room, Settles, Dispatch,
         Head(events) = "eth_connected", staticIp
  PROVE  Settles'
<1>1. AddressStarts /\ StartHasAddress /\ Green /\ Dark /\ Flags /\ Places
  BY DEF Settles, IInv
<1>2. events # <<>> /\ stopping = <<>> /\ UNCHANGED <<staticIp, usable, link, connected>>
  BY DEF Dispatch, setup
<1>3. /\ Head(events) \in AllEvents
      /\ \A K : Free(events, K) <=> Head(events) \notin K /\ Free(Tail(events), K)
      /\ \A G, L : Ends(events, G, L) <=>
            Ends(Tail(events), G, L) \/ (Head(events) \in G /\ Free(Tail(events), L))
  BY <1>2, Taken
<1>4. Becoming = <<"eth_got_ip", "netif_up">> \o <<"CONNECTED">>
  BY Becomes DEF Becoming, NetifPosts
<1>5. /\ \A K : Free(events', K) <=> Free(Tail(events), K) /\ "eth_got_ip" \notin K
                                           /\ "netif_up" \notin K /\ "CONNECTED" \notin K
      /\ \A G, L : Ends(events', G, L) <=>
               "CONNECTED" \in G \/ ("CONNECTED" \notin L /\
                  ("netif_up" \in G \/ ("netif_up" \notin L /\
                     ("eth_got_ip" \in G \/ ("eth_got_ip" \notin L /\ Ends(Tail(events), G, L))))))
  BY <1>4, ThenThree DEF AllEvents
<1>6. AddressStarts'
  BY <1>1, <1>2, <1>3, <1>5, NetifDoes, MqttDoes DEF AddressStarts, Started, Gains, Losses, Flags
<1>7. StartHasAddress'
  BY <1>1, <1>2, <1>3, <1>5, NetifDoes, MqttDoes DEF StartHasAddress, Started, Gains, Losses, Flags
<1>8. Green'
  BY <1>1, <1>2, <1>3, <1>5, LedsDo DEF Green, Flags
<1>9. Dark'
  BY <1>1, <1>2, <1>3, <1>5, LedsDo DEF Dark, Ups, Bright, Flags
<1> QED
  BY <1>6, <1>7, <1>8, <1>9 DEF Settles

\* The link is up, without an address.
LEMMA ConnectedDhcpSettles ==
  ASSUME IInv, Room, Settles, Dispatch,
         Head(events) = "eth_connected", ~staticIp
  PROVE  Settles'
<1>1. AddressStarts /\ StartHasAddress /\ Green /\ Dark /\ Flags /\ Places
  BY DEF Settles, IInv
<1>2. events # <<>> /\ stopping = <<>> /\ UNCHANGED <<staticIp, usable, link, connected>>
  BY DEF Dispatch, setup
<1>3. /\ Head(events) \in AllEvents
      /\ \A K : Free(events, K) <=> Head(events) \notin K /\ Free(Tail(events), K)
      /\ \A G, L : Ends(events, G, L) <=>
            Ends(Tail(events), G, L) \/ (Head(events) \in G /\ Free(Tail(events), L))
  BY <1>2, Taken
<1>4. Becoming = <<"CONNECTED">>
  <2>1. NetifPosts(Head(events)) = <<>>
    BY DEF NetifPosts
  <2>2. Posts(Head(events)) = <<"CONNECTED">>
    BY <1>3, Becomes
  <2>3. <<>> \o <<"CONNECTED">> = <<"CONNECTED">>
    OBVIOUS
  <2> QED
    BY <2>1, <2>2, <2>3, Zenon DEF Becoming
<1>5. /\ \A K : Free(events', K) <=> Free(Tail(events), K) /\ "CONNECTED" \notin K
      /\ \A G, L : Ends(events', G, L) <=>
               "CONNECTED" \in G \/ ("CONNECTED" \notin L /\ Ends(Tail(events), G, L))
  BY <1>4, ThenOne DEF AllEvents
<1>6. AddressStarts'
  BY <1>1, <1>2, <1>3, <1>5, NetifDoes, MqttDoes DEF AddressStarts, Started, Gains, Losses, Flags
<1>7. StartHasAddress'
  BY <1>1, <1>2, <1>3, <1>5, NetifDoes, MqttDoes DEF StartHasAddress, Started, Gains, Losses, Flags
<1>8. Green'
  BY <1>1, <1>2, <1>3, <1>5, LedsDo DEF Green, Flags
<1>9. Dark'
  BY <1>1, <1>2, <1>3, <1>5, LedsDo DEF Dark, Ups, Bright, Flags
<1> QED
  BY <1>6, <1>7, <1>8, <1>9 DEF Settles

\* The link is down: the address is lost with it.
LEMMA DisconnectedSettles ==
  ASSUME IInv, Room, Settles, Dispatch,
         Head(events) = "eth_disconnected"
  PROVE  Settles'
<1>1. AddressStarts /\ StartHasAddress /\ Green /\ Dark /\ Flags /\ Places
  BY DEF Settles, IInv
<1>2. events # <<>> /\ stopping = <<>> /\ UNCHANGED <<staticIp, usable, link, connected>>
  BY DEF Dispatch, setup
<1>3. /\ Head(events) \in AllEvents
      /\ \A K : Free(events, K) <=> Head(events) \notin K /\ Free(Tail(events), K)
      /\ \A G, L : Ends(events, G, L) <=>
            Ends(Tail(events), G, L) \/ (Head(events) \in G /\ Free(Tail(events), L))
  BY <1>2, Taken
<1>4. Becoming = <<"LOST_IP", "DISCONNECTED">>
  <2>1. NetifPosts(Head(events)) = <<>>
    BY DEF NetifPosts
  <2>2. Posts(Head(events)) = <<"LOST_IP", "DISCONNECTED">>
    BY <1>3, Becomes
  <2>3. <<>> \o <<"LOST_IP", "DISCONNECTED">> = <<"LOST_IP", "DISCONNECTED">>
    OBVIOUS
  <2> QED
    BY <2>1, <2>2, <2>3, Zenon DEF Becoming
<1>5. /\ \A K : Free(events', K) <=> Free(Tail(events), K) /\ "LOST_IP" \notin K /\ "DISCONNECTED" \notin K
      /\ \A G, L : Ends(events', G, L) <=>
               "DISCONNECTED" \in G \/ ("DISCONNECTED" \notin L /\
                  ("LOST_IP" \in G \/ ("LOST_IP" \notin L /\ Ends(Tail(events), G, L))))
  BY <1>4, ThenTwo DEF AllEvents
<1>6. AddressStarts'
  BY <1>1, <1>2, <1>3, <1>5, NetifDoes, MqttDoes DEF AddressStarts, Started, Gains, Losses, Flags
<1>7. StartHasAddress'
  BY <1>1, <1>2, <1>3, <1>5, NetifDoes, MqttDoes DEF StartHasAddress, Started, Gains, Losses, Flags
<1>8. Green'
  BY <1>1, <1>2, <1>3, <1>5, LedsDo DEF Green, Flags
<1>9. Dark'
  BY <1>1, <1>2, <1>3, <1>5, FreeOrEnds, LedsDo DEF Dark, Ups, Bright, Flags
<1> QED
  BY <1>6, <1>7, <1>8, <1>9 DEF Settles

\* An address goes from the first hop to the second.
LEMMA EthGotIpSettles ==
  ASSUME IInv, Room, Settles, Dispatch,
         Head(events) = "eth_got_ip"
  PROVE  Settles'
<1>1. AddressStarts /\ StartHasAddress /\ Green /\ Dark /\ Flags /\ Places
  BY DEF Settles, IInv
<1>2. events # <<>> /\ stopping = <<>> /\ UNCHANGED <<staticIp, usable, link, connected>>
  BY DEF Dispatch, setup
<1>3. /\ Head(events) \in AllEvents
      /\ \A K : Free(events, K) <=> Head(events) \notin K /\ Free(Tail(events), K)
      /\ \A G, L : Ends(events, G, L) <=>
            Ends(Tail(events), G, L) \/ (Head(events) \in G /\ Free(Tail(events), L))
  BY <1>2, Taken
<1>4. Becoming = <<"GOT_IP">>
  <2>1. NetifPosts(Head(events)) = <<>>
    BY DEF NetifPosts
  <2>2. Posts(Head(events)) = <<"GOT_IP">>
    BY <1>3, Becomes
  <2>3. <<>> \o <<"GOT_IP">> = <<"GOT_IP">>
    OBVIOUS
  <2> QED
    BY <2>1, <2>2, <2>3, Zenon DEF Becoming
<1>5. /\ \A K : Free(events', K) <=> Free(Tail(events), K) /\ "GOT_IP" \notin K
      /\ \A G, L : Ends(events', G, L) <=>
               "GOT_IP" \in G \/ ("GOT_IP" \notin L /\ Ends(Tail(events), G, L))
  BY <1>4, ThenOne DEF AllEvents
<1>6. AddressStarts'
  BY <1>1, <1>2, <1>3, <1>5, FreeOrEnds, NetifDoes, MqttDoes DEF AddressStarts, Started, Gains,
     Losses, Flags
<1>7. StartHasAddress'
  BY <1>1, <1>2, <1>3, <1>5, NetifDoes, MqttDoes DEF StartHasAddress, Started, Gains, Losses, Flags
<1>8. Green'
  BY <1>1, <1>2, <1>3, <1>5, LedsDo DEF Green, Flags
<1>9. Dark'
  BY <1>1, <1>2, <1>3, <1>5, LedsDo DEF Dark, Ups, Bright, Flags
<1> QED
  BY <1>6, <1>7, <1>8, <1>9 DEF Settles

\* So does a loss.
LEMMA EthLostIpSettles ==
  ASSUME IInv, Room, Settles, Dispatch,
         Head(events) = "eth_lost_ip"
  PROVE  Settles'
<1>1. AddressStarts /\ StartHasAddress /\ Green /\ Dark /\ Flags /\ Places
  BY DEF Settles, IInv
<1>2. events # <<>> /\ stopping = <<>> /\ UNCHANGED <<staticIp, usable, link, connected>>
  BY DEF Dispatch, setup
<1>3. /\ Head(events) \in AllEvents
      /\ \A K : Free(events, K) <=> Head(events) \notin K /\ Free(Tail(events), K)
      /\ \A G, L : Ends(events, G, L) <=>
            Ends(Tail(events), G, L) \/ (Head(events) \in G /\ Free(Tail(events), L))
  BY <1>2, Taken
<1>4. Becoming = <<"LOST_IP">>
  <2>1. NetifPosts(Head(events)) = <<>>
    BY DEF NetifPosts
  <2>2. Posts(Head(events)) = <<"LOST_IP">>
    BY <1>3, Becomes
  <2>3. <<>> \o <<"LOST_IP">> = <<"LOST_IP">>
    OBVIOUS
  <2> QED
    BY <2>1, <2>2, <2>3, Zenon DEF Becoming
<1>5. /\ \A K : Free(events', K) <=> Free(Tail(events), K) /\ "LOST_IP" \notin K
      /\ \A G, L : Ends(events', G, L) <=>
               "LOST_IP" \in G \/ ("LOST_IP" \notin L /\ Ends(Tail(events), G, L))
  BY <1>4, ThenOne DEF AllEvents
<1>6. AddressStarts'
  BY <1>1, <1>2, <1>3, <1>5, NetifDoes, MqttDoes DEF AddressStarts, Started, Gains, Losses, Flags
<1>7. StartHasAddress'
  BY <1>1, <1>2, <1>3, <1>5, NetifDoes, MqttDoes DEF StartHasAddress, Started, Gains, Losses, Flags
<1>8. Green'
  BY <1>1, <1>2, <1>3, <1>5, LedsDo DEF Green, Flags
<1>9. Dark'
  BY <1>1, <1>2, <1>3, <1>5, LedsDo DEF Dark, Ups, Bright, Flags
<1> QED
  BY <1>6, <1>7, <1>8, <1>9 DEF Settles

\* The address of the configuration is announced.
LEMMA NetifUpSettles ==
  ASSUME IInv, Room, Settles, Dispatch,
         Head(events) = "netif_up", staticIp
  PROVE  Settles'
<1>1. AddressStarts /\ StartHasAddress /\ Green /\ Dark /\ Flags /\ Places
  BY DEF Settles, IInv
<1>2. events # <<>> /\ stopping = <<>> /\ UNCHANGED <<staticIp, usable, link, connected>>
  BY DEF Dispatch, setup
<1>3. /\ Head(events) \in AllEvents
      /\ \A K : Free(events, K) <=> Head(events) \notin K /\ Free(Tail(events), K)
      /\ \A G, L : Ends(events, G, L) <=>
            Ends(Tail(events), G, L) \/ (Head(events) \in G /\ Free(Tail(events), L))
  BY <1>2, Taken
<1>4. Becoming = <<"GOT_IP">>
  <2>1. NetifPosts(Head(events)) = <<>>
    BY DEF NetifPosts
  <2>2. Posts(Head(events)) = <<"GOT_IP">>
    BY <1>3, Becomes
  <2>3. <<>> \o <<"GOT_IP">> = <<"GOT_IP">>
    OBVIOUS
  <2> QED
    BY <2>1, <2>2, <2>3, Zenon DEF Becoming
<1>5. /\ \A K : Free(events', K) <=> Free(Tail(events), K) /\ "GOT_IP" \notin K
      /\ \A G, L : Ends(events', G, L) <=>
               "GOT_IP" \in G \/ ("GOT_IP" \notin L /\ Ends(Tail(events), G, L))
  BY <1>4, ThenOne DEF AllEvents
<1>6. AddressStarts'
  BY <1>1, <1>2, <1>3, <1>5, NetifDoes, MqttDoes DEF AddressStarts, Started, Gains, Losses, Flags
<1>7. StartHasAddress'
  BY <1>1, <1>2, <1>3, <1>5, NetifDoes, MqttDoes DEF StartHasAddress, Started, Gains, Losses, Flags
<1>8. Green'
  BY <1>1, <1>2, <1>3, <1>5, LedsDo DEF Green, Flags
<1>9. Dark'
  BY <1>1, <1>2, <1>3, <1>5, LedsDo DEF Dark, Ups, Bright, Flags
<1> QED
  BY <1>6, <1>7, <1>8, <1>9 DEF Settles

\* An address starts the client, unless there is one.
LEMMA GotIpSettles ==
  ASSUME IInv, Room, Settles, Dispatch,
         Head(events) = "GOT_IP"
  PROVE  Settles'
<1>1. AddressStarts /\ StartHasAddress /\ Green /\ Dark /\ Flags /\ Places
  BY DEF Settles, IInv
<1>2. events # <<>> /\ stopping = <<>> /\ UNCHANGED <<staticIp, usable, link, connected>>
  BY DEF Dispatch, setup
<1>3. /\ Head(events) \in AllEvents
      /\ \A K : Free(events, K) <=> Head(events) \notin K /\ Free(Tail(events), K)
      /\ \A G, L : Ends(events, G, L) <=>
            Ends(Tail(events), G, L) \/ (Head(events) \in G /\ Free(Tail(events), L))
  BY <1>2, Taken
<1>4. Becoming = <<>>
  <2>1. NetifPosts(Head(events)) = <<>>
    BY DEF NetifPosts
  <2>2. Posts(Head(events)) = <<>>
    BY <1>3, Becomes
  <2>3. <<>> \o <<>> = <<>>
    OBVIOUS
  <2> QED
    BY <2>1, <2>2, <2>3, Zenon DEF Becoming
<1>5. /\ \A K : Free(events', K) <=> Free(Tail(events), K)
      /\ \A G, L : Ends(events', G, L) <=> Ends(Tail(events), G, L)
  BY <1>4, ThenNone
<1>6. AddressStarts'
  BY <1>1, <1>2, <1>3, <1>5, FreeOrEnds, NetifDoes, MqttDoes DEF AddressStarts, Started, Gains,
     Losses, Flags
<1>7. StartHasAddress'
  BY <1>1, <1>2, <1>3, <1>5, NetifDoes, MqttDoes DEF StartHasAddress, Started, Gains, Losses, Flags
<1>8. Green'
  BY <1>1, <1>2, <1>3, <1>5, LedsDo DEF Green, Flags
<1>9. Dark'
  BY <1>1, <1>2, <1>3, <1>5, LedsDo DEF Dark, Ups, Bright, Flags
<1> QED
  BY <1>6, <1>7, <1>8, <1>9 DEF Settles

\* A loss begins to stop it.
LEMMA LostIpSettles ==
  ASSUME IInv, Room, Settles, Dispatch,
         Head(events) = "LOST_IP"
  PROVE  Settles'
<1>1. AddressStarts /\ StartHasAddress /\ Green /\ Dark /\ Flags /\ Places
  BY DEF Settles, IInv
<1>2. events # <<>> /\ stopping = <<>> /\ UNCHANGED <<staticIp, usable, link, connected>>
  BY DEF Dispatch, setup
<1>3. /\ Head(events) \in AllEvents
      /\ \A K : Free(events, K) <=> Head(events) \notin K /\ Free(Tail(events), K)
      /\ \A G, L : Ends(events, G, L) <=>
            Ends(Tail(events), G, L) \/ (Head(events) \in G /\ Free(Tail(events), L))
  BY <1>2, Taken
<1>4. Becoming = <<>>
  <2>1. NetifPosts(Head(events)) = <<>>
    BY DEF NetifPosts
  <2>2. Posts(Head(events)) = <<>>
    BY <1>3, Becomes
  <2>3. <<>> \o <<>> = <<>>
    OBVIOUS
  <2> QED
    BY <2>1, <2>2, <2>3, Zenon DEF Becoming
<1>5. /\ \A K : Free(events', K) <=> Free(Tail(events), K)
      /\ \A G, L : Ends(events', G, L) <=> Ends(Tail(events), G, L)
  BY <1>4, ThenNone
<1>6. AddressStarts'
  BY <1>1, <1>2, <1>3, <1>5, NetifDoes, MqttDoes DEF AddressStarts, Started, Gains, Losses, Flags
<1>7. StartHasAddress'
  BY <1>1, <1>2, <1>3, <1>5, NetifDoes, MqttDoes DEF StartHasAddress, Started, Gains, Losses, Flags
<1>8. Green'
  BY <1>1, <1>2, <1>3, <1>5, LedsDo DEF Green, Flags
<1>9. Dark'
  BY <1>1, <1>2, <1>3, <1>5, LedsDo DEF Dark, Ups, Bright, Flags
<1> QED
  BY <1>6, <1>7, <1>8, <1>9 DEF Settles

\* The others are for the LEDs.
LEMMA OthersSettles ==
  ASSUME IInv, Room, Settles, Dispatch,
         Head(events) \in {"netif_up", "sta_got_ip", "CONNECTED", "DISCONNECTED", "MQTT_CONNECTED",
                           "MQTT_DISCONNECTED", "RECEIVED_PACKET"},
         Head(events) = "netif_up" => ~staticIp
  PROVE  Settles'
<1>1. AddressStarts /\ StartHasAddress /\ Green /\ Dark /\ Flags /\ Places
  BY DEF Settles, IInv
<1>2. events # <<>> /\ stopping = <<>> /\ UNCHANGED <<staticIp, usable, link, connected>>
  BY DEF Dispatch, setup
<1>3. /\ Head(events) \in AllEvents
      /\ \A K : Free(events, K) <=> Head(events) \notin K /\ Free(Tail(events), K)
      /\ \A G, L : Ends(events, G, L) <=>
            Ends(Tail(events), G, L) \/ (Head(events) \in G /\ Free(Tail(events), L))
  BY <1>2, Taken
<1>4. Becoming = <<>>
  <2>1. NetifPosts(Head(events)) = <<>>
    BY DEF NetifPosts
  <2>2. Posts(Head(events)) = <<>>
    BY <1>3, Becomes
  <2>3. <<>> \o <<>> = <<>>
    OBVIOUS
  <2> QED
    BY <2>1, <2>2, <2>3, Zenon DEF Becoming
<1>5. /\ \A K : Free(events', K) <=> Free(Tail(events), K)
      /\ \A G, L : Ends(events', G, L) <=> Ends(Tail(events), G, L)
  BY <1>4, ThenNone
<1>6. AddressStarts'
  BY <1>1, <1>2, <1>3, <1>5, NetifDoes, MqttDoes DEF AddressStarts, Started, Gains, Losses, Flags
<1>7. StartHasAddress'
  BY <1>1, <1>2, <1>3, <1>5, NetifDoes, MqttDoes DEF StartHasAddress, Started, Gains, Losses, Flags
<1>8. Green'
  BY <1>1, <1>2, <1>3, <1>5, LedsDo DEF Green, Flags
<1>9. Dark'
  BY <1>1, <1>2, <1>3, <1>5, LedsDo DEF Dark, Ups, Bright, Flags
<1> QED
  BY <1>6, <1>7, <1>8, <1>9 DEF Settles

LEMMA DispatchSettles == ASSUME IInv, Room, Settles, Dispatch PROVE Settles'
<1>1. Head(events) \in AllEvents
  BY Taken DEF Dispatch
<1> QED
  BY <1>1, ConnectedSettles, ConnectedDhcpSettles, DisconnectedSettles, EthGotIpSettles,
     EthLostIpSettles, NetifUpSettles, GotIpSettles, LostIpSettles, OthersSettles DEF AllEvents

\* With room, every step leaves it so that what is queued will be right.
LEMMA SettlesStep == ASSUME IInv, Room, Settles, [Next]_vars PROVE Settles'
<1>1. CASE LinkChange
  BY <1>1, LinkUpSettles, LinkDownSettles
<1>2. CASE Bind \/ Lapse \/ ReportLoss \/ StationGotIp
  BY <1>2, BindSettles, LapseSettles, ReportLossSettles, StationGotIpSettles
<1>3. CASE Dispatch
  BY <1>3, DispatchSettles
<1>4. CASE StopTimer \/ StopClient \/ AwaitTask \/ Forget
  BY <1>4, StopTimerSettles, StopClientSettles, AwaitTaskSettles, ForgetSettles
<1>5. CASE LoopYields /\ Greet
  BY <1>5, GreetSettles
<1>6. CASE LoopYields /\ ConnectionLost
  BY <1>6, ConnectionLostSettles
<1>7. CASE Aside
  BY <1>7, AsideSettles
<1> QED
  BY <1>1, <1>2, <1>3, <1>4, <1>5, <1>6, <1>7, Effects

LEMMA InitSettles == ASSUME Init PROVE Settles
<1>1. \A K, G, L : Free(events, K) /\ ~Ends(events, G, L)
  BY FreeEmpty DEF Init
<1> QED
  BY <1>1 DEF Init, Settles, AddressStarts, StartHasAddress, Started, Green, Dark

\* When the loop is done, what was queued has been right.
LEMMA SettledInv == ASSUME IInv, Settles PROVE Inv /\ AddressBringsClient /\ LossEndsClient
<1>1. TypeOK /\ StatsRun
  BY TypesHold
<1>2. ASSUME Drained
      PROVE  /\ netif = "bound" /\ usable => Alive
             /\ ~staticIp => ClientHasAddress
             /\ mqttLed = "green" => connected
             /\ ~link /\ ~staticIp => mqttLed = "dark"
  <2>1. events = <<>> /\ stopping = <<>>
    BY <1>2 DEF Drained
  <2>2. \A K, G, L : Free(events, K) /\ ~Ends(events, G, L)
    BY <2>1, FreeEmpty
  <2>3. Started <=> client
    BY <2>1, <2>2 DEF Started, IInv, Flags
  <2>4. client => run
    BY <2>1, Bodies DEF IInv, Stages
  <2>5. netif = "bound" /\ usable => Alive
    BY <2>2, <2>3, <2>4 DEF Settles, AddressStarts, Alive
  <2>6. ~staticIp => ClientHasAddress
    BY <2>3 DEF Settles, StartHasAddress, ClientHasAddress
  <2>7. mqttLed = "green" => connected
    BY <2>2 DEF Settles, Green
  <2>8. ~link /\ ~staticIp => mqttLed = "dark"
    BY <2>2 DEF Settles, Dark
  <2> QED
    BY <2>5, <2>6, <2>7, <2>8
<1>3. LedHonest
  BY <1>2 DEF LedHonest
<1>4. AddressBringsClient
  BY <1>2 DEF AddressBringsClient
<1>5. LossEndsClient
  <2>1. ASSUME ~Drained PROVE ClientHasAddress
    BY <2>1 DEF ClientHasAddress
  <2> QED
    BY <1>2, <2>1 DEF LossEndsClient
<1> QED
  BY <1>1, <1>3, <1>4, <1>5 DEF Inv

\* As long as the queue has room, whatever flaps and however often: client,
\* connection, timer and LED agree; an address brings the client (ethernet.c:124
\* "post an event to start MQTT etc.") and a loss ends it (ethernet.c:137 "post
\* an event to stop MQTT etc.").
THEOREM Delivered ==
  Spec /\ []Room => [](Inv /\ AddressBringsClient /\ LossEndsClient)
<1>1. Init => IInv /\ Settles
  BY InitIInv, InitSettles
<1>2. IInv /\ Settles /\ Room /\ [Next]_vars => (IInv /\ Settles)'
  BY IInvStep, SettlesStep
<1>3. IInv /\ Settles => Inv /\ AddressBringsClient /\ LossEndsClient
  BY SettledInv
<1> QED
  BY <1>1, <1>2, <1>3, PTL DEF Spec

----------------------------------------------------------------------------
(* The length of the queue *)

\* Frames are not captured, and the queue is long enough for the changes of
\* link and lease that there are.
Roomy == ~Flood /\ QueueLen >= 4 * MaxFlaps + 3

\* How many events may come of one.
Weight(e) == IF e = "eth_connected" THEN 4 ELSE IF e = "eth_disconnected" THEN 2 ELSE 1

\* The weights of the events in q add up to t; W has the partial sums.
Weighs(q, t) ==
    \E W \in [0 .. Len(q) -> Int] :
        /\ W[0] = 0 /\ W[Len(q)] = t
        /\ \A n \in 1 .. Len(q) : W[n] = W[n - 1] + Weight(q[n])
        /\ \A m, n \in 0 .. Len(q) : m <= n => W[n] - W[m] >= n - m

\* What may still be posted without another change.
Owed ==
    (IF netif = "up" THEN 2 ELSE 0) + (IF leased THEN 1 ELSE 0)
    + (IF stopping # <<>> /\ connected THEN 1 ELSE 0)
    + 4 * (MaxFlaps - flaps)

Load == \E t \in Int : Weighs(events, t) /\ t + Owed <= 4 * MaxFlaps + 1

\* Before the first change nothing happens.
Still == flaps = 0 => events = <<>> /\ netif = "down" /\ ~leased /\ ~client

LEMMA WeightRange == \A e \in AllEvents : Weight(e) \in 1 .. 4
  BY DEF Weight

LEMMA EmptyWeighs == \A t \in Int : Weighs(<<>>, t) <=> t = 0
<1>1. Len(<<>>) = 0
  OBVIOUS
<1>2. ASSUME NEW t \in Int, Weighs(<<>>, t) PROVE t = 0
  BY <1>1, <1>2 DEF Weighs
<1>3. Weighs(<<>>, 0)
  <2> DEFINE W == [n \in 0 .. 0 |-> 0]
  <2>1. W \in [0 .. Len(<<>>) -> Int] /\ W[0] = 0 /\ W[Len(<<>>)] = 0
    BY <1>1
  <2>2. \A n \in 1 .. Len(<<>>) : W[n] = W[n - 1] + Weight(<<>>[n])
    BY <1>1
  <2>3. \A m, n \in 0 .. Len(<<>>) : m <= n => W[n] - W[m] >= n - m
    BY <1>1
  <2> HIDE DEF W
  <2> QED
    BY <2>1, <2>2, <2>3 DEF Weighs
<1> QED
  BY <1>2, <1>3

LEMMA LenWeighs ==
  ASSUME NEW q \in Seq(AllEvents), NEW t \in Int, Weighs(q, t)
  PROVE  Len(q) <= t
<1>1. Len(q) \in Nat
  BY LenProperties
<1>2. PICK W \in [0 .. Len(q) -> Int] :
        /\ W[0] = 0 /\ W[Len(q)] = t
        /\ \A m, n \in 0 .. Len(q) : m <= n => W[n] - W[m] >= n - m
  BY DEF Weighs
<1>3. W[Len(q)] - W[0] >= Len(q) - 0
  BY <1>1, <1>2
<1> QED
  BY <1>1, <1>2, <1>3

LEMMA AppendWeighs ==
  ASSUME NEW q \in Seq(AllEvents), NEW e \in AllEvents, NEW t \in Int, Weighs(q, t)
  PROVE  Weighs(Append(q, e), t + Weight(e))
<1> DEFINE l == Len(q)
           r == Append(q, e)
<1>1. /\ l \in Nat /\ Len(r) = l + 1
      /\ \A i \in 1 .. l : r[i] = q[i]
      /\ r[l + 1] = e
  BY AppendProperties, LenProperties
<1>2. PICK W \in [0 .. l -> Int] :
        /\ W[0] = 0 /\ W[l] = t
        /\ \A n \in 1 .. l : W[n] = W[n - 1] + Weight(q[n])
        /\ \A m, n \in 0 .. l : m <= n => W[n] - W[m] >= n - m
  BY DEF Weighs
<1>a. \A n \in 0 .. l : W[n] \in Int
  BY <1>2
<1>b. W[0] = 0 /\ W[l] = t
  BY <1>2
<1>c. \A n \in 1 .. l : W[n] = W[n - 1] + Weight(q[n])
  BY <1>2
<1>d. \A m, n \in 0 .. l : m <= n => W[n] - W[m] >= n - m
  BY <1>2
<1>3. Weight(e) \in 1 .. 4
  BY WeightRange
<1> DEFINE V == [n \in 0 .. l + 1 |-> IF n <= l THEN W[n] ELSE t + Weight(e)]
<1> HIDE DEF l, r
<1>4. V \in [0 .. l + 1 -> Int]
  BY <1>1, <1>3
<1>5. (\A n \in 0 .. l : V[n] = W[n]) /\ V[l + 1] = t + Weight(e)
  BY <1>1
<1> HIDE DEF V
<1>6. V[0] = 0
  <2>1. 0 \in 0 .. l
    BY <1>1
  <2> QED
    BY <1>b, <1>5, <2>1
<1>7. ASSUME NEW n \in 1 .. l + 1 PROVE V[n] = V[n - 1] + Weight(r[n])
  <2>1. CASE n \in 1 .. l
    <3>1. n \in 0 .. l /\ n - 1 \in 0 .. l
      BY <1>1, <2>1
    <3>2. V[n] = W[n] /\ V[n - 1] = W[n - 1] /\ r[n] = q[n]
      BY <1>1, <1>5, <2>1, <3>1
    <3> QED
      BY <1>c, <2>1, <3>2
  <2>2. CASE n = l + 1
    <3>1. n - 1 = l /\ l \in 0 .. l
      BY <1>1, <2>2
    <3> QED
      BY <1>1, <1>b, <1>5, <2>2, <3>1
  <2> QED
    BY <1>1, <2>1, <2>2
<1>8. ASSUME NEW m \in 0 .. l + 1, NEW n \in 0 .. l + 1, m <= n PROVE V[n] - V[m] >= n - m
  <2>1. CASE n \in 0 .. l
    <3>1. m \in 0 .. l
      BY <1>1, <1>8, <2>1
    <3>2. V[m] = W[m] /\ V[n] = W[n]
      BY <1>5, <2>1, <3>1
    <3> QED
      BY <1>d, <1>8, <2>1, <3>1, <3>2
  <2>2. CASE n = l + 1 /\ m \in 0 .. l
    <3>1. m <= l /\ l \in 0 .. l /\ V[m] = W[m] /\ V[n] = t + Weight(e)
      BY <1>1, <1>5, <2>2
    <3>2. W[l] - W[m] >= l - m
      BY <1>d, <2>2, <3>1
    <3>3. W[m] \in Int
      BY <1>a, <2>2
    <3> QED
      BY <1>1, <1>b, <1>3, <2>2, <3>1, <3>2, <3>3
  <2>3. CASE n = l + 1 /\ m = l + 1
    BY <1>3, <1>5, <2>3
  <2> QED
    BY <1>1, <2>1, <2>2, <2>3
<1>9. V \in [0 .. Len(r) -> Int] /\ V[Len(r)] = t + Weight(e)
  BY <1>1, <1>4, <1>5
<1>10. \A n \in 1 .. Len(r) : V[n] = V[n - 1] + Weight(r[n])
  BY <1>1, <1>7
<1>11. \A m, n \in 0 .. Len(r) : m <= n => V[n] - V[m] >= n - m
  BY <1>1, <1>8
<1>12. Weighs(r, t + Weight(e))
  BY <1>6, <1>9, <1>10, <1>11 DEF Weighs
<1> QED
  BY <1>12 DEF r

LEMMA TailWeighs ==
  ASSUME NEW q \in Seq(AllEvents), q # <<>>, NEW t \in Int, Weighs(q, t)
  PROVE  Weighs(Tail(q), t - Weight(Head(q)))
<1> DEFINE l == Len(q)
           r == Tail(q)
           h == Weight(Head(q))
<1>1. /\ l \in Nat \ {0} /\ Len(r) = l - 1 /\ Head(q) = q[1]
      /\ \A i \in 1 .. l - 1 : r[i] = q[i + 1]
      /\ h \in 1 .. 4
  BY QueueTail, WeightRange
<1>2. PICK W \in [0 .. l -> Int] :
        /\ W[0] = 0 /\ W[l] = t
        /\ \A n \in 1 .. l : W[n] = W[n - 1] + Weight(q[n])
        /\ \A m, n \in 0 .. l : m <= n => W[n] - W[m] >= n - m
  BY DEF Weighs
<1>a. \A n \in 0 .. l : W[n] \in Int
  BY <1>2
<1>b. W[0] = 0 /\ W[l] = t
  BY <1>2
<1>c. \A n \in 1 .. l : W[n] = W[n - 1] + Weight(q[n])
  BY <1>2
<1>d. \A m, n \in 0 .. l : m <= n => W[n] - W[m] >= n - m
  BY <1>2
<1>3. W[1] = h
  <2>1. 1 \in 1 .. l /\ W[1] = W[1 - 1] + Weight(q[1])
    BY <1>1, <1>c
  <2> QED
    BY <1>1, <1>2, <2>1
<1> DEFINE V == [n \in 0 .. l - 1 |-> W[n + 1] - h]
<1> HIDE DEF l, r, h
<1>4. \A n \in 0 .. l - 1 : W[n + 1] \in Int
  BY <1>1, <1>2
<1>5. V \in [0 .. l - 1 -> Int] /\ \A n \in 0 .. l - 1 : V[n] = W[n + 1] - h
  BY <1>1, <1>4
<1> HIDE DEF V
<1>6. V[0] = 0 /\ V[l - 1] = t - h
  <2>1. 0 \in 0 .. l - 1 /\ l - 1 \in 0 .. l - 1 /\ 0 + 1 = 1 /\ (l - 1) + 1 = l /\ h - h = 0
    BY <1>1
  <2> QED
    BY <1>b, <1>3, <1>5, <2>1
<1>7. ASSUME NEW n \in 1 .. l - 1 PROVE V[n] = V[n - 1] + Weight(r[n])
  <2>1. n + 1 \in 1 .. l /\ W[n + 1] = W[(n + 1) - 1] + Weight(q[n + 1])
    BY <1>1, <1>c
  <2>2. n - 1 \in 0 .. l - 1 /\ (n - 1) + 1 = n /\ (n + 1) - 1 = n
        /\ n \in 0 .. l - 1 /\ n \in 0 .. l /\ n + 1 \in 0 .. l
    BY <1>1
  <2>3. V[n - 1] = W[n] - h /\ V[n] = W[n + 1] - h /\ r[n] = q[n + 1]
    <3>1. V[n] = W[n + 1] - h
      BY <1>5, <2>2
    <3>2. V[n - 1] = W[(n - 1) + 1] - h
      BY <1>5, <2>2
    <3>3. r[n] = q[n + 1]
      BY <1>1
    <3> QED
      BY <2>2, <3>1, <3>2, <3>3
  <2>4. Weight(q[n + 1]) \in Int /\ W[n] \in Int
    BY <1>a, <2>2 DEF Weight
  <2> QED
    BY <1>1, <2>1, <2>2, <2>3, <2>4
<1>8. ASSUME NEW m \in 0 .. l - 1, NEW n \in 0 .. l - 1, m <= n PROVE V[n] - V[m] >= n - m
  <2>1. n + 1 \in 0 .. l /\ m + 1 \in 0 .. l /\ m + 1 <= n + 1
    BY <1>1, <1>8
  <2>2. W[n + 1] - W[m + 1] >= (n + 1) - (m + 1)
    BY <1>d, <2>1
  <2>3. W[n + 1] \in Int /\ W[m + 1] \in Int
    BY <1>a, <2>1
  <2>4. V[n] = W[n + 1] - h /\ V[m] = W[m + 1] - h
    BY <1>5, <1>8
  <2> QED
    BY <1>1, <1>8, <2>2, <2>3, <2>4
<1>9. V \in [0 .. Len(r) -> Int] /\ V[Len(r)] = t - h
  BY <1>1, <1>5, <1>6
<1>10. \A n \in 1 .. Len(r) : V[n] = V[n - 1] + Weight(r[n])
  BY <1>1, <1>7
<1>11. \A m, n \in 0 .. Len(r) : m <= n => V[n] - V[m] >= n - m
  BY <1>1, <1>8
<1>12. Weighs(r, t - h)
  BY <1>6, <1>9, <1>10, <1>11 DEF Weighs
<1> QED
  BY <1>12 DEF r, h

\* An event of weight w behind the others; what is dispatched loses its own.
LEMMA AppendedWeighs ==
  ASSUME IInv, Room, NEW e \in AllEvents, events' = Posted(events, <<e>>),
         NEW t \in Int, Weighs(events, t)
  PROVE  Weighs(events', t + Weight(e))
<1>1. events \in Seq(AllEvents) /\ Len(events) \in Nat
  BY LenProperties DEF IInv, Queued
<1>2. Len(events) + 1 <= QueueLen
  BY <1>1, UplinkAssumption DEF Room
<1>3. events' = Append(events, e)
  BY <1>1, <1>2, PostOne
<1>4. Weighs(Append(events, e), t + Weight(e))
  BY <1>1, AppendWeighs
<1> QED
  BY <1>3, <1>4

LEMMA TakenWeighs ==
  ASSUME IInv, events # <<>>, NEW t \in Int, Weighs(events, t)
  PROVE  /\ Weight(Head(events)) \in 1 .. 4 /\ Tail(events) \in Seq(AllEvents)
         /\ Weighs(Tail(events), t - Weight(Head(events)))
<1>1. events \in Seq(AllEvents) /\ Head(events) \in AllEvents
  BY Taken DEF IInv, Queued
<1> QED
  BY <1>1, Taken, TailWeighs, WeightRange

\* The changes, and what they owe.
LEMMA OwedRange == ASSUME IInv PROVE flaps \in 0 .. MaxFlaps /\ Owed \in Nat /\ MaxFlaps \in Nat
  BY UplinkAssumption DEF IInv, Places, Owed

LEMMA LoadRoom == ASSUME Roomy, IInv, Load PROVE Room
<1>1. events \in Seq(AllEvents) /\ Len(events) \in Nat
  BY LenProperties DEF IInv, Queued
<1>2. PICK t \in Int : Weighs(events, t) /\ t + Owed <= 4 * MaxFlaps + 1
  BY DEF Load
<1>3. Len(events) <= t
  BY <1>1, <1>2, LenWeighs
<1> QED
  BY <1>1, <1>2, <1>3, OwedRange, UplinkAssumption DEF Room, Roomy

LEMMA Sums ==
  /\ \A t, o, p, m \in Int : t + o <= m /\ p <= o => t + p <= m
  /\ \A t, o, p, m, u, w \in Int : t + o <= m /\ u + p <= w + o => ((t - w) + u) + p <= m
  OBVIOUS

\* A step that posts nothing and owes no more.
LEMMA LoadKept ==
  ASSUME Load, UNCHANGED events, Owed \in Int, Owed' \in Int, Owed' <= Owed
  PROVE  Load'
<1>1. PICK t \in Int : Weighs(events, t) /\ t + Owed <= 4 * MaxFlaps + 1
  BY DEF Load
<1>2. Weighs(events', t)
  BY <1>1
<1>3. 4 * MaxFlaps + 1 \in Int
  BY UplinkAssumption
<1>4. t + Owed' <= 4 * MaxFlaps + 1
  BY <1>1, <1>3, Sums
<1> QED
  BY <1>2, <1>4 DEF Load

\* A step that posts an event for which it owes that much less.
LEMMA LoadPosts ==
  ASSUME IInv, Room, Load, NEW e \in AllEvents, events' = Posted(events, <<e>>),
         Owed \in Int, Owed' \in Int, Owed' + Weight(e) <= Owed
  PROVE  Load'
<1>1. PICK t \in Int : Weighs(events, t) /\ t + Owed <= 4 * MaxFlaps + 1
  BY DEF Load
<1>2. Weighs(events', t + Weight(e)) /\ Weight(e) \in 1 .. 4
  BY <1>1, AppendedWeighs, WeightRange
<1>3. t + Weight(e) \in Int /\ (t + Weight(e)) + Owed' <= 4 * MaxFlaps + 1
  BY <1>1, <1>2, UplinkAssumption
<1> QED
  BY <1>2, <1>3 DEF Load

\* With an empty queue, after the first change, there is room for one more.
LEMMA LoadStarts ==
  ASSUME IInv, Room, events = <<>>, flaps > 0, NEW e \in AllEvents, Weight(e) = 1,
         events' = Posted(events, <<e>>), Owed' \in Int, Owed' <= 3 + 4 * (MaxFlaps - flaps)
  PROVE  Load'
<1>1. Weighs(events, 0)
  BY EmptyWeighs
<1>2. Weighs(events', 0 + 1)
  BY <1>1, AppendedWeighs
<1>3. 1 \in Int /\ 1 + Owed' <= 4 * MaxFlaps + 1
  BY OwedRange
<1>4. Weighs(events', 1)
  BY <1>2
<1> QED
  BY <1>3, <1>4 DEF Load

\* What an event becomes weighs no more than the event.
LEMMA LoadTurns ==
  ASSUME IInv, Load, events # <<>>, Owed \in Int, Owed' \in Int,
         \A t \in Int : Weighs(Tail(events), t) => \E u \in Int : Weighs(events', t + u)
                                                     /\ u + Owed' <= Weight(Head(events)) + Owed
  PROVE  Load'
<1>1. PICK t \in Int : Weighs(events, t) /\ t + Owed <= 4 * MaxFlaps + 1
  BY DEF Load
<1>2. Weight(Head(events)) \in 1 .. 4 /\ Weighs(Tail(events), t - Weight(Head(events)))
  BY <1>1, TakenWeighs
<1>3. t - Weight(Head(events)) \in Int
  BY <1>1, <1>2
<1>4. PICK u \in Int : /\ Weighs(events', (t - Weight(Head(events))) + u)
                       /\ u + Owed' <= Weight(Head(events)) + Owed
  BY <1>2, <1>3
<1>5. (t - Weight(Head(events))) + u \in Int
  BY <1>2, <1>3
<1>6. ((t - Weight(Head(events))) + u) + Owed' <= 4 * MaxFlaps + 1
  <2>1. 4 * MaxFlaps + 1 \in Int /\ Weight(Head(events)) \in Int
    BY <1>2, UplinkAssumption
  <2> QED
    BY <1>1, <1>4, <2>1, Sums
<1> QED
  BY <1>4, <1>5, <1>6 DEF Load

\* The steps.
LEMMA LinkUpLoad == ASSUME IInv, Room, Load, ~link, LinkChange PROVE Load'
<1> USE DEF network, mqtt
<1>1. Flags /\ Places /\ Stages /\ Owed \in Int
  BY OwedRange DEF IInv
<1>2. Owed' \in Int /\ Owed' + Weight("eth_connected") <= Owed
  BY <1>1, UplinkAssumption DEF LinkChange, Owed, Weight, Flags, Places, Flap
<1>3. events' = Posted(events, <<"eth_connected">>)
  BY DEF LinkChange, DriverPosts
<1>4. "eth_connected" \in AllEvents
  BY DEF AllEvents
<1> QED
  BY <1>1, <1>2, <1>3, <1>4, LoadPosts

LEMMA LinkDownLoad == ASSUME IInv, Room, Load, link, LinkChange PROVE Load'
<1> USE DEF network, mqtt
<1>1. Flags /\ Places /\ Stages /\ Owed \in Int
  BY OwedRange DEF IInv
<1>2. Owed' \in Int /\ Owed' + Weight("eth_disconnected") <= Owed
  BY <1>1, UplinkAssumption DEF LinkChange, Owed, Weight, Flags, Places, Flap
<1>3. events' = Posted(events, <<"eth_disconnected">>)
  BY DEF LinkChange, DriverPosts
<1>4. "eth_disconnected" \in AllEvents
  BY DEF AllEvents
<1> QED
  BY <1>1, <1>2, <1>3, <1>4, LoadPosts

LEMMA BindLoad == ASSUME IInv, Room, Load, Bind PROVE Load'
<1> USE DEF network, mqtt
<1>1. Flags /\ Places /\ Stages /\ Owed \in Int
  BY OwedRange DEF IInv
<1>2. Owed' \in Int /\ Owed' + Weight("eth_got_ip") <= Owed
  BY <1>1, UplinkAssumption DEF Bind, Owed, Weight, Flags, Places
<1>3. events' = Posted(events, <<"eth_got_ip">>)
  BY DEF Bind, DriverPosts
<1>4. "eth_got_ip" \in AllEvents
  BY DEF AllEvents
<1> QED
  BY <1>1, <1>2, <1>3, <1>4, LoadPosts

LEMMA LapseLoad == ASSUME IInv, Room, Load, Lapse PROVE Load'
<1> USE DEF network, mqtt
<1>1. Flags /\ Places /\ Stages /\ Owed \in Int
  BY OwedRange DEF IInv
<1>2. Owed' \in Int /\ Owed' <= Owed
  BY <1>1, UplinkAssumption DEF Lapse, Owed, Flags, Places, Flap
<1>3. UNCHANGED events
  BY DEF Lapse
<1> QED
  BY <1>1, <1>2, <1>3, LoadKept

LEMMA ReportLossLoad == ASSUME IInv, Room, Load, ReportLoss PROVE Load'
<1> USE DEF network, mqtt
<1>1. Flags /\ Places /\ Stages /\ Owed \in Int
  BY OwedRange DEF IInv
<1>2. Owed' \in Int /\ Owed' + Weight("eth_lost_ip") <= Owed
  BY <1>1, UplinkAssumption DEF ReportLoss, Owed, Weight, Flags, Places
<1>3. events' = Posted(events, <<"eth_lost_ip">>)
  BY DEF ReportLoss, DriverPosts
<1>4. "eth_lost_ip" \in AllEvents
  BY DEF AllEvents
<1> QED
  BY <1>1, <1>2, <1>3, <1>4, LoadPosts

LEMMA StationGotIpLoad == ASSUME IInv, Room, Load, StationGotIp PROVE Load'
<1> USE DEF network, mqtt
<1>1. Flags /\ Places /\ Stages /\ Owed \in Int
  BY OwedRange DEF IInv
<1>2. Owed' \in Int /\ Owed' + Weight("sta_got_ip") <= Owed
  BY <1>1, UplinkAssumption DEF StationGotIp, Owed, Weight, Flags, Places, Flap
<1>3. events' = Posted(events, <<"sta_got_ip">>)
  BY DEF StationGotIp, DriverPosts
<1>4. "sta_got_ip" \in AllEvents
  BY DEF AllEvents
<1> QED
  BY <1>1, <1>2, <1>3, <1>4, LoadPosts

LEMMA StopTimerLoad == ASSUME IInv, Room, Load, StopTimer PROVE Load'
<1> USE DEF network, mqtt
<1>1. Flags /\ Places /\ Stages /\ Owed \in Int
  BY OwedRange DEF IInv
<1>2. Owed' \in Int /\ Owed' <= Owed
  BY <1>1, UplinkAssumption, StopSteps, Bodies DEF StopTimer, Owed, Flags, Places
<1>3. UNCHANGED events
  BY DEF StopTimer
<1> QED
  BY <1>1, <1>2, <1>3, LoadKept

LEMMA StopClientLoad == ASSUME IInv, Room, Load, StopClient PROVE Load'
<1> USE DEF network, mqtt
<1>1. Flags /\ Places /\ Stages /\ Owed \in Int
  BY OwedRange DEF IInv
<1>2. Owed' \in Int /\ Owed' <= Owed
  BY <1>1, UplinkAssumption, StopSteps, Bodies DEF StopClient, Owed, Flags, Places
<1>3. UNCHANGED events
  BY DEF StopClient
<1> QED
  BY <1>1, <1>2, <1>3, LoadKept

LEMMA ForgetLoad == ASSUME IInv, Room, Load, Forget PROVE Load'
<1> USE DEF network, mqtt
<1>1. Flags /\ Places /\ Stages /\ Owed \in Int
  BY OwedRange DEF IInv
<1>2. Owed' \in Int /\ Owed' <= Owed
  BY <1>1, UplinkAssumption, StopSteps, Bodies DEF Forget, Owed, Flags, Places
<1>3. UNCHANGED events
  BY DEF Forget
<1> QED
  BY <1>1, <1>2, <1>3, LoadKept

LEMMA AwaitTaskLoad == ASSUME IInv, Room, Load, AwaitTask PROVE Load'
<1>1. Flags /\ Places /\ Stages /\ Owed \in Int
  BY OwedRange DEF IInv
<1>2. stopping # <<>>
  BY DEF AwaitTask, StopStep
<1>3. CASE connected
  <2>1. Owed' \in Int /\ Owed' + Weight("MQTT_DISCONNECTED") <= Owed
    BY <1>1, <1>2, <1>3, UplinkAssumption DEF AwaitTask, Owed, Weight, Flags, Places, network
  <2>2. events' = Posted(events, <<"MQTT_DISCONNECTED">>) /\ "MQTT_DISCONNECTED" \in AllEvents
    BY <1>3 DEF AwaitTask, AllEvents
  <2> QED
    BY <1>1, <2>1, <2>2, LoadPosts
<1>4. CASE ~connected
  <2>1. Owed' \in Int /\ Owed' <= Owed
    BY <1>1, <1>4, UplinkAssumption DEF AwaitTask, Owed, Flags, Places, network
  <2> QED
    BY <1>1, <1>4, <2>1, LoadKept DEF AwaitTask
<1> QED
  BY <1>3, <1>4

\* The MQTT task posts when the loop is idle, or what mqtt_stop owed.
LEMMA GreetLoad == ASSUME IInv, Room, Load, Still, LoopYields, Greet PROVE Load'
<1>1. Flags /\ Places /\ Stages /\ Owed \in Int
  BY OwedRange DEF IInv
<1>2. events = <<>> /\ stopping = <<>> /\ client /\ flaps > 0
  BY <1>1, Yields, BodiesDiffer, UplinkAssumption DEF Greet, Stages, Locked, Still, Places
<1>3. Owed' \in Int /\ Owed' <= 3 + 4 * (MaxFlaps - flaps) /\ Owed' <= Owed
  BY <1>1, <1>2, UplinkAssumption DEF Greet, Owed, Flags, Places, network
<1>4. CASE ~connected
  <2>1. events' = Posted(events, <<"MQTT_CONNECTED">>)
    BY <1>4 DEF Greet, SetConnected
  <2>2. "MQTT_CONNECTED" \in AllEvents /\ Weight("MQTT_CONNECTED") = 1
    BY DEF AllEvents, Weight
  <2> QED
    BY <1>2, <1>3, <2>1, <2>2, LoadStarts
<1>5. CASE connected
  <2>1. UNCHANGED events
    BY <1>5 DEF Greet, SetConnected
  <2> QED
    BY <1>1, <1>3, <2>1, LoadKept
<1> QED
  BY <1>4, <1>5

LEMMA ConnectionLostLoad == ASSUME IInv, Room, Load, Still, LoopYields, ConnectionLost PROVE Load'
<1>1. Flags /\ Places /\ Stages /\ Owed \in Int
  BY OwedRange DEF IInv
<1>2. client /\ flaps > 0 /\ (stopping = <<>> => events = <<>>)
  BY <1>1, Yields, Bodies, UplinkAssumption DEF ConnectionLost, Stages, Still, Places
<1>3. CASE ~connected
  <2>1. UNCHANGED <<events, network, stopping, connected>>
    BY <1>1, <1>3 DEF ConnectionLost, SetConnected, Flags
  <2>2. Owed' = Owed
    BY <2>1 DEF Owed, network
  <2> QED
    BY <1>1, <2>1, <2>2, LoadKept
<1>4. CASE connected
  <2>1. /\ events' = Posted(events, <<"MQTT_DISCONNECTED">>) /\ connected' = FALSE
        /\ UNCHANGED <<network, stopping>>
    BY <1>4 DEF ConnectionLost, SetConnected
  <2>2. "MQTT_DISCONNECTED" \in AllEvents /\ Weight("MQTT_DISCONNECTED") = 1
    BY DEF AllEvents, Weight
  <2>3. CASE stopping = <<>>
    <3>1. Owed' \in Int /\ Owed' <= 3 + 4 * (MaxFlaps - flaps)
      BY <1>1, <2>1, UplinkAssumption DEF Owed, Flags, Places, network
    <3> QED
      BY <1>2, <2>1, <2>2, <2>3, <3>1, LoadStarts
  <2>4. CASE stopping # <<>>
    <3>1. Owed' \in Int /\ Owed' + Weight("MQTT_DISCONNECTED") <= Owed
      BY <1>1, <1>4, <2>1, <2>2, <2>4, UplinkAssumption DEF Owed, Flags, Places, network
    <3> QED
      BY <1>1, <2>1, <2>2, <3>1, LoadPosts
  <2> QED
    BY <2>3, <2>4
<1> QED
  BY <1>3, <1>4

\* The dispatch of an event.
LEMMA DispatchOwes ==
  ASSUME IInv, Dispatch
  PROVE  /\ events # <<>> /\ Owed \in Int /\ Owed' \in Int
         /\ Head(events) = "eth_connected" => Owed' <= Owed + (IF staticIp THEN 1 ELSE 3)
         /\ Head(events) = "LOST_IP" => Owed' <= Owed + 1
         /\ Head(events) \notin {"eth_connected", "LOST_IP"} => Owed' <= Owed
<1>1. Flags /\ Places /\ Stages
  BY DEF IInv
<1>2. events # <<>> /\ stopping = <<>> /\ UNCHANGED <<flaps, connected>>
  BY DEF Dispatch
<1>3. /\ Head(events) = "LOST_IP" \/ stopping' = <<>>
  BY MqttDoes
<1> QED
  BY <1>1, <1>2, <1>3, NetifDoes, UplinkAssumption DEF Owed, Flags, Places

\* Every event becomes at most three.
LEMMA BecomesFew ==
  ASSUME NEW e \in AllEvents
  PROVE  \/ NetifPosts(e) \o Posts(e) = <<>>
         \/ /\ e # "LOST_IP" /\ (e = "eth_connected" => ~staticIp)
            /\ \E a \in AllEvents : NetifPosts(e) \o Posts(e) = <<a>> /\ Weight(a) = 1
         \/ /\ e = "eth_disconnected"
            /\ NetifPosts(e) \o Posts(e) = <<"LOST_IP", "DISCONNECTED">>
         \/ /\ e = "eth_connected" /\ staticIp
            /\ NetifPosts(e) \o Posts(e) = <<"eth_got_ip", "netif_up">> \o <<"CONNECTED">>
<1>1. CASE e = "eth_connected" /\ staticIp
  BY <1>1, Becomes DEF NetifPosts
<1>2. CASE ~(e = "eth_connected" /\ staticIp)
  <2>1. NetifPosts(e) = <<>>
    BY <1>2 DEF NetifPosts
  <2>2. \/ Posts(e) = <<>>
        \/ e # "LOST_IP" /\ Posts(e) \in {<<"CONNECTED">>, <<"GOT_IP">>, <<"LOST_IP">>}
        \/ e = "eth_disconnected" /\ Posts(e) = <<"LOST_IP", "DISCONNECTED">>
    BY Becomes
  <2>3. /\ <<>> \o <<>> = <<>> /\ <<>> \o <<"CONNECTED">> = <<"CONNECTED">>
        /\ <<>> \o <<"GOT_IP">> = <<"GOT_IP">> /\ <<>> \o <<"LOST_IP">> = <<"LOST_IP">>
        /\ <<>> \o <<"LOST_IP", "DISCONNECTED">> = <<"LOST_IP", "DISCONNECTED">>
    OBVIOUS
  <2>4. \A a \in {"CONNECTED", "GOT_IP", "LOST_IP"} : a \in AllEvents /\ Weight(a) = 1
    BY DEF AllEvents, Weight
  <2>5. CASE Posts(e) = <<>>
    BY <2>1, <2>3, <2>5, Zenon
  <2>6. CASE e # "LOST_IP" /\ Posts(e) \in {<<"CONNECTED">>, <<"GOT_IP">>, <<"LOST_IP">>}
    <3>1. PICK a \in {"CONNECTED", "GOT_IP", "LOST_IP"} : Posts(e) = <<a>>
      BY <2>6
    <3>2. NetifPosts(e) \o Posts(e) = <<a>>
      BY <2>1, <2>3, <3>1
    <3> QED
      BY <1>2, <2>4, <2>6, <3>1, <3>2
  <2>7. CASE e = "eth_disconnected" /\ Posts(e) = <<"LOST_IP", "DISCONNECTED">>
    BY <2>1, <2>3, <2>7, Zenon
  <2> QED
    BY <2>2, <2>5, <2>6, <2>7
<1> QED
  BY <1>1, <1>2

LEMMA DispatchLoad == ASSUME IInv, Room, Load, Dispatch PROVE Load'
<1>1. /\ events # <<>> /\ Owed \in Int /\ Owed' \in Int
      /\ Head(events) = "eth_connected" => Owed' <= Owed + (IF staticIp THEN 1 ELSE 3)
      /\ Head(events) = "LOST_IP" => Owed' <= Owed + 1
      /\ Head(events) \notin {"eth_connected", "LOST_IP"} => Owed' <= Owed
  BY DispatchOwes
<1>2. Head(events) \in AllEvents /\ Tail(events) \in Seq(AllEvents)
  BY <1>1, Taken
<1>3. /\ Head(events) = "eth_connected" => Weight(Head(events)) = 4
      /\ Head(events) = "eth_disconnected" => Weight(Head(events)) = 2
      /\ Weight(Head(events)) >= 1 /\ Weight(Head(events)) \in Int
  BY DEF Weight
<1>4. SUFFICES ASSUME NEW t \in Int, Weighs(Tail(events), t)
               PROVE  \E u \in Int : Weighs(events', t + u) /\ u + Owed' <= Weight(Head(events)) + Owed
  BY <1>1, LoadTurns
<1>5. CASE Becoming = <<>>
  <2>1. events' = Tail(events)
    BY <1>5, QueueNone
  <2>2. t + 0 = t
    OBVIOUS
  <2>3. Weighs(events', t + 0)
    BY <1>4, <2>1, <2>2
  <2>4. 0 + Owed' <= Weight(Head(events)) + Owed
    BY <1>1, <1>3
  <2> QED
    BY <2>3, <2>4
<1>6. CASE /\ Head(events) # "LOST_IP" /\ (Head(events) = "eth_connected" => ~staticIp)
           /\ \E a \in AllEvents : Becoming = <<a>> /\ Weight(a) = 1
  <2>1. PICK a \in AllEvents : Becoming = <<a>> /\ Weight(a) = 1
    BY <1>6
  <2>2. events' = Append(Tail(events), a)
    BY <2>1, QueueOne
  <2>3. Weighs(Append(Tail(events), a), t + 1)
    BY <1>2, <1>4, <2>1, AppendWeighs
  <2>4. Weighs(events', t + 1)
    BY <2>2, <2>3
  <2>5. 1 + Owed' <= Weight(Head(events)) + Owed
    BY <1>1, <1>3, <1>6
  <2> QED
    BY <2>4, <2>5
<1>7. CASE Head(events) = "eth_disconnected" /\ Becoming = <<"LOST_IP", "DISCONNECTED">>
  <2> DEFINE q1 == Append(Tail(events), "LOST_IP")
             q2 == Append(q1, "DISCONNECTED")
  <2>1. "LOST_IP" \in AllEvents /\ "DISCONNECTED" \in AllEvents
    BY DEF AllEvents
  <2>2. events' = q2
    BY <1>7, <2>1, QueueTwo
  <2>3. Weight("LOST_IP") = 1 /\ Weight("DISCONNECTED") = 1
    BY DEF Weight
  <2>4. q1 \in Seq(AllEvents)
    BY <1>2, <2>1, AppendProperties
  <2>5. Weighs(q1, t + 1)
    BY <1>2, <1>4, <2>1, <2>3, AppendWeighs
  <2> HIDE DEF q1
  <2>6. Weighs(q2, (t + 1) + 1)
    BY <2>1, <2>3, <2>4, <2>5, AppendWeighs
  <2> HIDE DEF q2
  <2>7. (t + 1) + 1 = t + 2
    OBVIOUS
  <2>8. Weighs(events', t + 2)
    BY <2>2, <2>6, <2>7
  <2>9. 2 + Owed' <= Weight(Head(events)) + Owed
    BY <1>1, <1>3, <1>7
  <2> QED
    BY <2>8, <2>9
<1>8. CASE /\ Head(events) = "eth_connected" /\ staticIp
           /\ Becoming = <<"eth_got_ip", "netif_up">> \o <<"CONNECTED">>
  <2> DEFINE q1 == Append(Tail(events), "eth_got_ip")
             q2 == Append(q1, "netif_up")
             q3 == Append(q2, "CONNECTED")
  <2>1. "eth_got_ip" \in AllEvents /\ "netif_up" \in AllEvents /\ "CONNECTED" \in AllEvents
    BY DEF AllEvents
  <2>2. events' = q3
    BY <1>8, <2>1, QueueThree
  <2>3. Weight("eth_got_ip") = 1 /\ Weight("netif_up") = 1 /\ Weight("CONNECTED") = 1
    BY DEF Weight
  <2>4. q1 \in Seq(AllEvents) /\ q2 \in Seq(AllEvents)
    BY <1>2, <2>1, AppendProperties
  <2>5. Weighs(q1, t + 1)
    BY <1>2, <1>4, <2>1, <2>3, AppendWeighs
  <2> HIDE DEF q1
  <2>6. Weighs(q2, (t + 1) + 1)
    BY <2>1, <2>3, <2>4, <2>5, AppendWeighs
  <2> HIDE DEF q2
  <2>7. Weighs(q3, ((t + 1) + 1) + 1)
    BY <2>1, <2>3, <2>4, <2>6, AppendWeighs
  <2> HIDE DEF q3
  <2>8. ((t + 1) + 1) + 1 = t + 3
    OBVIOUS
  <2>9. Weighs(events', t + 3)
    BY <2>2, <2>7, <2>8
  <2>10. 3 + Owed' <= Weight(Head(events)) + Owed
    BY <1>1, <1>3, <1>8
  <2> QED
    BY <2>9, <2>10
<1> QED
  BY <1>2, <1>5, <1>6, <1>7, <1>8, BecomesFew DEF Becoming

\* A step that has no part in it.
Elsewhere == UNCHANGED <<events, netif, leased, flaps, connected, client, stopping>>

LEMMA ElsewhereLoad == ASSUME IInv, Load, Still, Elsewhere PROVE Load' /\ Still'
<1>1. Owed' = Owed /\ Owed \in Int
  BY OwedRange DEF Elsewhere, Owed
<1>2. UNCHANGED events
  BY DEF Elsewhere
<1>3. Load'
  BY <1>1, <1>2, LoadKept
<1> QED
  BY <1>3 DEF Still, Elsewhere

LEMMA LoadSteps ==
  ASSUME [Next]_vars, ~Flood
  PROVE  \/ LinkChange \/ Bind \/ Lapse \/ ReportLoss \/ StationGotIp \/ Dispatch
         \/ StopTimer \/ StopClient \/ AwaitTask \/ Forget
         \/ (LoopYields /\ Greet) \/ (LoopYields /\ ConnectionLost)
         \/ Elsewhere
<1>1. Greeted \/ TaskEnds \/ CommandStop \/ CommandStopped \/ CommandStart => Elsewhere
  BY DEF Greeted, TaskEnds, CommandStop, CommandStopped, CommandStart, Elsewhere, network, mqtt
<1>2. SnifferTest \/ SnifferReceive \/ SnifferPublish \/ SnifferPost => Elsewhere
  BY DEF SnifferTest, SnifferReceive, SnifferPublish, SnifferPost, Elsewhere, network, mqtt
<1>3. UNCHANGED vars => Elsewhere
  BY DEF Elsewhere, vars, network, mqtt
<1> QED
  BY <1>1, <1>2, <1>3, Steps

\* Nothing happens before the first change.
LEMMA StillStep ==
  ASSUME IInv, Still, [Next]_vars, ~Flood
  PROVE  Still'
<1>1. CASE flaps' # 0
  BY <1>1 DEF Still
<1>2. CASE flaps' = 0
  <2>1. flaps = 0
    <3>1. flaps \in Nat
      BY DEF IInv, Places
    <3>2. LinkChange \/ Lapse \/ StationGotIp => flaps' = flaps + 1
      BY DEF LinkChange, Lapse, StationGotIp, Flap
    <3>3. Bind \/ ReportLoss \/ Dispatch \/ StopTimer \/ StopClient \/ AwaitTask \/ Forget => flaps' = flaps
      BY DEF Bind, ReportLoss, Dispatch, StopTimer, StopClient, AwaitTask, Forget, network
    <3>4. Greet \/ ConnectionLost \/ Elsewhere => flaps' = flaps
      BY DEF Greet, ConnectionLost, Elsewhere, network
    <3> QED
      BY <1>2, <3>1, <3>2, <3>3, <3>4, LoadSteps
  <2>2. events = <<>> /\ netif = "down" /\ ~leased /\ ~client
    BY <2>1 DEF Still
  <2>3. stopping = <<>> /\ task = "none"
    BY <2>2, UplinkAssumption DEF IInv, Stages, Places
  <2>4. ~LinkChange /\ ~Lapse /\ ~StationGotIp
    BY <1>2, <2>1 DEF LinkChange, Lapse, StationGotIp, Flap
  <2>5. ~Bind /\ ~ReportLoss /\ ~Dispatch /\ ~Greet /\ ~ConnectionLost
    BY <2>2, <2>3 DEF Bind, ReportLoss, Dispatch, Greet, ConnectionLost
  <2>6. ~StopTimer /\ ~StopClient /\ ~AwaitTask /\ ~Forget
    BY <2>3 DEF StopTimer, StopClient, AwaitTask, Forget, StopStep
  <2>7. Elsewhere
    BY <2>4, <2>5, <2>6, LoadSteps
  <2> QED
    BY <2>2, <2>7 DEF Still, Elsewhere
<1> QED
  BY <1>1, <1>2

\* Every step leaves the queue light enough.
LEMMA LoadStep == ASSUME Roomy, IInv, Load, Still, [Next]_vars PROVE Load' /\ Still'
<1>1. Room /\ ~Flood
  BY LoadRoom DEF Roomy
<1>2. Still'
  BY <1>1, StillStep
<1>3. CASE LinkChange
  BY <1>1, <1>2, <1>3, LinkUpLoad, LinkDownLoad
<1>4. CASE Bind \/ Lapse \/ ReportLoss \/ StationGotIp
  BY <1>1, <1>2, <1>4, BindLoad, LapseLoad, ReportLossLoad, StationGotIpLoad
<1>5. CASE Dispatch
  BY <1>1, <1>2, <1>5, DispatchLoad
<1>6. CASE StopTimer \/ StopClient \/ AwaitTask \/ Forget
  BY <1>1, <1>2, <1>6, StopTimerLoad, StopClientLoad, AwaitTaskLoad, ForgetLoad
<1>7. CASE LoopYields /\ Greet
  BY <1>1, <1>2, <1>7, GreetLoad
<1>8. CASE LoopYields /\ ConnectionLost
  BY <1>1, <1>2, <1>8, ConnectionLostLoad
<1>9. CASE Elsewhere
  BY <1>9, ElsewhereLoad
<1> QED
  BY <1>1, <1>3, <1>4, <1>5, <1>6, <1>7, <1>8, <1>9, LoadSteps

LEMMA InitLoad == ASSUME Init PROVE Load /\ Still
<1>1. Weighs(events, 0)
  BY EmptyWeighs DEF Init
<1>2. Owed = 4 * MaxFlaps
  BY UplinkAssumption DEF Init, Owed
<1>3. 0 + Owed <= 4 * MaxFlaps + 1
  BY <1>2, UplinkAssumption
<1> QED
  BY <1>1, <1>3 DEF Load, Init, Still

\* A queue of four places per change, and three more, always has room if frames
\* do not flood it.
THEOREM QueueSuffices == ASSUME Roomy PROVE Spec => []Room
<1>1. Init => IInv /\ Load /\ Still
  BY InitIInv, InitLoad
<1>2. IInv /\ Load /\ Still /\ [Next]_vars => (IInv /\ Load /\ Still)'
  BY IInvStep, LoadStep
<1>3. IInv /\ Load => Room
  BY LoadRoom
<1> QED
  BY <1>1, <1>2, <1>3, PTL DEF Spec

\* Then client, connection, stats timer and LED agree, whatever flaps.
THEOREM Agreement == ASSUME Roomy PROVE Spec => []Inv
  BY QueueSuffices, Delivered, PTL

\* An address brings the client.
THEOREM AddressDelivered == ASSUME Roomy PROVE Spec => []AddressBringsClient
  BY QueueSuffices, Delivered, PTL

\* And a loss ends it.
THEOREM LossDelivered == ASSUME Roomy PROVE Spec => []LossEndsClient
  BY QueueSuffices, Delivered, PTL
=============================================================================
