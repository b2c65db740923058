----------------------------- MODULE BleStream -----------------------------
(***************************************************************************)
(* The BLE stream from the device to a phone: the sniffer task puts frames *)
(* into s_queue, writer_task takes them out and notifies them in chunks of *)
(* the MTU, and the NimBLE host changes s_conn_handle and s_notify_enabled *)
(* in between (bt_stream.c).  The phone feeds what it receives to a reader *)
(* (FrameReader.kt).                                                       *)
(***************************************************************************)
EXTENDS WireFormat

CONSTANTS QueueDepth,   \* FRAME_QUEUE_DEPTH
          Lengths,      \* payload lengths that occur
          MaxSize,      \* MAX_PAYLOAD of the sender, 2048
          Chunks,       \* lengths of a notification: mtu - 3, or 20
          MaxLinks,     \* bound: connections
          MaxCaptured   \* bound: frames that are published

ASSUME BleAssumption ==
    /\ QueueDepth \in Nat \ {0}
    /\ Lengths \subseteq Nat \ {0}
    /\ Magic[1] \notin Lengths /\ Magic[1] < 100  \* no data begins like a magic
    /\ Chunks \subseteq Nat
    /\ \A n \in Chunks : n > HeaderLen  \* 20 at the least, for a header of 14
    /\ {MaxSize, MaxLinks, MaxCaptured} \subseteq Nat
    /\ MaxSize <= MaxPayload  \* the reader takes whatever is sent

VARIABLES
    connected,  \* s_conn_handle # BLE_HS_CONN_HANDLE_NONE
    notify,     \* s_notify_enabled
    links,      \* how many connections there have been
    deaf,       \* the phone is out of reach, the host has not noticed yet
    captured,   \* the payload lengths of the frames that were captured
    s_queue,    \* numbers of frames
    rest,       \* what writer_task has not sent of its frame
    chunk,      \* chunk of writer_task
    unread,     \* the buffer of the phone's reader
    found,      \* the payloads the reader has found
    intact,     \* ghost: no part of writer_task's frame has been missed
    torn        \* ghost: frames of which the first part alone came through

link == <<connected, notify, links, deaf>>
writer == <<rest, chunk>>
ghosts == <<intact, torn>>
phone == <<unread, found>>
bleVars == <<link, captured, s_queue, writer, phone, ghosts>>

Body(k) == [i \in 1 .. captured[k] |-> 100 + k]

----------------------------------------------------------------------------

\* gap_event_cb: the phone's reader is the one of the last connection, which
\* nothing resets (MainActivity.kt), or a new one if the app has been restarted.
Connect ==
    /\ ~connected
    /\ links < MaxLinks
    /\ connected' = TRUE
    /\ notify' = FALSE
    /\ links' = links + 1
    /\ deaf' = FALSE
    /\ unread' \in {unread, <<>>}
    /\ UNCHANGED <<captured, s_queue, writer, found, ghosts>>

Subscribe ==
    /\ connected
    /\ notify' \in BOOLEAN
    /\ UNCHANGED <<connected, links, deaf, captured, s_queue, writer, phone, ghosts>>

\* The supervision timeout lies ahead: what is notified until then is lost.
LinkDies ==
    /\ connected
    /\ ~deaf
    /\ deaf' = TRUE
    /\ UNCHANGED <<connected, notify, links, captured, s_queue, writer, phone, ghosts>>

Disconnect ==
    /\ connected
    /\ connected' = FALSE
    /\ notify' = FALSE
    /\ UNCHANGED <<links, deaf, captured, s_queue, writer, phone, ghosts>>

\* Mutant: a full queue loses its oldest frame after the new one is in front.
PublishFrameFirst ==
    /\ Len(captured) < MaxCaptured
    /\ \E n \in Lengths : captured' = Append(captured, n)
    /\ LET k == Len(captured')
       IN  s_queue' = IF connected /\ notify /\ captured'[k] <= MaxSize
                      THEN SubSeq(<<k>> \o s_queue, 1, Min({Len(s_queue) + 1, QueueDepth}))
                      ELSE s_queue
    /\ UNCHANGED <<link, writer, phone, ghosts>>

\* bt_stream_publish_packet: a full queue loses the newest frame.
PublishFrame ==
    /\ Len(captured) < MaxCaptured
    /\ \E n \in Lengths : captured' = Append(captured, n)
    /\ LET k == Len(captured')
       IN  s_queue' = IF /\ connected /\ notify
                         /\ captured'[k] <= MaxSize
                         /\ Len(s_queue) < QueueDepth
                      THEN Append(s_queue, k) ELSE s_queue
    /\ UNCHANGED <<link, writer, phone, ghosts>>

\* writer_task takes a frame; without a subscriber it is freed.
Take ==
    /\ rest = <<>>
    /\ s_queue # <<>>
    /\ s_queue' = Tail(s_queue)
    /\ chunk' \in Chunks
    /\ rest' = IF connected /\ notify THEN Packet(Body(Head(s_queue))) ELSE <<>>
    /\ intact' = TRUE
    /\ UNCHANGED <<link, captured, phone, torn>>

\* Mutant: chunks of mtu bytes, of which NimBLE sends mtu - 1.
NotifyCutShort ==
    /\ rest # <<>>
    /\ connected /\ ~deaf
    /\ LET n == Min({chunk, Len(rest)})
           r == Feed(unread, SubSeq(rest, 1, n))
       IN  /\ unread' = r.buf
           /\ found' = found \o r.frames
           /\ rest' = Drop(rest, Min({chunk + 1, Len(rest)}))
    /\ UNCHANGED <<link, captured, s_queue, chunk, ghosts>>

\* The next chunk goes to whoever is connected now, subscribed or not.
Notify ==
    /\ rest # <<>>
    /\ connected /\ ~deaf
    /\ LET n == Min({chunk, Len(rest)})
           r == Feed(unread, SubSeq(rest, 1, n))
       IN  /\ unread' = r.buf
           /\ found' = found \o r.frames
           /\ rest' = Drop(rest, n)
    /\ UNCHANGED <<link, captured, s_queue, chunk, ghosts>>

\* A part of the frame is missed; if it is not the first one, the frame is torn.
Miss ==
    /\ intact' = FALSE
    /\ torn' = IF intact /\ rest[1] # Magic[1] THEN torn + 1 ELSE torn

\* The host takes the chunk, and it never gets to the phone.
NotifyLost ==
    /\ rest # <<>>
    /\ connected /\ deaf
    /\ rest' = Drop(rest, Min({chunk, Len(rest)}))
    /\ Miss
    /\ UNCHANGED <<link, captured, s_queue, chunk, phone>>

\* No buffer, or no connection: the loop breaks, the rest of the frame is gone.
NotifyBreaks ==
    /\ rest # <<>>
    /\ rest' = <<>>
    /\ Miss
    /\ UNCHANGED <<link, captured, s_queue, chunk, phone>>

BleInit ==
    /\ connected = FALSE
    /\ notify = FALSE
    /\ links = 0
    /\ deaf = FALSE
    /\ captured = <<>>
    /\ s_queue = <<>>
    /\ rest = <<>>
    /\ chunk \in Chunks
    /\ unread = <<>>
    /\ found = <<>>
    /\ intact = FALSE
    /\ torn = 0

BleNext ==
    \/ Connect \/ Subscribe \/ LinkDies \/ Disconnect
    \/ PublishFrame \/ Take \/ Notify \/ NotifyLost \/ NotifyBreaks

BleSpec == BleInit /\ [][BleNext]_bleVars

----------------------------------------------------------------------------
(* Properties *)

\* What the phone finds is a frame that was captured, or pieces of several.
Genuine == {h \in 1 .. Len(found) : \E k \in 1 .. Len(captured) : found[h] = Body(k)}
Forged == 1 .. Len(found) \ Genuine

\* The frames that the phone finds as they were captured are never repeated or
\* overtaken, across connections, whatever the host does between two chunks of
\* a frame (bt_stream.c:524-544).
Recognized == {k \in 1 .. Len(captured) : \E h \in 1 .. Len(found) : found[h] = Body(k)}
Air == INSTANCE LossyFifo WITH offered <- Len(captured),
                               last <- IF Recognized = {} THEN 0 ELSE Max(Recognized),
                               passed <- Cardinality(Genuine)
BleFifoSpec == Air!Spec

\* A frame that breaks off in the middle makes the app's reader take the beginning
\* of a later one for its end (bt_stream.c:530-541, FrameReader.kt): it costs one
\* forged frame at the most, and nothing else forges any.
ForgedByTearing == Cardinality(Forged) <= torn
=============================================================================
