----------------------------- MODULE UsbStream -----------------------------
(***************************************************************************)
(* The USB serial stream from the device to a receiver: the sniffer task   *)
(* writes a packet as two writes, header and payload, into the transmit    *)
(* ring buffer of the USB driver (usb_stream.c); dbg_printf and cfg_reply  *)
(* write lines of text into the same buffer from other tasks.  A write is  *)
(* all or nothing and gives up after a timeout.  The reader takes every    *)
(* byte as it comes (module FrameReader: the pieces make no difference).   *)
(***************************************************************************)
EXTENDS WireFormat

CONSTANTS Sizes,      \* payload lengths that occur
          Chatter,    \* text may come between the two writes of a packet
          Stalls,     \* the host may be so slow that writes time out
          MaxPackets  \* bound: packets that are published

\* What a line of text is in the stream; payloads consist of larger numbers.
Text == 99

ASSUME UsbAssumption ==
    /\ Sizes \subseteq Nat \ {0}
    /\ Magic[1] \notin Sizes /\ Magic[1] < Text  \* no data begins like a magic
    /\ {Chatter, Stalls} \subseteq BOOLEAN
    /\ MaxPackets \in Nat

VARIABLES
    packets,    \* the packets usb_stream_publish_packet was called with
    pending,    \* a packet whose header was written and whose payload was not
    held,       \* the reader's buffer
    heard,      \* the payloads the reader has found
    clean       \* packets written undisturbed since the last disturbance

usbVars == <<packets, pending, held, heard, clean>>

Payload(k) == [i \in 1 .. packets[k] |-> 100 + k]

\* The reader takes what was written.
Written(bytes) ==
    LET r == Feed(held, bytes) IN
    /\ held' = r.buf
    /\ heard' = heard \o r.frames

\* usb_serial_jtag_write_bytes: everything, or after the timeout nothing.  The
\* packet that was disturbed, like the ones before it, is not counted.
Write(bytes, undisturbed) ==
    \/ Written(bytes) /\ clean' = undisturbed
    \/ Stalls /\ UNCHANGED <<held, heard>> /\ clean' = IF pending' THEN -1 ELSE 0

\* Mutant: the header carries the length of the whole packet.
PublishTotal ==
    /\ ~pending
    /\ Len(packets) < MaxPackets
    /\ pending' = TRUE
    /\ \E n \in Sizes :
         /\ packets' = Append(packets, n)
         /\ Write(Header(HeaderLen + n), clean)

\* usb_stream_publish_packet, the header.
PublishHeader ==
    /\ ~pending
    /\ Len(packets) < MaxPackets
    /\ pending' = TRUE
    /\ \E n \in Sizes :
         /\ packets' = Append(packets, n)
         /\ Write(Header(n), clean)

\* ... and the payload.
PublishPayload ==
    /\ pending
    /\ pending' = FALSE
    /\ Write(Payload(Len(packets)), clean + 1)
    /\ UNCHANGED packets

\* dbg_printf, cfg_reply and the replies of cfg_scan_task.
WriteText ==
    /\ pending => Chatter
    /\ UNCHANGED <<packets, pending>>
    /\ Write(<<Text>>, IF pending THEN -1 ELSE clean)

UsbInit ==
    /\ packets = <<>>
    /\ pending = FALSE
    /\ held = <<>>
    /\ heard = <<>>
    /\ clean = 0

UsbNext == PublishHeader \/ PublishPayload \/ WriteText

UsbSpec == UsbInit /\ [][UsbNext]_usbVars

----------------------------------------------------------------------------
(* Properties *)

\* Those of the first n packets that are not too long for the reader.
Fitting(n) == {k \in 1 .. n : packets[k] <= MaxPayload}

\* As long as every write was taken and text came only between packets, every
\* packet the reader can take is heard, whole, once and in order.
EveryPacketHeard ==
    ~pending /\ clean = Len(packets) =>
        /\ Len(heard) = Cardinality(Fitting(Len(packets)))
        /\ \A k \in Fitting(Len(packets)) : heard[Cardinality(Fitting(k))] = Payload(k)

\* However the stream was disturbed, the reader is back in step as soon as the
\* packets written since then are as long as the longest payload it may have
\* been told to wait for: between two packets it waits for nothing.
Resync ==
    clean * (HeaderLen + 1) >= MaxPayload /\ ~pending => MagicAt(held) = {}

\* What the reader takes for a frame was captured: text in the stream does
\* not disturb it (bt_stream.c:118).
NothingForged == \A h \in 1 .. Len(heard) :
    \E k \in 1 .. Len(packets) : heard[h] = Payload(k)
=============================================================================
