----------------------------- MODULE WireFormat -----------------------------
(***************************************************************************)
(* The ITS5 wire format: what usb_stream.c and bt_stream.c write for a     *)
(* captured packet and how the receivers (FrameReader of the Android app   *)
(* and of its_g5_bridge.py) cut the byte stream into frames.  A stream is  *)
(* a sequence of numbers; the two time stamps of the header carry nothing  *)
(* the reader looks at and are left out, so the header is the magic and    *)
(* one number for the length.                                              *)
(***************************************************************************)
EXTENDS Integers, Sequences, SequencesExt, FiniteSetsExt

CONSTANTS Magic,       \* "ITS5"
          MaxPayload   \* MAX_PAYLOAD of the readers, 4096

ASSUME WireAssumption ==
    /\ Magic \in Seq(Nat) /\ Magic # <<>>
    /\ \A i \in 2 .. Len(Magic) : Magic[i] # Magic[1]  \* it does not overlap itself
    /\ MaxPayload \in Nat

HeaderLen == Len(Magic) + 1

Header(n) == Magic \o <<n>>

\* A packet as the device puts it on the wire.
Packet(payload) == Header(Len(payload)) \o payload

Drop(s, n) == SubSeq(s, n + 1, Len(s))

\* Where the magic starts in a buffer.
MagicAt(b) ==
    {i \in 1 .. Len(b) - Len(Magic) + 1 : SubSeq(b, i, i + Len(Magic) - 1) = Magic}

\* A reader: the bytes it holds and the payloads it has cut out of them; `busy'
\* while the loop of feed has another turn to take.
Reader(buf, frames, busy) == [buf |-> buf, frames |-> frames, busy |-> busy]

\* Mutants: the tail that may begin a magic is cut too short; an implausible
\* length is believed.
TurnShortTail(r) ==
    LET b == r.buf
        from == Drop(b, Min(MagicAt(b)) - 1)
        size == from[HeaderLen]
    IN  IF MagicAt(b) = {}
        THEN Reader(Drop(b, Max({0, Len(b) - Len(Magic) + 2})), r.frames, FALSE)
        ELSE IF Len(from) < HeaderLen THEN Reader(from, r.frames, FALSE)
        ELSE IF size > MaxPayload
        THEN Reader(Drop(from, Len(Magic)), r.frames, TRUE)
        ELSE IF Len(from) < HeaderLen + size THEN Reader(from, r.frames, FALSE)
        ELSE Reader(Drop(from, HeaderLen + size),
                    Append(r.frames, SubSeq(from, HeaderLen + 1, HeaderLen + size)),
                    TRUE)

TurnCredulous(r) ==
    LET b == r.buf
        from == Drop(b, Min(MagicAt(b)) - 1)
        size == from[HeaderLen]
    IN  IF MagicAt(b) = {}
        THEN Reader(Drop(b, Max({0, Len(b) - Len(Magic) + 1})), r.frames, FALSE)
        ELSE IF Len(from) < HeaderLen THEN Reader(from, r.frames, FALSE)
        ELSE IF Len(from) < HeaderLen + size THEN Reader(from, r.frames, FALSE)
        ELSE Reader(Drop(from, HeaderLen + size),
                    Append(r.frames, SubSeq(from, HeaderLen + 1, HeaderLen + size)),
                    TRUE)

\* One turn of the loop of feed: without a magic only a tail is kept that may
\* begin one; noise before the magic goes; an implausible length drops the
\* magic; a frame that is not complete waits.
Turn(r) ==
    LET b == r.buf
        from == Drop(b, Min(MagicAt(b)) - 1)
        size == from[HeaderLen]
    IN  IF MagicAt(b) = {}
        THEN Reader(Drop(b, Max({0, Len(b) - Len(Magic) + 1})), r.frames, FALSE)
        ELSE IF Len(from) < HeaderLen THEN Reader(from, r.frames, FALSE)
        ELSE IF size > MaxPayload
        THEN Reader(Drop(from, Len(Magic)), r.frames, TRUE)
        ELSE IF Len(from) < HeaderLen + size THEN Reader(from, r.frames, FALSE)
        ELSE Reader(Drop(from, HeaderLen + size),
                    Append(r.frames, SubSeq(from, HeaderLen + 1, HeaderLen + size)),
                    TRUE)

\* feed: a chunk of the stream; every turn that is not the last shortens the
\* buffer, so there are no more turns than bytes.
Feed(buf, chunk) ==
    LET turns[n \in 0 .. Len(buf) + Len(chunk) + 1] ==
            IF n = 0 THEN Reader(buf \o chunk, <<>>, TRUE)
            ELSE IF turns[n - 1].busy THEN Turn(turns[n - 1]) ELSE turns[n - 1]
    IN  turns[Len(buf) + Len(chunk) + 1]
=============================================================================
