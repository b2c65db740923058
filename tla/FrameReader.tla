---------------------------- MODULE FrameReader ----------------------------
(***************************************************************************)
(* The reader of the Android app (FrameReader.kt) and of the Python bridge *)
(* (its_g5_bridge.py) on an arbitrary byte stream that arrives in          *)
(* arbitrary pieces: serial reads and BLE notifications end anywhere.      *)
(***************************************************************************)
EXTENDS WireFormat

CONSTANTS Bytes,      \* the numbers that occur on the wire
          MaxStream,  \* bound: length of the stream
          MaxChunk    \* bound: length of a piece

ASSUME StreamAssumption ==
    /\ Bytes \subseteq Nat
    /\ {MaxStream, MaxChunk} \subseteq Nat

VARIABLES
    stream,  \* everything that has been fed
    buf,     \* buf
    frames   \* the payloads of the frames that were found

readerVars == <<stream, buf, frames>>

ReaderInit == stream = <<>> /\ buf = <<>> /\ frames = <<>>

FeedChunk ==
    \E n \in 1 .. MaxChunk : \E chunk \in [1 .. n -> Bytes] :
        /\ Len(stream) + n <= MaxStream
        /\ stream' = stream \o chunk
        /\ LET r == Feed(buf, chunk) IN
           /\ buf' = r.buf
           /\ frames' = frames \o r.frames

ReaderNext == FeedChunk

ReaderSpec == ReaderInit /\ [][ReaderNext]_readerVars

----------------------------------------------------------------------------
(* What a frame is, said without a reader: it starts at the first magic    *)
(* after the previous frame whose length is plausible, and is complete.    *)

\* The first place at or after i where a frame's header stands, whole or cut
\* off by the end of the stream.
Plausible(s, i) ==
    {j \in MagicAt(s) : j >= i
        /\ (j + HeaderLen - 1 <= Len(s) => s[j + HeaderLen - 1] <= MaxPayload)}

Ends(s, j) == j + HeaderLen + s[j + HeaderLen - 1]

\* The start of every frame of s, given where to look from.
Starts(s) ==
    LET next[i \in 1 .. Len(s) + 1] ==
            IF Plausible(s, i) = {} THEN <<>>
            ELSE LET j == Min(Plausible(s, i)) IN
                 IF j + HeaderLen - 1 > Len(s) THEN <<>>
                 ELSE IF Ends(s, j) > Len(s) + 1 THEN <<>>
                 ELSE <<j>> \o next[Ends(s, j)]
    IN  next[1]

Payloads(s) ==
    [k \in 1 .. Len(Starts(s)) |->
        SubSeq(s, Starts(s)[k] + HeaderLen, Ends(s, Starts(s)[k]) - 1)]

----------------------------------------------------------------------------
(* Properties *)

\* The reader finds the frames of the stream, whatever the pieces were: a
\* magic, a header or a payload may span any number of reads.
FindsTheFrames == frames = Payloads(stream)

\* What the reader holds never exceeds an unfinished frame, whatever it was
\* fed: a length field cannot make it wait for more.
BoundedBuffer == Len(buf) < HeaderLen + MaxPayload
=============================================================================
