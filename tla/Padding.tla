-------------------------------- MODULE Padding --------------------------------
(***************************************************************************)
(* flushingIoCopy with the padding of the naive protocol.  The first       *)
(* NumFirstPaddings messages of each direction travel in frames: two bytes *)
(* with the size of the payload, one with the size of the padding, the     *)
(* payload, the padding.  From then on the bytes travel as they are.  The  *)
(* proxy takes the frames of the client off and puts frames around what    *)
(* the target sends.  What is metered is the payload.                      *)
(*                                                                         *)
(* One step is one iteration of the loop: a read, which blocks until there *)
(* is something, and the write of it.  A byte is a digit, the payload the  *)
(* digits in their order, so that bytes that are lost, swapped or taken    *)
(* for others show.                                                        *)
(***************************************************************************)
EXTENDS Naturals, Sequences, SequencesExt

CONSTANTS
    Byte,               \* values of a byte, 256 in the code
    NumFirstPaddings,   \* 8 in the code
    PaddingSizes,       \* what rand.Intn(256) returns, and the client's choices
    FrameSizes,         \* bound: payloads of the client's frames
    MaxPlain            \* bound: bytes of the client after its frames, and of the target

ASSUME PaddingAssumption ==
    /\ Byte \in Nat \ {0} /\ NumFirstPaddings \in Nat /\ MaxPlain \in Nat
    /\ PaddingSizes \subseteq 0..(Byte - 1)
    /\ FrameSizes \subseteq 0..(Byte * Byte - 1)

VARIABLES
    upload,     \* RemovePadding, from the client; otherwise AddPadding, to the client
    src,        \* what can still be read before the end of the stream
    dst,        \* what has been written
    numPadding,
    counted,    \* AddUpload or AddDownload
    ended,      \* "no", or why: "eof", "error" of a read, "unwritten"
    sent,       \* history: the payload of the whole stream
    whole,      \* history: the stream does not break off early
    hollow      \* history: a frame has padding and no payload

paddingVars == <<upload, src, dst, numPadding, counted, ended, sent, whole, hollow>>

-------------------------------------------------------------------------------
BufSize == Byte * Byte      \* 64 KiB

Digits(from, n) == [i \in 1..n |-> (from + i) % Byte]

Frame(payload, padding) ==
    <<Len(payload) \div Byte, Len(payload) % Byte, padding>> \o payload \o [i \in 1..padding |-> 0]

\* The bytes of payload in the first k messages, [size, padding], of a client.
Payload(messages) ==
    LET bytes[k \in 0..Len(messages)] ==
            IF k = 0 THEN 0 ELSE bytes[k - 1] + messages[k].size
    IN  bytes

\* The frames it makes of them.
Frames(messages) ==
    LET wire[k \in 0..Len(messages)] ==
            IF k = 0 THEN <<>>
            ELSE wire[k - 1] \o Frame(Digits(Payload(messages)[k - 1], messages[k].size),
                                      messages[k].padding)
    IN  wire

Messages == [size : FrameSizes, padding : PaddingSizes]

\* A client sends plain bytes only after its frames; its stream may break off
\* anywhere.
FromClient ==
    \E n \in 0..NumFirstPaddings :
    \E messages \in [1..n -> Messages], plain \in 0..(IF n = NumFirstPaddings THEN MaxPlain ELSE 0) :
        LET framed == Payload(messages)[n]
            wire == Frames(messages)[n] \o Digits(framed, plain)
        IN  /\ sent = Digits(0, framed + plain)
            /\ \E cut \in 0..Len(wire) : src = SubSeq(wire, 1, cut) /\ whole = (cut = Len(wire))
            /\ hollow = \E i \in 1..n : messages[i].size = 0 /\ messages[i].padding > 0

FromTarget ==
    \E n \in 0..MaxPlain : sent = Digits(0, n) /\ src = sent /\ whole = TRUE /\ hollow = FALSE

PaddingInit ==
    /\ upload \in BOOLEAN
    /\ IF upload THEN FromClient ELSE FromTarget
    /\ dst = <<>> /\ numPadding = 0 /\ counted = 0 /\ ended = "no"

-------------------------------------------------------------------------------
Upto(s, n) == SubSeq(s, 1, IF n < Len(s) THEN n ELSE Len(s))
After(s, n) == SubSeq(s, n + 1, Len(s))

\* The error io.ReadFull returns: EOF if there was nothing, another one if there
\* was too little, none if nothing was asked for.
ReadFullErr(s, n) ==
    IF Len(s) >= n THEN "no" ELSE IF s = <<>> THEN "eof" ELSE "error"

\* The end of an iteration: `bytes' are written and `logicalNr' of them counted,
\* in full as soon as any of them is written, and the loop ends with the error of
\* the write or else of the read.
Write(bytes, logicalNr, er) ==
    \/ /\ dst' = dst \o bytes
       /\ counted' = counted + logicalNr
       /\ ended' = er
    \/ /\ bytes # <<>>
       /\ \E nw \in 0..Len(bytes) :
             /\ dst' = dst \o Upto(bytes, nw)
             /\ counted' = counted + (IF nw > 0 THEN logicalNr ELSE 0)
       /\ ended' = "unwritten"

\* Fault: one message too many is framed.
OneFrameMore == numPadding <= NumFirstPaddings

Framing == numPadding < NumFirstPaddings

\* AddPadding: one read of what the buffer holds beside the header and the padding.
AddPadding ==
    /\ ~upload /\ Framing /\ src # <<>>
    /\ \E padding \in PaddingSizes : \E nr \in 1..Len(src) :
          /\ nr <= BufSize - 6 - padding
          /\ src' = After(src, nr)
          /\ Write(Frame(Upto(src, nr), padding), nr, "no")
    /\ numPadding' = numPadding + 1
    /\ UNCHANGED <<upload, sent, whole, hollow>>

\* RemovePadding: header, payload and padding are each read in full, the padding
\* only if there was any payload.  What is missing of a header that breaks off is
\* whatever the pooled buffer held before.
RemovePadding ==
    /\ upload /\ Framing /\ src # <<>>
    /\ \E header \in [1..3 -> 0..(Byte - 1)] :
          /\ \A i \in 1..3 : i <= Len(src) => header[i] = src[i]
          /\ LET nr == header[1] * Byte + header[2]
                 rest == After(src, 3)
                 body == Upto(rest, nr)
                 padding == IF body = <<>> THEN 0 ELSE header[3]
                 er == IF body = <<>> THEN ReadFullErr(rest, nr)
                       ELSE ReadFullErr(After(rest, nr), padding)
             IN  /\ src' = After(rest, nr + padding)
                 /\ Write(body, Len(body), er)
    /\ numPadding' = numPadding + 1
    /\ UNCHANGED <<upload, sent, whole, hollow>>

\* After the frames: one read of the buffer.
CopyPlain ==
    /\ ~Framing /\ src # <<>>
    /\ \E nr \in 1..Len(src) :
          /\ nr <= BufSize
          /\ src' = After(src, nr)
          /\ Write(Upto(src, nr), nr, "no")
    /\ UNCHANGED <<upload, numPadding, sent, whole, hollow>>

ReadsEnd ==
    /\ src = <<>>
    /\ ended' = "eof"
    /\ UNCHANGED <<upload, src, dst, numPadding, counted, sent, whole, hollow>>

FlushingIoCopy == ended = "no" /\ (AddPadding \/ RemovePadding \/ CopyPlain \/ ReadsEnd)

PaddingSpec == PaddingInit /\ [][FlushingIoCopy]_paddingVars

-------------------------------------------------------------------------------
\* What the client of a download makes of the frames, by the protocol: the payload
\* of the first k, which end at `at', and then the bytes as they are.
Taken(s) ==
    LET taken[k \in 0..NumFirstPaddings] ==
            IF k = 0 THEN [at |-> 0, payload |-> <<>>]
            ELSE LET last == taken[k - 1]
                     rest == After(s, last.at)
                     size == rest[1] * Byte + rest[2]
                 IN  IF Len(rest) < 3 THEN last
                     ELSE [at |-> last.at + 3 + size + rest[3],
                           payload |-> last.payload \o Upto(After(rest, 3), size)]
    IN  taken

Unframed(s) ==
    LET frames == Taken(s)[NumFirstPaddings] IN frames.payload \o After(s, frames.at)

\* flushingIoCopy: however the payload is cut into messages, reads and frames, and
\* wherever the stream breaks off, the other side gets a prefix of it, all of it if
\* the stream was whole, and exactly the payload it gets is metered.  The exceptions
\* are a write that fails, whose message is counted in full, and a frame with padding
\* and no payload, whose padding is taken for the next header.
PaddingTransparent ==
    LET got == IF upload THEN dst ELSE Unframed(dst)
    IN  ended # "unwritten" /\ ~hollow =>
            /\ IsPrefix(got, sent)
            /\ counted = Len(got)
            /\ ended = "eof" /\ whole => got = sent
===============================================================================
