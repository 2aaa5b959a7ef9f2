------------------------------ MODULE WsParser ------------------------------
(***************************************************************************)
(* The frame parser of a connection (lib/ws/connection.js:404-437) at the  *)
(* end of the byte stream of its peer.  A text frame is the byte 0, the    *)
(* bytes of the text and the byte 255; the bytes 255 and 0 close.  The     *)
(* stream comes in pieces that know nothing of frames: the first of them   *)
(* is the upgradeHead of the request, the key3 of the handshake with       *)
(* whatever follows it, the others are data events.                        *)
(***************************************************************************)
EXTENDS Integers, Sequences, SequencesExt

CONSTANTS Texts,        \* the texts the peer may send, as bytes
          MaxTexts,     \* bound on the frames it sends
          Key3,         \* the bytes of its key3: 8 in the protocol
          HighFrames    \* frames it may send whose type has the high bit

Byte == 0 .. 255
TextType == 0
FrameEnd == 255

\* No byte of UTF-8 is 255.
ASSUME ParserAssumption ==
    /\ \A t \in Texts : t \in Seq(Byte \ {FrameEnd})
    /\ MaxTexts \in Nat /\ Key3 \in Seq(Byte)
    /\ \A f \in HighFrames : f \in Seq(Byte) /\ Len(f) >= 2 /\ f[1] >= 128

VARIABLES pipe,         \* bytes on their way to the server
          written,      \* history: the texts the peer has sent
          closing,      \* the peer has sent its closing frame
          high,         \* it has sent one of HighFrames: it sends one at most
          upgraded,     \* "no", "yes", or "rejected" for want of a key3
          parser,       \* Parser: .order, .frameData
          emitted       \* the messages the parser emitted

peerVars   == <<written, closing, high>>
serverVars == <<upgraded, parser, emitted>>
parserVars == <<pipe, peerVars, serverVars>>

\* parser.order: what the next byte is.
FrameType == 0   TextByte == -1   HighByte == 1

ParserTypeOK ==
    /\ pipe \in Seq(Byte)
    /\ written \in Seq(Texts) /\ closing \in BOOLEAN /\ high \in BOOLEAN
    /\ upgraded \in {"no", "yes", "rejected"}
    /\ parser \in [order : {FrameType, TextByte, HighByte}, frameData : Seq(Byte)]
    /\ emitted \in Seq(Seq(Byte))

ParserInit ==
    /\ pipe = Key3
    /\ written = <<>> /\ closing = FALSE /\ high = FALSE
    /\ upgraded = "no"
    /\ parser = [order |-> FrameType, frameData |-> <<>>]
    /\ emitted = <<>>

-----------------------------------------------------------------------------
(* The parser. *)

\* Mutant: frameData is not emptied after a message.
StepKeeping(p, byte) ==
    CASE p.order = FrameType -> [p EXCEPT !.order = IF byte % 2 = 1 THEN HighByte ELSE TextByte]
      [] p.order = TextByte /\ byte = FrameEnd -> 
           [p EXCEPT !.order = FrameType, !.out = Append(@, p.frameData)]
      [] p.order = TextByte /\ byte # FrameEnd -> [p EXCEPT !.frameData = Append(@, byte)]
      [] p.order = HighByte -> [p EXCEPT !.order = FrameType]

\* Mutant: the byte after a high type is skipped, and all the next ones.
StepSkipping(p, byte) ==
    CASE p.order = FrameType -> [p EXCEPT !.order = IF byte % 2 = 1 THEN HighByte ELSE TextByte]
      [] p.order = TextByte /\ byte = FrameEnd -> 
           [order |-> FrameType, frameData |-> <<>>, out |-> Append(p.out, p.frameData)]
      [] p.order = TextByte /\ byte # FrameEnd -> [p EXCEPT !.frameData = Append(@, byte)]
      [] p.order = HighByte -> p

\* One byte through the loop of Parser.write; p is the parser and what it has
\* emitted so far.  The test of the type byte is "data[i] & 0x80 == 0x80", where
\* == binds tighter than &: it looks at the lowest bit.
Step(p, byte) ==
    CASE p.order = FrameType ->
           [p EXCEPT !.order = IF byte % 2 = 1 THEN HighByte ELSE TextByte]
      [] p.order = TextByte /\ byte = FrameEnd ->
           [order |-> FrameType, frameData |-> <<>>, out |-> Append(p.out, p.frameData)]
      [] p.order = TextByte /\ byte # FrameEnd ->
           [p EXCEPT !.frameData = Append(@, byte)]
      [] p.order = HighByte ->
           [p EXCEPT !.order = FrameType]

\* The loop over the bytes of a piece.
Parse(p, data) ==
    LET after[n \in 0 .. Len(data)] == IF n = 0 THEN p ELSE Step(after[n - 1], data[n])
    IN  after[Len(data)]

\* Parser.write on a piece of the stream.
Write(data) ==
    LET p == Parse([order |-> parser.order, frameData |-> parser.frameData, out |-> <<>>], data)
    IN  /\ parser' = [order |-> p.order, frameData |-> p.frameData]
        /\ emitted' = emitted \o p.out

-----------------------------------------------------------------------------
(* The server. *)

\* Mutant: what follows key3 in the request is forgotten.
UpgradeForgetting(n) ==
    /\ upgraded = "no"
    /\ pipe' = SubSeq(pipe, n + 1, Len(pipe))
    /\ upgraded' = IF n < Len(Key3) THEN "rejected" ELSE "yes"
    /\ UNCHANGED <<parser, emitted, peerVars>>

\* The request comes with the first n bytes of the stream.  Fewer than key3 has
\* are rejected; what follows it is the first frame, parsed once connected.
Upgrade(n) ==
    /\ upgraded = "no"
    /\ pipe' = SubSeq(pipe, n + 1, Len(pipe))
    /\ IF n < Len(Key3)
       THEN upgraded' = "rejected" /\ UNCHANGED <<parser, emitted>>
       ELSE upgraded' = "yes" /\ Write(SubSeq(pipe, Len(Key3) + 1, n))
    /\ UNCHANGED peerVars

\* A data event with the next n bytes.
Data(n) ==
    /\ upgraded = "yes" /\ n > 0
    /\ pipe' = SubSeq(pipe, n + 1, Len(pipe))
    /\ Write(SubSeq(pipe, 1, n))
    /\ UNCHANGED <<peerVars, upgraded>>

-----------------------------------------------------------------------------
(* The peer. *)

SendText(t) ==
    /\ ~ closing /\ Len(written) < MaxTexts
    /\ pipe' = pipe \o <<TextType>> \o t \o <<FrameEnd>>
    /\ written' = Append(written, t)
    /\ UNCHANGED <<closing, high, serverVars>>

SendClose ==
    /\ ~ closing
    /\ pipe' = pipe \o <<FrameEnd, TextType>>
    /\ closing' = TRUE
    /\ UNCHANGED <<written, high, serverVars>>

\* A frame of another type.
SendHigh(f) ==
    /\ ~ closing /\ ~ high
    /\ pipe' = pipe \o f
    /\ high' = TRUE
    /\ UNCHANGED <<written, closing, serverVars>>

ParserNext ==
    \/ \E n \in 0 .. Len(pipe) : Upgrade(n) \/ Data(n)
    \/ \E t \in Texts : SendText(t)
    \/ \E f \in HighFrames : SendHigh(f)
    \/ SendClose

\* The bytes of the stream arrive.
ParserFairness == WF_parserVars(\E n \in 1 .. Len(pipe) : Data(n))

ParserSpec == ParserInit /\ [][ParserNext]_parserVars /\ ParserFairness

-----------------------------------------------------------------------------
(* Properties. *)

\* However the stream is cut into pieces, the messages emitted are the texts
\* that were sent, whole, in order, none of them twice (connection.js:413-437).
MessagesIntact == IsPrefix(emitted, written)

\* When all that was sent has arrived, no text is still held back and the parser
\* waits for a frame.
NothingHeldBack ==
    upgraded = "yes" /\ pipe = <<>> =>
        emitted = written /\ parser = [order |-> FrameType, frameData |-> <<>>]

\* "High Order packet handling is not yet implemented" (connection.js:433): a
\* frame whose type has the high bit makes no message.
HighOrderNotDelivered ==
    \A i \in DOMAIN emitted : \E j \in DOMAIN written : emitted[i] = written[j]

\* What is sent to a connection that is served is delivered.
TextsArrive == upgraded = "yes" ~> emitted = written
=============================================================================
