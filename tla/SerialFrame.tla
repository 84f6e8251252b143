----------------------------- MODULE SerialFrame -----------------------------
(* The frame a subscription is sent in over the serial port: header, topic,  *)
(* payload and CRC, COBS-encoded and ended by a zero. A byte is 0, the       *)
(* delimiter, or 1, any other; BlockCode stands for 0xFF.                    *)
EXTENDS Naturals, Sequences

CONSTANTS
  BlockCode, \* the code of a block that no zero ends
  RawMax,    \* sizeof(raw_)
  EncMax,    \* sizeof(enc_)
  FrameMax   \* longest frame tried

ASSUME SerialFrameAssumption ==
  BlockCode \in Nat \ {0, 1} /\ RawMax \in Nat /\ EncMax \in Nat \ {0, 1} /\ FrameMax \in Nat

VARIABLES
  opened,  \* started_
  frame,   \* what raw_ holds
  onWire   \* the bytes written, without the zero; <<>> when it is refused

frameVars == <<opened, frame, onWire>>

FrameInit == opened = FALSE /\ frame = <<>> /\ onWire = <<>>

\* One byte: out is what is written, at the place of the open code, code its value.
EncodeByteLate(state, byte) ==
  IF byte = 0
  THEN [out |-> Append([state.out EXCEPT ![state.at] = state.code], 0),
        at |-> Len(state.out) + 1, code |-> 1]
  ELSE LET out == Append(state.out, byte) IN
         IF state.code > BlockCode
         THEN [out |-> Append([out EXCEPT ![state.at] = state.code + 1], 0),
               at |-> Len(out) + 1, code |-> 1]
         ELSE [out |-> out, at |-> state.at, code |-> state.code + 1]
EncodeByte(state, byte) ==
  IF byte = 0
  THEN [out |-> Append([state.out EXCEPT ![state.at] = state.code], 0),
        at |-> Len(state.out) + 1, code |-> 1]
  ELSE LET out == Append(state.out, byte) IN
         IF state.code + 1 = BlockCode
         THEN [out |-> Append([out EXCEPT ![state.at] = BlockCode], 0),
               at |-> Len(out) + 1, code |-> 1]
         ELSE [out |-> out, at |-> state.at, code |-> state.code + 1]

Unencoded == [out |-> <<0>>, at |-> 1, code |-> 1]
\* The state after each byte of s.
EncodingOf(s) ==
  LET after[i \in 0..Len(s)] ==
        IF i = 0 THEN Unencoded ELSE EncodeByte(after[i - 1], s[i])
  IN  after

\* cobs_encode: it gives up as soon as the buffer is full, so a frame that
\* would just fit is refused, too.
CobsEncode(s) ==
  LET end == EncodingOf(s)[Len(s)]
  IN  IF s # <<>> /\ Len(end.out) >= EncMax THEN <<>>
      ELSE [end.out EXCEPT ![end.at] = end.code]

\* cobs_decode, which the channel has and calls nowhere: what the bytes from
\* each place to the end decode to.
DecodingOf(e) ==
  LET from[i \in 1..(Len(e) + 1)] ==
        IF i > Len(e) THEN <<>>
        ELSE IF e[i] = 0 \/ i + e[i] > Len(e) + 1 THEN <<"malformed">>
        ELSE SubSeq(e, i + 1, i + e[i] - 1)
               \o (IF e[i] # BlockCode /\ i + e[i] <= Len(e) THEN <<0>> ELSE <<>>)
               \o from[i + e[i]]
  IN  from
CobsDecode(e) == DecodingOf(e)[1]

OpenPort == ~opened /\ opened' = TRUE /\ UNCHANGED <<frame, onWire>>

\* Header, topic, payload and CRC, little-endian: any bytes.
Frames == UNION {[1..n -> {0, 1}] : n \in 1..FrameMax}

SendFrame(bytes) ==
  IF Len(bytes) > RawMax THEN onWire' = <<>> /\ UNCHANGED frame
  ELSE frame' = bytes /\ onWire' = CobsEncode(bytes)

SendSubscribeFrame ==
  /\ opened
  /\ \E bytes \in Frames : SendFrame(bytes)
  /\ UNCHANGED opened

FrameNext == OpenPort \/ SendSubscribeFrame

FrameSpec == FrameInit /\ [][FrameNext]_frameVars

-----------------------------------------------------------------------------
(* Properties *)

FrameTypeOK ==
  /\ opened \in BOOLEAN /\ Len(frame) <= RawMax
  /\ Len(onWire) < EncMax /\ \A i \in DOMAIN onWire : onWire[i] \in 0..BlockCode

\* What is written holds no delimiter inside, stays in its buffer and is the
\* frame again once decoded, whatever zeros the topic's length and the CRC
\* hold and however its runs fall on the blocks.
FrameDecodes ==
  onWire # <<>> =>
    /\ \A i \in DOMAIN onWire : onWire[i] # 0
    /\ CobsDecode(onWire) = frame
=============================================================================
