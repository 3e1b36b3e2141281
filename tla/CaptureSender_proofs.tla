------------------------ MODULE CaptureSender_proofs ------------------------
(***************************************************************************)
(* Theorems about the way from the sound card to the receiver's decoder,   *)
(* for every size of a byte, a field, a chunk and a frame.                 *)
(***************************************************************************)
EXTENDS CaptureSender, DataLemmas

LEMMA FlattenIs == \A ss : FlattenSeq(ss) = Flatten(ss)
BY DEF FlattenSeq, Flatten

LEMMA Constants ==
  /\ Base \in Nat \ {0} /\ Base > 5 /\ MaxSamples \in Nat
  /\ SeqBytes \in Nat \ {0} /\ WordBytes \in Nat \ {0} /\ LenBytes \in Nat \ {0}
  /\ AUDIO_HEADER_LEN \in Nat \ {0} /\ AUDIO_HEADER_LEN = SeqBytes + WordBytes + LenBytes + 1
  /\ Codecs \subseteq {"Pcm", "Opus"} /\ FrameSizes \subseteq Nat \ {0}
  /\ ChunkSizes \subseteq Nat \ {0}
  /\ Capacity \in Nat /\ MaxInFlight \in Nat /\ MaxFailures \in Nat
  /\ RecvBufLen \in Nat /\ RecvBufLen >= AUDIO_HEADER_LEN
  /\ \A w \in Nat : Values(w) \in Nat \ {0}
  /\ MaxDatagram \in Nat /\ MaxDatagram < AUDIO_HEADER_LEN + Values(LenBytes)
  /\ Samples \subseteq Nat
<1>1. /\ Base \in Nat \ {0} /\ Base > 5
      /\ SeqBytes \in Nat \ {0} /\ WordBytes \in Nat \ {0} /\ LenBytes \in Nat \ {0}
  BY WireFormatAssumption
<1>2. /\ MaxSamples \in Nat
      /\ Codecs \subseteq {"Pcm", "Opus"} /\ FrameSizes \subseteq Nat \ {0}
      /\ ChunkSizes \subseteq Nat \ {0}
      /\ Capacity \in Nat /\ MaxInFlight \in Nat /\ MaxFailures \in Nat
      /\ RecvBufLen \in Nat /\ RecvBufLen >= AUDIO_HEADER_LEN
      /\ MaxDatagram \in RecvBufLen .. AUDIO_HEADER_LEN + Values(LenBytes) - 1
  BY CaptureSenderAssumption
<1>3. \A w \in Nat : Values(w) \in Nat \ {0}
  BY <1>1, Powers DEF Values
<1>4. AUDIO_HEADER_LEN \in Nat \ {0} /\ AUDIO_HEADER_LEN = SeqBytes + WordBytes + LenBytes + 1
  BY <1>1 DEF AUDIO_HEADER_LEN
<1>5. Values(LenBytes) \in Nat
  BY <1>1, <1>3
<1>6. MaxDatagram \in Nat /\ MaxDatagram < AUDIO_HEADER_LEN + Values(LenBytes)
  BY <1>2, <1>4, <1>5
<1>7. Samples \subseteq Nat
  BY <1>2 DEF Samples
<1> QED
  BY <1>1, <1>2, <1>3, <1>4, <1>6, <1>7

-----------------------------------------------------------------------------
(* Fields of a datagram.                                                    *)
LEMMA WriteType ==
  ASSUME NEW n \in Nat, NEW w \in Nat
  PROVE  WriteBE(n, w) \in Seq(Bytes) /\ Len(WriteBE(n, w)) = w
<1>1. Base \in Nat \ {0}
  BY Constants
<1>2. Digits(n, Base, w) \in Seq(0 .. Base - 1) /\ Len(Digits(n, Base, w)) = w
  BY <1>1, DigitsType
<1> QED
  BY <1>2 DEF WriteBE, Bytes

LEMMA ReadBack ==
  ASSUME NEW w \in Nat, NEW n \in Nat, n < Values(w)
  PROVE  ReadBE(WriteBE(n, w)) = n
BY Constants, RoundTrip DEF WriteBE, ReadBE, Values

LEMMA FlagType ==
  ASSUME NEW c \in {"Pcm", "Opus"}
  PROVE  Flag(c) \in 1 .. 2 /\ CodecMode[Flag(c)] = c /\ AsByte(c) \in Bytes
<1>1. DOMAIN CodecMode = 1 .. 2 /\ \E i \in 1 .. 2 : CodecMode[i] = c
  BY DEF CodecMode
<1>2. Flag(c) \in 1 .. 2 /\ CodecMode[Flag(c)] = c
  BY <1>1 DEF Flag
<1> QED
  BY <1>2, Constants DEF AsByte, Bytes

(* What a header consists of.                                               *)
Headers == [seq : 0 .. Values(SeqBytes) - 1, timestamp : Nat, payload_len : Nat,
            codec : {"Pcm", "Opus"}]

LEMMA HeaderParts ==
  ASSUME NEW h \in Headers
  PROVE  /\ SerializeHeader(h) \in Seq(Bytes) /\ Len(SerializeHeader(h)) = AUDIO_HEADER_LEN
         /\ \A i \in 1 .. SeqBytes : SerializeHeader(h)[i] = WriteBE(h.seq, SeqBytes)[i]
         /\ \A i \in 1 .. LenBytes : SerializeHeader(h)[SeqBytes + WordBytes + i]
                                       = WriteBE(h.payload_len, LenBytes)[i]
         /\ SerializeHeader(h)[AUDIO_HEADER_LEN] = AsByte(h.codec)
<1> DEFINE a == WriteBE(h.seq, SeqBytes)
           b == WriteBE(h.timestamp, WordBytes)
           c == WriteBE(h.payload_len, LenBytes)
           d == <<AsByte(h.codec)>>
<1>1. /\ SeqBytes \in Nat \ {0} /\ WordBytes \in Nat \ {0} /\ LenBytes \in Nat \ {0}
      /\ AUDIO_HEADER_LEN = SeqBytes + WordBytes + LenBytes + 1
  BY Constants
<1>2. /\ a \in Seq(Bytes) /\ Len(a) = SeqBytes /\ b \in Seq(Bytes) /\ Len(b) = WordBytes
      /\ c \in Seq(Bytes) /\ Len(c) = LenBytes
  <2>1. h.seq \in Nat /\ h.timestamp \in Nat /\ h.payload_len \in Nat
    BY Constants DEF Headers
  <2> QED
    BY <1>1, <2>1, WriteType
<1>3. d \in Seq(Bytes) /\ Len(d) = 1 /\ d[1] = AsByte(h.codec)
  <2>1. AsByte(h.codec) \in Bytes
    BY FlagType DEF Headers
  <2> QED
    BY <2>1
<1>4. SerializeHeader(h) = ((a \o b) \o c) \o d
  BY DEF SerializeHeader
<1> HIDE DEF a, b, c, d
<1>5. /\ a \o b \in Seq(Bytes) /\ Len(a \o b) = SeqBytes + WordBytes
      /\ \A i \in 1 .. SeqBytes + WordBytes : (a \o b)[i] = IF i <= SeqBytes THEN a[i] ELSE b[i - SeqBytes]
  BY ONLY <1>2, ConcatProperties
<1> DEFINE ab == a \o b
<1>6. ab \in Seq(Bytes) /\ Len(ab) = SeqBytes + WordBytes
  BY <1>5
<1> HIDE DEF ab
<1>7. /\ ab \o c \in Seq(Bytes) /\ Len(ab \o c) = Len(ab) + Len(c)
      /\ \A i \in 1 .. Len(ab) + Len(c) : (ab \o c)[i] = IF i <= Len(ab) THEN ab[i] ELSE c[i - Len(ab)]
  <2>1. ab \in Seq(Bytes) /\ c \in Seq(Bytes)
    BY <1>2, <1>6
  <2> QED
    BY ONLY <2>1, ConcatProperties
<1> DEFINE abc == ab \o c
<1>8. abc \in Seq(Bytes) /\ Len(abc) = SeqBytes + WordBytes + LenBytes
  BY <1>2, <1>6, <1>7
<1> HIDE DEF abc
<1>9. /\ abc \o d \in Seq(Bytes) /\ Len(abc \o d) = Len(abc) + Len(d)
      /\ \A i \in 1 .. Len(abc) + Len(d) : (abc \o d)[i] = IF i <= Len(abc) THEN abc[i] ELSE d[i - Len(abc)]
  <2>1. abc \in Seq(Bytes) /\ d \in Seq(Bytes)
    BY <1>3, <1>8
  <2> QED
    BY ONLY <2>1, ConcatProperties
<1> DEFINE s == abc \o d
<1>10. s \in Seq(Bytes) /\ Len(s) = AUDIO_HEADER_LEN
  BY <1>1, <1>3, <1>8, <1>9
<1>11. \A i \in 1 .. SeqBytes + WordBytes + LenBytes : s[i] = abc[i]
  BY <1>1, <1>3, <1>8, <1>9
<1>12. s[AUDIO_HEADER_LEN] = d[1]
  <2>1. /\ AUDIO_HEADER_LEN \in 1 .. Len(abc) + Len(d)
        /\ ~(AUDIO_HEADER_LEN <= Len(abc)) /\ AUDIO_HEADER_LEN - Len(abc) = 1
    BY <1>1, <1>3, <1>8
  <2> QED
    BY ONLY <1>9, <2>1
<1> HIDE DEF s
<1>13. ASSUME NEW i \in 1 .. SeqBytes
       PROVE  s[i] = a[i]
  <2>1. i \in 1 .. SeqBytes + WordBytes /\ i \in 1 .. SeqBytes + WordBytes + LenBytes
        /\ i <= SeqBytes + WordBytes
    BY <1>1
  <2>2. s[i] = abc[i]
    BY <1>11, <2>1
  <2>3. abc[i] = ab[i]
    BY <1>1, <1>2, <1>6, <1>7, <2>1 DEF abc
  <2>4. ab[i] = a[i]
    BY <1>5, <2>1 DEF ab
  <2> QED
    BY <2>2, <2>3, <2>4
<1>14. ASSUME NEW i \in 1 .. LenBytes
       PROVE  s[SeqBytes + WordBytes + i] = c[i]
  <2>1. SeqBytes + WordBytes + i \in 1 .. SeqBytes + WordBytes + LenBytes
        /\ ~(SeqBytes + WordBytes + i <= SeqBytes + WordBytes)
        /\ (SeqBytes + WordBytes + i) - (SeqBytes + WordBytes) = i
    BY <1>1
  <2>2. abc[SeqBytes + WordBytes + i] = c[i]
    BY <1>2, <1>6, <1>7, <2>1 DEF abc
  <2> QED
    BY <1>11, <2>1, <2>2
<1>15. SerializeHeader(h) = s
  BY <1>4 DEF s, abc, ab
<1> QED
  BY <1>3, <1>10, <1>12, <1>13, <1>14, <1>15 DEF a, c, d

(* What begins with a header is read as that header.                        *)
LEMMA HeaderRead ==
  ASSUME NEW h \in Headers, h.payload_len < Values(LenBytes),
         NEW buf \in Seq(Bytes), Len(buf) >= AUDIO_HEADER_LEN,
         \A i \in 1 .. AUDIO_HEADER_LEN : buf[i] = SerializeHeader(h)[i]
  PROVE  /\ ~IsError(DeserializeHeader(buf))
         /\ DeserializeHeader(buf).seq = h.seq
         /\ DeserializeHeader(buf).payload_len = h.payload_len
         /\ DeserializeHeader(buf).codec = h.codec
<1> DEFINE H == SerializeHeader(h)
           a == WriteBE(h.seq, SeqBytes)
           c == WriteBE(h.payload_len, LenBytes)
           N == AUDIO_HEADER_LEN
<1>1. /\ SeqBytes \in Nat \ {0} /\ WordBytes \in Nat \ {0} /\ LenBytes \in Nat \ {0}
      /\ N = SeqBytes + WordBytes + LenBytes + 1 /\ N \in Nat
      /\ Len(buf) \in Nat
  BY Constants
<1>2. /\ h.seq \in Nat /\ h.payload_len \in Nat /\ h.codec \in {"Pcm", "Opus"}
      /\ h.seq < Values(SeqBytes)
  <2>1. Values(SeqBytes) \in Nat
    BY <1>1, Constants
  <2> QED
    BY <2>1 DEF Headers
<1>3. a \in Seq(Bytes) /\ Len(a) = SeqBytes /\ c \in Seq(Bytes) /\ Len(c) = LenBytes
  BY <1>1, <1>2, WriteType
<1>4. ReadBE(a) = h.seq /\ ReadBE(c) = h.payload_len
  BY <1>1, <1>2, ReadBack
<1>5. /\ \A i \in 1 .. SeqBytes : buf[i] = a[i]
      /\ \A i \in 1 .. LenBytes : buf[SeqBytes + WordBytes + i] = c[i]
      /\ buf[N] = AsByte(h.codec)
  <2>1. /\ \A i \in 1 .. SeqBytes : i \in 1 .. N
        /\ \A i \in 1 .. LenBytes : SeqBytes + WordBytes + i \in 1 .. N
        /\ N \in 1 .. N
    BY <1>1
  <2> QED
    BY <2>1, HeaderParts
<1> HIDE DEF a, c
<1>6. Field(buf, 0, SeqBytes) = h.seq
  <2>1. 0 + Len(a) <= Len(buf) /\ \A i \in 1 .. Len(a) : buf[0 + i] = a[i]
    BY <1>1, <1>3, <1>5
  <2>2. SubSeq(buf, 0 + 1, 0 + Len(a)) = a
    BY <1>3, <2>1, PartAt
  <2> QED
    BY <1>3, <1>4, <2>2 DEF Field, Slice
<1>7. Field(buf, SeqBytes + WordBytes, LenBytes) = h.payload_len
  <2> DEFINE o == SeqBytes + WordBytes
  <2>1. o \in Nat /\ o + Len(c) <= Len(buf) /\ \A i \in 1 .. Len(c) : buf[o + i] = c[i]
    BY <1>1, <1>3, <1>5
  <2> HIDE DEF o
  <2>2. SubSeq(buf, o + 1, o + Len(c)) = c
    BY <1>3, <2>1, PartAt
  <2> QED
    BY <1>3, <1>4, <2>2 DEF Field, Slice, o
<1>8. buf[N] + 1 = Flag(h.codec) /\ Flag(h.codec) \in DOMAIN CodecMode /\ CodecMode[Flag(h.codec)] = h.codec
  <2>1. Flag(h.codec) \in 1 .. 2 /\ CodecMode[Flag(h.codec)] = h.codec
    BY <1>2, FlagType
  <2>2. DOMAIN CodecMode = 1 .. 2
    BY DEF CodecMode
  <2> QED
    BY <1>5, <2>1, <2>2 DEF AsByte
<1>9. DeserializeHeader(buf) =
        [seq |-> h.seq, timestamp |-> Field(buf, SeqBytes, WordBytes),
         payload_len |-> h.payload_len, codec |-> h.codec]
  <2>1. ~(Len(buf) < N)
    BY <1>1
  <2> QED
    BY <1>6, <1>7, <1>8, <2>1 DEF DeserializeHeader
<1> QED
  BY <1>9 DEF IsError
-----------------------------------------------------------------------------
(* The invariant.  A datagram is what encode_frame makes of a frame; what   *)
(* is in flight was made of frames that were encoded, and so was what       *)
(* packet_buffer holds, of the frame that is still to be drained.           *)
Width(c)          == IF c = "Pcm" THEN 2 ELSE 1
Word(s)           == ToI16(Float(s)) % Values(2)
Sampled(c, s)     == IF c = "Pcm" THEN Reverse(WriteBE(Word(s), 2)) ELSE WriteBE(s, 1)
PayloadOf(c, f)   == FlattenSeq([i \in DOMAIN f |-> Sampled(c, f[i])])
HeaderOf(c, f, n, t) ==
  [seq |-> n, timestamp |-> t, payload_len |-> Len(PayloadOf(c, f)), codec |-> c]
Datagram(c, f, n, t) == SerializeHeader(HeaderOf(c, f, n, t)) \o PayloadOf(c, f)

(* What the decoder makes of it.                                            *)
DecodedSample(c, s) == IF c = "Pcm" THEN Fine * AsI16(Word(s)) ELSE s % Base
DecodedOf(c, f)     == [i \in DOMAIN f |-> DecodedSample(c, f[i])]

Frames(size) == {f \in Seq(Samples) : Len(f) = size}

CaptureTypes ==
  /\ codec \in Codecs /\ frameSize \in FrameSizes
  /\ captured \in 0 .. MaxSamples
  /\ channel \in Seq(Seq(Samples)) /\ Len(channel) <= Capacity
  /\ frameBuffer \in Seq(Samples) /\ cut \in Seq(Samples)
  /\ encoded \in Seq(Frames(frameSize))
  /\ dropped \subseteq 0 .. captured - 1
  /\ failures \in Nat

InHand ==
  Sending => /\ Len(frameBuffer) >= frameSize
             /\ encoded # << >> /\ encoded[Len(encoded)] = Frame
             /\ packetBuffer = Datagram(codec, Frame, sequenceNumber, Len(cut))

Numbering ==
  sequenceNumber = IF Sending THEN Numbered(Len(encoded)) ELSE Numbered(Len(encoded) + 1)

Made(c, e, d) == \E k \in DOMAIN e, t \in Nat : d = Datagram(c, e[k], Numbered(k), t)

InFlight ==
  /\ net \in Seq(Seq(Bytes)) /\ Len(net) <= MaxInFlight
  /\ \A i \in DOMAIN net : Len(net[i]) <= MaxDatagram /\ Made(codec, encoded, net[i])

Packets  == [seq : Nat, samples : Seq(Int)]
Arrivals == rejected \in Nat /\ arrived \in Seq(Packets)

SenderInv == CaptureTypes /\ InHand /\ Numbering /\ InFlight
DecodedAsEncoded ==
  \A a \in Range(arrived) :
    \E k \in DOMAIN encoded :
      a.seq = Numbered(k) /\ a.samples = DecodedOf(codec, encoded[k])
EndToEnd  == Arrivals /\ DecodedAsEncoded /\ UnderstoodIfItFits

(* Whole stereo pairs.                                                      *)
Paired(s) ==
  /\ Len(s) % 2 = 0
  /\ \A i \in DOMAIN s : IF i % 2 = 1 THEN s[i] % 2 = 0 ELSE s[i] = s[i - 1] + 1
PairsOnly ==
  /\ captured % 2 = 0
  /\ \A i \in DOMAIN channel : Paired(channel[i])
  /\ Paired(frameBuffer)
  /\ \A k \in DOMAIN encoded : Paired(encoded[k])
-----------------------------------------------------------------------------
(* Payloads.                                                                *)
(* Samples as 16-bit integers.                                              *)
LEMMA Sounds ==
  /\ FullScale \in Nat \ {0} /\ Fine \in Nat \ {0} /\ Values(2) = 2 * FullScale + 2
  /\ One \in Nat \ {0} /\ NaN \notin Int
  /\ \A s \in Samples : Float(s) \in Int \cup {NaN}
<1>1. /\ FullScale \in Nat \ {0} /\ Fine \in Nat \ {0} /\ Values(2) = 2 * FullScale + 2
      /\ NaN \notin Int /\ Sound \in [Samples -> DeviceSamples]
      /\ Format \in {"F32", "I16", "U16"}
  BY SoundAssumption
<1>2. One \in Nat \ {0}
  <2>1. \A a, b \in Nat \ {0} : a * b \in Nat \ {0}
    OBVIOUS
  <2> QED
    BY <1>1, <2>1 DEF One
<1>3. ASSUME NEW s \in Samples
      PROVE  Float(s) \in Int \cup {NaN}
  <2>1. Sound[s] \in DeviceSamples
    BY <1>1
  <2>2. CASE Format = "F32"
    BY <2>1, <2>2 DEF DeviceSamples, Float
  <2>3. CASE Format # "F32"
    <3>1. DeviceSamples \subseteq Int
      BY <1>1, <2>3 DEF DeviceSamples
    <3>2. \A a, b \in Int : a * b \in Int
      OBVIOUS
    <3>3. Sound[s] * One \in Int
      <4> DEFINE a == Sound[s]
                 b == One
      <4>1. a \in Int /\ b \in Int
        <5>1. Sound[s] \in Int
          BY <2>1, <3>1, Zenon
        <5>2. One \in Int
          BY <1>2
        <5> QED
          BY <5>1, <5>2
      <4> HIDE DEF a, b
      <4>2. a * b \in Int
        BY <3>2, <4>1
      <4> QED
        BY <4>2 DEF a, b
    <3> QED
      BY <2>3, <3>3 DEF Float
  <2> QED
    BY <2>2, <2>3
<1> QED
  BY <1>1, <1>2, <1>3

LEMMA ClampedIs ==
  ASSUME NEW x \in Int \cup {NaN}
  PROVE  Clamped(x) = NaN \/ Clamped(x) \in -One .. One
BY Sounds DEF Clamped

(* Truncation loses less than a step.                                       *)
LEMMA TruncatedIs ==
  ASSUME NEW x \in (-One .. One) \cup {NaN}
  PROVE  /\ Truncated(x) \in -FullScale .. FullScale
         /\ x = NaN => Truncated(x) = 0
         /\ x # NaN => x - Fine * Truncated(x) \in -Fine .. Fine
<1>1. \A f \in Nat \ {0}, n \in Nat, y \in Nat :
         y <= n * f => /\ y \div f \in 0 .. n
                       /\ y - f * (y \div f) \in 0 .. f
  <2> SUFFICES ASSUME NEW f \in Nat \ {0}, NEW n \in Nat, NEW y \in Nat, y <= n * f
               PROVE  /\ y \div f \in 0 .. n
                      /\ y - f * (y \div f) \in 0 .. f
    OBVIOUS
  <2>1. /\ y \div f \in Nat /\ y = f * (y \div f) + (y % f) /\ y % f \in 0 .. f - 1
    OBVIOUS
  <2> DEFINE q == y \div f
             m == y % f
  <2>2. q \in Nat /\ m \in 0 .. f - 1 /\ y = f * q + m
    BY <2>1
  <2> HIDE DEF q, m
  <2>3. y - f * q = m
    <3>1. f * q \in Int
      BY <2>2
    <3> QED
      BY <2>2, <3>1
  <2>4. q <= n
    <3> SUFFICES ASSUME q >= n + 1 PROVE FALSE
      BY <2>2
    <3>1. f * q >= f * (n + 1)
      BY <2>2
    <3>2. f * (n + 1) = n * f + f
      OBVIOUS
    <3>3. n * f \in Int /\ f * q \in Int
      BY <2>2
    <3> QED
      BY <2>2, <3>1, <3>2, <3>3
  <2> QED
    BY <2>2, <2>3, <2>4 DEF q, m
<1>2. /\ FullScale \in Nat /\ Fine \in Nat \ {0} /\ One \in Nat /\ NaN \notin Int
      /\ One = FullScale * Fine
  BY Sounds DEF One
<1>3. CASE x = NaN
  BY <1>2, <1>3 DEF Truncated
<1>4. CASE x # NaN
  <2>1. x \in Int /\ x <= One /\ -x <= One
    BY <1>2, <1>4
  <2>2. CASE x >= 0
    <3> DEFINE q == x \div Fine
    <3>1. Truncated(x) = q
      BY <1>4, <2>2 DEF Truncated
    <3>2. q \in 0 .. FullScale /\ x - Fine * q \in 0 .. Fine
      BY <1>1, <1>2, <2>1, <2>2
    <3> HIDE DEF q
    <3> QED
      BY <1>2, <1>4, <3>1, <3>2
  <2>3. CASE x < 0
    <3> DEFINE q == (-x) \div Fine
    <3>1. Truncated(x) = -q
      BY <1>4, <2>1, <2>3 DEF Truncated
    <3>2. -x \in Nat /\ q \in 0 .. FullScale /\ (-x) - Fine * q \in 0 .. Fine
      BY <1>1, <1>2, <2>1, <2>3
    <3> HIDE DEF q
    <3>3. Fine * (-q) = -(Fine * q) /\ Fine * q \in Int
      BY <1>2, <3>2
    <3>4. x - Fine * (-q) \in -Fine .. Fine
      BY <1>2, <2>1, <3>2, <3>3
    <3> QED
      BY <1>2, <1>4, <3>1, <3>2, <3>4
  <2> QED
    BY <2>1, <2>2, <2>3
<1> QED
  BY <1>3, <1>4

(* Two's complement is read back.                                           *)
LEMMA WordIs ==
  ASSUME NEW s \in Samples
  PROVE  /\ Word(s) \in Nat /\ Word(s) < Values(2)
         /\ ToI16(Float(s)) \in -FullScale .. FullScale
         /\ AsI16(Word(s)) = ToI16(Float(s))
<1> DEFINE v == ToI16(Float(s))
<1>1. FullScale \in Nat /\ Values(2) = 2 * FullScale + 2
  BY Sounds
<1>2. v \in -FullScale .. FullScale
  BY Sounds, ClampedIs, TruncatedIs DEF ToI16
<1>3. Word(s) = v % Values(2)
  BY DEF Word
<1> HIDE DEF v
<1>4. \A f \in Nat, x \in Int : x \in -f .. f =>
        /\ x >= 0 => x % (2 * f + 2) = x
        /\ x < 0 => x % (2 * f + 2) = x + (2 * f + 2)
  OBVIOUS
<1>5. v % Values(2) = IF v >= 0 THEN v ELSE v + Values(2)
  BY <1>1, <1>2, <1>4
<1>6. /\ Word(s) \in Nat /\ Word(s) < Values(2) /\ AsI16(Word(s)) = v
  BY <1>1, <1>2, <1>3, <1>5 DEF AsI16
<1> QED
  BY <1>2, <1>6 DEF v

LEMMA SampleSizes ==
  ASSUME NEW c \in {"Pcm", "Opus"}, NEW s \in Samples
  PROVE  /\ Sampled(c, s) \in Seq(Bytes) /\ Len(Sampled(c, s)) = Width(c)
         /\ c = "Pcm" => /\ ReadBE(<<Sampled(c, s)[2], Sampled(c, s)[1]>>) = Word(s)
         /\ c = "Opus" => Sampled(c, s)[1] = s % Base
<1>1. Base \in Nat \ {0} /\ s \in Nat
  BY Constants
<1>2. CASE c = "Pcm"
  <2> DEFINE x == Word(s)
             b == WriteBE(x, 2)
  <2>1. x \in Nat /\ x < Values(2)
    BY WordIs
  <2>2. Sampled(c, s) = Reverse(b) /\ Width(c) = 2
    BY <1>2 DEF Sampled, Width
  <2> HIDE DEF x
  <2>3. b \in Seq(Bytes) /\ Len(b) = 2
    BY <2>1, WriteType
  <2>4. ReadBE(b) = x
    BY <2>1, ReadBack
  <2> HIDE DEF b
  <2>5. Reverse(b) = <<b[2], b[1]>> /\ <<b[1], b[2]>> = b /\ b[1] \in Bytes /\ b[2] \in Bytes
    BY <2>3 DEF Reverse
  <2> DEFINE r == <<b[2], b[1]>>
  <2>6. r \in Seq(Bytes) /\ Len(r) = 2 /\ r[1] = b[2] /\ r[2] = b[1]
    BY <2>5
  <2>7. Sampled(c, s) = r
    BY <2>2, <2>5
  <2> HIDE DEF r
  <2>8. <<r[2], r[1]>> = b
    BY <2>5, <2>6
  <2>9. ReadBE(<<r[2], r[1]>>) = x
    BY <2>4, <2>8
  <2> QED
    BY <1>2, <2>2, <2>6, <2>7, <2>9 DEF x
<1>3. CASE c = "Opus"
  <2> DEFINE w == 1
  <2>1. w \in Nat /\ 1 \in 1 .. w /\ w - 1 = 0
    OBVIOUS
  <2> HIDE DEF w
  <2>2. /\ WriteBE(s, w) \in Seq(Bytes) /\ Len(WriteBE(s, w)) = w
    BY <1>1, <2>1, WriteType
  <2>3. Digits(s, Base, w)[1] = (s \div Power(Base)[w - 1]) % Base
    BY <1>1, <2>1, DigitsType
  <2>4. Power(Base)[w - 1] = 1
    BY <1>1, <2>1, Powers
  <2>5. s \div 1 = s
    BY <1>1
  <2>6. WriteBE(s, w)[1] = s % Base
    BY <2>3, <2>4, <2>5 DEF WriteBE
  <2>7. Sampled(c, s) = WriteBE(s, w) /\ Width(c) = w /\ c # "Pcm"
    BY <1>3 DEF Sampled, Width, w
  <2> QED
    BY <2>2, <2>6, <2>7
<1> QED
  BY <1>2, <1>3

LEMMA PayloadParts ==
  ASSUME NEW c \in {"Pcm", "Opus"}, NEW f \in Seq(Samples)
  PROVE  /\ PayloadOf(c, f) \in Seq(Bytes) /\ Len(PayloadOf(c, f)) = Width(c) * Len(f)
         /\ \A i \in 1 .. Len(f), j \in 1 .. Width(c) :
              PayloadOf(c, f)[Width(c) * (i - 1) + j] = Sampled(c, f[i])[j]
<1> DEFINE n == Len(f)
           w == Width(c)
           ss == [i \in DOMAIN f |-> Sampled(c, f[i])]
<1>1. n \in Nat /\ DOMAIN f = 1 .. n /\ \A i \in 1 .. n : f[i] \in Samples
  OBVIOUS
<1>2. \A i \in 1 .. n : ss[i] = Sampled(c, f[i]) /\ ss[i] \in Seq(Bytes) /\ Len(ss[i]) = w
  BY <1>1, SampleSizes
<1>3. ss \in Seq(Seq(Bytes)) /\ Len(ss) = n
  <2>1. ss \in [1 .. n -> Seq(Bytes)]
    BY <1>1, <1>2
  <2> HIDE DEF ss
  <2> QED
    BY <1>1, <2>1
<1>4. w \in Nat
  BY DEF Width
<1>5. PayloadOf(c, f) = Flatten(ss)
  BY FlattenIs DEF PayloadOf
<1> HIDE DEF ss, w, n
<1>6. /\ Len(Flatten(ss)) = w * Len(ss)
      /\ \A i \in 1 .. Len(ss), j \in 1 .. w : Flatten(ss)[w * (i - 1) + j] = ss[i][j]
  <2>1. \A i \in 1 .. Len(ss) : Len(ss[i]) = w
    BY <1>2, <1>3
  <2> QED
    BY <1>3, <1>4, <2>1, FlattenUniform
<1>7. Flatten(ss) \in Seq(Bytes)
  BY <1>3, FlattenType
<1>8. ASSUME NEW i \in 1 .. n, NEW j \in 1 .. w
      PROVE  Flatten(ss)[w * (i - 1) + j] = Sampled(c, f[i])[j]
  BY <1>2, <1>3, <1>6
<1> QED
  BY <1>3, <1>5, <1>6, <1>7, <1>8 DEF w, n

(* Reading a payload gives what its samples are decoded to.                 *)
LEMMA PayloadRead ==
  ASSUME NEW c \in {"Pcm", "Opus"}, NEW f \in Seq(Samples), NEW h, h.codec = c
  PROVE  Decode([header |-> h, payload |-> PayloadOf(c, f)]) = DecodedOf(c, f)
<1> DEFINE n == Len(f)
           p == PayloadOf(c, f)
<1>1. n \in Nat /\ f = [i \in 1 .. n |-> f[i]] /\ \A i \in 1 .. n : f[i] \in Samples
  OBVIOUS
<1>2. CASE c = "Pcm"
  <2>1. /\ Len(p) = 2 * n
        /\ \A i \in 1 .. n : /\ p[2 * (i - 1) + 1] = Sampled(c, f[i])[1]
                             /\ p[2 * (i - 1) + 2] = Sampled(c, f[i])[2]
    <3>1. Width(c) = 2
      BY <1>2 DEF Width
    <3> DEFINE w == 2
    <3>2. Width(c) = w /\ 1 \in 1 .. w /\ 2 \in 1 .. w
      BY <3>1
    <3> HIDE DEF w
    <3>3. /\ Len(p) = w * n
          /\ \A i \in 1 .. n, j \in 1 .. w : p[w * (i - 1) + j] = Sampled(c, f[i])[j]
      BY <3>2, PayloadParts
    <3>4. \A i \in 1 .. n : /\ p[w * (i - 1) + 1] = Sampled(c, f[i])[1]
                            /\ p[w * (i - 1) + 2] = Sampled(c, f[i])[2]
      BY <3>2, <3>3
    <3> QED
      BY <3>3, <3>4 DEF w
  <2> HIDE DEF p
  <2>2. Len(p) \div 2 = n
    <3>1. \A x \in Nat : (2 * x) \div 2 = x
      OBVIOUS
    <3> QED
      BY <1>1, <2>1, <3>1
  <2>3. ASSUME NEW i \in 1 .. n
        PROVE  Sample(p, i) = DecodedSample(c, f[i])
    <3>1. 2 * (i - 1) + 1 = 2 * i - 1 /\ 2 * (i - 1) + 2 = 2 * i
      BY <1>1
    <3>2. p[2 * i - 1] = Sampled(c, f[i])[1] /\ p[2 * i] = Sampled(c, f[i])[2]
      BY <2>1, <3>1
    <3>3. ReadBE(<<Sampled(c, f[i])[2], Sampled(c, f[i])[1]>>) = Word(f[i])
      BY <1>1, <1>2, SampleSizes
    <3> QED
      BY <1>2, <3>2, <3>3 DEF Sample, DecodedSample
  <2>4. Decode([header |-> h, payload |-> p]) = [i \in 1 .. n |-> Sample(p, i)]
    BY <1>2, <2>2 DEF Decode
  <2>5. [i \in 1 .. n |-> Sample(p, i)] = DecodedOf(c, f)
    BY <1>1, <2>3 DEF DecodedOf
  <2> QED
    BY <2>4, <2>5 DEF p
<1>3. CASE c = "Opus"
  <2>1. p \in Seq(Bytes) /\ Len(p) = n /\ \A i \in 1 .. n : p[i] = Sampled(c, f[i])[1]
    <3> DEFINE w == Width(c)
    <3>1. w = 1 /\ w \in Nat
      BY <1>3 DEF Width
    <3> HIDE DEF w
    <3>2. /\ p \in Seq(Bytes) /\ Len(p) = w * n
          /\ \A i \in 1 .. n, j \in 1 .. w : p[w * (i - 1) + j] = Sampled(c, f[i])[j]
      BY PayloadParts DEF w
    <3> HIDE DEF p
    <3>3. \A i \in 1 .. n : 1 \in 1 .. w /\ w * (i - 1) + 1 = i
      BY <1>1, <3>1
    <3>4. w * n = n
      <4>1. \A x \in Nat : 1 * x = x
        OBVIOUS
      <4> QED
        BY <1>1, <3>1, <4>1
    <3>5. \A i \in 1 .. n : p[i] = Sampled(c, f[i])[1]
      BY <3>2, <3>3
    <3> QED
      BY <3>2, <3>4, <3>5
  <2> HIDE DEF p
  <2>2. \A i \in 1 .. n : p[i] = DecodedSample(c, f[i])
    BY <1>1, <1>3, <2>1, SampleSizes DEF DecodedSample
  <2>3. p = [i \in 1 .. n |-> p[i]]
    BY <1>1, <2>1
  <2>4. p = DecodedOf(c, f)
    BY <1>1, <2>2, <2>3 DEF DecodedOf
  <2>5. Decode([header |-> h, payload |-> p]) = p
    BY <1>3 DEF Decode
  <2> QED
    BY <2>4, <2>5 DEF p
<1> QED
  BY <1>2, <1>3
-----------------------------------------------------------------------------
(* Datagrams.                                                               *)
LEMMA DatagramParts ==
  ASSUME NEW c \in {"Pcm", "Opus"}, NEW size \in Nat, NEW f \in Frames(size),
         NEW n \in 0 .. Values(SeqBytes) - 1, NEW t \in Nat
  PROVE  /\ HeaderOf(c, f, n, t) \in Headers
         /\ PayloadOf(c, f) \in Seq(Bytes)
         /\ Datagram(c, f, n, t) \in Seq(Bytes)
         /\ Len(Datagram(c, f, n, t)) = AUDIO_HEADER_LEN + Len(PayloadOf(c, f))
         /\ Len(PayloadOf(c, f)) = Width(c) * size
         /\ \A i \in 1 .. AUDIO_HEADER_LEN :
              Datagram(c, f, n, t)[i] = SerializeHeader(HeaderOf(c, f, n, t))[i]
         /\ \A i \in 1 .. Len(PayloadOf(c, f)) :
              Datagram(c, f, n, t)[AUDIO_HEADER_LEN + i] = PayloadOf(c, f)[i]
<1> DEFINE p == PayloadOf(c, f)
           h == HeaderOf(c, f, n, t)
           s == SerializeHeader(h)
           N == AUDIO_HEADER_LEN
<1>1. f \in Seq(Samples) /\ Len(f) = size
  BY DEF Frames
<1>2. p \in Seq(Bytes) /\ Len(p) = Width(c) * size /\ Len(p) \in Nat
  BY <1>1, PayloadParts
<1>3. h \in Headers
  BY <1>2 DEF HeaderOf, Headers
<1>4. s \in Seq(Bytes) /\ Len(s) = N /\ N \in Nat
  <2> HIDE DEF h
  <2> QED
    BY <1>3, HeaderParts, Constants
<1>5. Datagram(c, f, n, t) = s \o p
  BY DEF Datagram
<1> HIDE DEF p, h, s
<1>6. /\ s \o p \in Seq(Bytes) /\ Len(s \o p) = Len(s) + Len(p)
      /\ \A i \in 1 .. Len(s) + Len(p) : (s \o p)[i] = IF i <= Len(s) THEN s[i] ELSE p[i - Len(s)]
  <2>1. s \in Seq(Bytes) /\ p \in Seq(Bytes)
    BY <1>2, <1>4
  <2> QED
    BY ONLY <2>1, ConcatProperties
<1> DEFINE d == s \o p
<1>7. d \in Seq(Bytes) /\ Len(d) = N + Len(p)
  BY <1>4, <1>6
<1>8. ASSUME NEW i \in 1 .. N
      PROVE  d[i] = s[i]
  <2>1. i \in 1 .. Len(s) + Len(p) /\ i <= Len(s)
    BY <1>2, <1>4
  <2> QED
    BY <1>6, <2>1
<1>9. ASSUME NEW i \in 1 .. Len(p)
      PROVE  d[N + i] = p[i]
  <2>1. N + i \in 1 .. Len(s) + Len(p) /\ ~(N + i <= Len(s)) /\ (N + i) - Len(s) = i
    BY <1>2, <1>4
  <2> QED
    BY <1>6, <2>1
<1>10. Datagram(c, f, n, t) = d
  BY <1>5
<1> HIDE DEF d
<1> QED
  BY <1>2, <1>3, <1>7, <1>8, <1>9, <1>10 DEF p, h, s

(* What recv_from leaves of a datagram.                                     *)
LEMMA ReceivedIs ==
  ASSUME NEW d \in Seq(Bytes)
  PROVE  /\ Len(d) <= RecvBufLen => Received(d) = d
         /\ Len(d) > RecvBufLen => /\ Received(d) \in Seq(Bytes) /\ Len(Received(d)) = RecvBufLen
                                   /\ \A i \in 1 .. RecvBufLen : Received(d)[i] = d[i]
<1>1. RecvBufLen \in Nat /\ Len(d) \in Nat
  BY Constants
<1>2. CASE Len(d) <= RecvBufLen
  <2>1. Received(d) = SubSeq(d, 1, Len(d))
    BY <1>1, <1>2 DEF Received
  <2>2. SubSeq(d, 1, Len(d)) = d
    OBVIOUS
  <2>3. ~(Len(d) > RecvBufLen)
    BY <1>1, <1>2
  <2>4. Received(d) = d
    BY <2>1, <2>2
  <2> QED
    BY <2>3, <2>4, Zenon
<1>3. CASE Len(d) > RecvBufLen
  <2> DEFINE b == SubSeq(d, 1, RecvBufLen)
  <2>1. Received(d) = b
    BY <1>3 DEF Received
  <2>2. b \in Seq(Bytes) /\ Len(b) = RecvBufLen /\ \A i \in 1 .. RecvBufLen : b[i] = d[i]
    BY <1>1, <1>3
  <2>3. ~(Len(d) <= RecvBufLen)
    BY <1>1, <1>3
  <2> HIDE DEF b
  <2> QED
    BY <2>1, <2>2, <2>3, Zenon
<1> QED
  BY <1>1, <1>2, <1>3

(* A datagram that UDP carries is malformed if it does not fit into the     *)
(* receiver's buffer, and read as it was made if it does.                   *)
LEMMA DatagramRead ==
  ASSUME NEW c \in {"Pcm", "Opus"}, NEW size \in Nat, NEW f \in Frames(size),
         NEW n \in 0 .. Values(SeqBytes) - 1, NEW t \in Nat, NEW d, d = Datagram(c, f, n, t),
         Len(d) <= MaxDatagram
  PROVE  /\ Len(d) > RecvBufLen => IsError(Parse(Received(d)))
         /\ Len(d) <= RecvBufLen => /\ ~IsError(Parse(Received(d)))
                                    /\ Parse(Received(d)).header.seq = n
                                    /\ Decode(Parse(Received(d))) = DecodedOf(c, f)
<1> DEFINE p == PayloadOf(c, f)
           h == HeaderOf(c, f, n, t)
           N == AUDIO_HEADER_LEN
           b == Received(d)
           H == DeserializeHeader(b)
<1>1. /\ N \in Nat /\ RecvBufLen \in Nat /\ RecvBufLen >= N
      /\ MaxDatagram \in Nat /\ MaxDatagram < N + Values(LenBytes) /\ Values(LenBytes) \in Nat
  BY Constants
<1>2. /\ h \in Headers /\ p \in Seq(Bytes) /\ d \in Seq(Bytes) /\ Len(d) = N + Len(p)
      /\ \A i \in 1 .. N : d[i] = SerializeHeader(h)[i]
      /\ \A i \in 1 .. Len(p) : d[N + i] = p[i]
  <2>1. Datagram(c, f, n, t) \in Seq(Bytes)
    BY DatagramParts, Zenon
  <2>2. /\ HeaderOf(c, f, n, t) \in Headers /\ PayloadOf(c, f) \in Seq(Bytes)
    BY DatagramParts, Zenon
  <2>4. Len(Datagram(c, f, n, t)) = N + Len(PayloadOf(c, f))
    <3> HIDE DEF N
    <3>1. Len(Datagram(c, f, n, t)) = AUDIO_HEADER_LEN + Len(PayloadOf(c, f))
      BY DatagramParts
    <3> QED
      BY <3>1 DEF N
  <2>3. /\ \A i \in 1 .. N : Datagram(c, f, n, t)[i] = SerializeHeader(HeaderOf(c, f, n, t))[i]
        /\ \A i \in 1 .. Len(PayloadOf(c, f)) : Datagram(c, f, n, t)[N + i] = PayloadOf(c, f)[i]
    BY DatagramParts, Zenon
  <2> QED
    BY <2>1, <2>2, <2>3, <2>4, Zenon
<1>3. h.seq = n /\ h.payload_len = Len(p) /\ h.codec = c
  BY DEF HeaderOf
<1>4. Len(p) \in Nat /\ h.payload_len < Values(LenBytes)
  BY <1>1, <1>2, <1>3
<1> HIDE DEF p, h
<1>5. b \in Seq(Bytes) /\ Len(b) >= N /\ \A i \in 1 .. N : b[i] = d[i]
  <2>1. CASE Len(d) <= RecvBufLen
    BY <1>1, <1>2, <1>4, <2>1, ReceivedIs
  <2>2. CASE Len(d) > RecvBufLen
    <3>1. b \in Seq(Bytes) /\ Len(b) = RecvBufLen /\ \A i \in 1 .. RecvBufLen : b[i] = d[i]
      BY <1>2, <2>2, ReceivedIs
    <3> QED
      BY <1>1, <3>1
  <2> QED
    BY <1>1, <1>2, <1>4, <2>1, <2>2
<1>6. ~IsError(H) /\ H.seq = n /\ H.payload_len = Len(p) /\ H.codec = c
  <2>1. \A i \in 1 .. N : b[i] = SerializeHeader(h)[i]
    BY <1>2, <1>5
  <2> HIDE DEF b
  <2> QED
    BY <1>2, <1>3, <1>4, <1>5, <2>1, HeaderRead
<1> HIDE DEF H
<1>7. Parse(b) = IF Len(b) < N + H.payload_len THEN Error("PayloadLengthMismatch")
                 ELSE [header |-> H, payload |-> Slice(b, N, H.payload_len)]
  BY <1>6 DEF Parse, H
<1>8. CASE Len(d) > RecvBufLen
  <2>1. Len(b) < N + H.payload_len
    BY <1>1, <1>2, <1>4, <1>6, <1>8, ReceivedIs
  <2>2. Parse(b) = Error("PayloadLengthMismatch")
    BY <1>7, <2>1
  <2> QED
    BY <1>1, <1>2, <1>4, <1>8, <2>2 DEF IsError, Error
<1>9. CASE Len(d) <= RecvBufLen
  <2>1. b = d
    BY <1>2, <1>9, ReceivedIs
  <2>2. ~(Len(b) < N + H.payload_len)
    BY <1>1, <1>2, <1>4, <1>6, <2>1
  <2>3. Slice(d, N, Len(p)) = p
    <3>1. N + Len(p) <= Len(d)
      BY <1>1, <1>2, <1>4
    <3>2. SubSeq(d, N + 1, N + Len(p)) = p
      BY <1>1, <1>2, <3>1, PartAt
    <3> QED
      BY <3>2 DEF Slice
  <2>4. Parse(b) = [header |-> H, payload |-> p]
    BY <1>6, <1>7, <2>1, <2>2, <2>3
  <2>5. Decode(Parse(b)) = DecodedOf(c, f)
    <3>1. f \in Seq(Samples)
      BY DEF Frames
    <3>2. Decode([header |-> H, payload |-> PayloadOf(c, f)]) = DecodedOf(c, f)
      BY <1>6, <3>1, PayloadRead
    <3> QED
      BY <2>4, <3>2 DEF p
  <2>6. ~IsError(Parse(b)) /\ Parse(b).header = H
    BY <2>4 DEF IsError
  <2> QED
    BY <1>1, <1>2, <1>4, <1>6, <1>9, <2>5, <2>6
<1> QED
  BY <1>1, <1>2, <1>4, <1>8, <1>9

(* It does not fit exactly when the frames of this run are too large.       *)
LEMMA TooLarge ==
  ASSUME CaptureTypes, NEW f \in Frames(frameSize),
         NEW n \in 0 .. Values(SeqBytes) - 1, NEW t \in Nat
  PROVE  Len(Datagram(codec, f, n, t)) > RecvBufLen <=> Oversize
<1>1. codec \in {"Pcm", "Opus"} /\ frameSize \in Nat
  BY Constants DEF CaptureTypes
<1>2. Len(Datagram(codec, f, n, t)) = AUDIO_HEADER_LEN + Width(codec) * frameSize
  BY <1>1, DatagramParts
<1>3. Width(codec) * frameSize = frameSize * (IF codec = "Pcm" THEN 2 ELSE 1)
  BY <1>1 DEF Width
<1> QED
  BY <1>2, <1>3 DEF Oversize

(* The number of a frame.                                                   *)
LEMMA NumberedNext ==
  ASSUME NEW k \in Nat \ {0}
  PROVE  /\ Numbered(k) \in 0 .. Values(SeqBytes) - 1
         /\ (Numbered(k) + 1) % Values(SeqBytes) = Numbered(k + 1)
<1> DEFINE M == Values(SeqBytes)
           a == k - 1
           r == a % M
           q == (a + 1) % M
<1>1. M \in Nat \ {0} /\ a \in Nat /\ a + 1 = k
  BY Constants
<1> HIDE DEF M, a
<1>2. r \in 0 .. M - 1 /\ q \in 0 .. M - 1
  BY <1>1, DivMod
<1>3. (r + 1) % M = q
  <2>1. CASE M = 1
    BY <1>1, <1>2, <2>1
  <2>2. CASE M > 1
    <3>1. q - r \in {(a + 1) - a, (a + 1) - a - M}
      <4>1. a + 1 \in Nat /\ a <= a + 1 /\ (a + 1) - a < M
        BY <1>1, <2>2
      <4> QED
        BY <1>1, <4>1, ModNear
    <3>2. (a + 1) - a = 1
      BY <1>1
    <3>3. q = r + 1 \/ q = r + 1 - M
      BY <1>1, <1>2, <3>1, <3>2
    <3> HIDE DEF r, q
    <3>4. CASE r + 1 < M
      <4>1. q = r + 1
        BY <1>1, <1>2, <3>3, <3>4
      <4>2. (r + 1) % M = r + 1
        BY <1>1, <1>2, <3>4
      <4> QED
        BY <4>1, <4>2
    <3>5. CASE r + 1 = M
      <4>1. q = 0
        BY <1>1, <1>2, <3>3, <3>5
      <4>2. M % M = 0
        BY <1>1
      <4> QED
        BY <3>5, <4>1, <4>2
    <3> QED
      BY <1>1, <1>2, <3>4, <3>5
  <2> QED
    BY <1>1, <2>1, <2>2
<1>4. Numbered(k) = r /\ Numbered(k + 1) = q
  <2>1. (k + 1) - 1 = a + 1
    BY <1>1
  <2> QED
    BY <2>1 DEF Numbered, M, a
<1> QED
  BY <1>2, <1>3, <1>4 DEF M
-----------------------------------------------------------------------------
(* Steps of the sender.                                                     *)
LEMMA TypesInHand ==
  ASSUME CaptureTypes
  PROVE  /\ codec \in {"Pcm", "Opus"} /\ frameSize \in Nat \ {0} /\ captured \in Nat
         /\ captured <= MaxSamples /\ Len(frameBuffer) \in Nat /\ Len(encoded) \in Nat
         /\ Len(cut) \in Nat
<1>1. codec \in Codecs /\ frameSize \in FrameSizes /\ captured \in 0 .. MaxSamples
  BY DEF CaptureTypes
<1>2. /\ Codecs \subseteq {"Pcm", "Opus"} /\ FrameSizes \subseteq Nat \ {0} /\ MaxSamples \in Nat
  BY Constants
<1>3. Len(frameBuffer) \in Nat /\ Len(encoded) \in Nat /\ Len(cut) \in Nat
  BY DEF CaptureTypes
<1> QED
  BY <1>1, <1>2, <1>3

LEMMA CutOff ==
  ASSUME CaptureTypes, Len(frameBuffer) >= frameSize
  PROVE  /\ Frame \in Frames(frameSize) /\ Frame \in Seq(Samples)
         /\ SubSeq(frameBuffer, frameSize + 1, Len(frameBuffer)) \in Seq(Samples)
         /\ Frame \o SubSeq(frameBuffer, frameSize + 1, Len(frameBuffer)) = frameBuffer
<1> DEFINE b == frameBuffer
           z == frameSize
           a == SubSeq(b, 1, z)
           r == SubSeq(b, z + 1, Len(b))
<1>1. b \in Seq(Samples) /\ z \in Nat /\ Len(b) \in Nat /\ z <= Len(b)
  BY TypesInHand DEF CaptureTypes
<1>2. a \in Seq(Samples) /\ Len(a) = z /\ r \in Seq(Samples) /\ Len(r) = Len(b) - z
  BY <1>1
<1>3. a \o r = b
  <2>1. /\ \A i \in 1 .. z : a[i] = b[i]
        /\ \A i \in 1 .. Len(r) : r[i] = b[z + i]
    BY <1>1
  <2> HIDE DEF a, r
  <2>2. /\ a \o r \in Seq(Samples) /\ Len(a \o r) = Len(a) + Len(r)
        /\ \A i \in 1 .. Len(a) + Len(r) : (a \o r)[i] = IF i <= Len(a) THEN a[i] ELSE r[i - Len(a)]
    <3>1. a \in Seq(Samples) /\ r \in Seq(Samples)
      BY <1>2
    <3> QED
      BY ONLY <3>1, ConcatProperties
  <2>3. Len(a \o r) = Len(b)
    BY <1>1, <1>2, <2>2
  <2>4. ASSUME NEW i \in 1 .. Len(b)
        PROVE  (a \o r)[i] = b[i]
    <3>1. CASE i <= z
      <4>1. i \in 1 .. z /\ i <= Len(a) /\ i \in 1 .. Len(a) + Len(r)
        BY <1>1, <1>2, <3>1
      <4> QED
        BY <2>1, <2>2, <4>1
    <3>2. CASE i > z
      <4>1. i - z \in 1 .. Len(r) /\ z + (i - z) = i /\ ~(i <= Len(a)) /\ i \in 1 .. Len(a) + Len(r)
        BY <1>1, <1>2, <3>2
      <4>2. r[i - z] = b[i]
        BY <2>1, <4>1
      <4>3. (a \o r)[i] = r[i - Len(a)]
        BY <2>2, <4>1
      <4>4. i - Len(a) = i - z
        BY <1>2
      <4> QED
        BY <4>2, <4>3, <4>4
    <3>3. i <= z \/ i > z
      BY <1>1
    <3> QED
      BY <3>1, <3>2, <3>3, Zenon
  <2> QED
    BY <1>1, <2>2, <2>3, <2>4, SeqEqual
<1> QED
  BY <1>2, <1>3 DEF Frame, Frames

LEMMA ChunkType ==
  ASSUME CaptureTypes, NEW n \in ChunkSizes, captured + n <= MaxSamples
  PROVE  n \in Nat /\ Chunk(n) \in Seq(Samples) /\ Len(Chunk(n)) = n
         /\ \A i \in 1 .. n : Chunk(n)[i] = captured + i - 1
<1>1. n \in Nat /\ captured \in Nat /\ MaxSamples \in Nat
  BY Constants, TypesInHand
<1>2. \A i \in 1 .. n : captured + i - 1 \in Samples
  BY <1>1 DEF Samples
<1>3. Chunk(n) \in [1 .. n -> Samples] /\ \A i \in 1 .. n : Chunk(n)[i] = captured + i - 1
  BY <1>2 DEF Chunk
<1> HIDE DEF Chunk
<1> QED
  BY <1>1, <1>3

(* A frame that is encoded.                                                 *)
LEMMA EncodedFrame ==
  ASSUME SenderInv, NEW k \in DOMAIN encoded
  PROVE  /\ k \in Nat \ {0} /\ encoded[k] \in Frames(frameSize)
         /\ Numbered(k) \in 0 .. Values(SeqBytes) - 1
<1>1. k \in Nat \ {0} /\ encoded[k] \in Frames(frameSize)
  BY DEF SenderInv, CaptureTypes
<1> QED
  BY <1>1, NumberedNext

LEMMA MadeType ==
  ASSUME SenderInv, NEW d, Made(codec, encoded, d)
  PROVE  d \in Seq(Bytes) /\ d # << >>
<1>1. PICK k \in DOMAIN encoded, t \in Nat : d = Datagram(codec, encoded[k], Numbered(k), t)
  BY DEF Made
<1>2. /\ codec \in {"Pcm", "Opus"} /\ frameSize \in Nat
      /\ encoded[k] \in Frames(frameSize) /\ Numbered(k) \in 0 .. Values(SeqBytes) - 1
  BY EncodedFrame, TypesInHand DEF SenderInv
<1> DEFINE e == Datagram(codec, encoded[k], Numbered(k), t)
           p == PayloadOf(codec, encoded[k])
<1>3. e \in Seq(Bytes) /\ p \in Seq(Bytes)
  BY <1>2, DatagramParts, Zenon
<1>4. Len(e) = AUDIO_HEADER_LEN + Len(p)
  BY <1>2, DatagramParts
<1> HIDE DEF e, p
<1>5. AUDIO_HEADER_LEN \in Nat \ {0} /\ Len(p) \in Nat
  BY <1>3, Constants
<1>6. e # << >>
  BY <1>3, <1>4, <1>5
<1> QED
  BY <1>1, <1>3, <1>6 DEF e

(* What packet_buffer holds.                                                *)
LEMMA MadeInHand ==
  ASSUME SenderInv
  PROVE  Sending => Made(codec, encoded, packetBuffer)
<1> SUFFICES ASSUME Sending PROVE Made(codec, encoded, packetBuffer)
  OBVIOUS
<1> DEFINE k == Len(encoded)
<1>1. k \in DOMAIN encoded /\ Len(cut) \in Nat
  BY TypesInHand DEF SenderInv, InHand, CaptureTypes
<1>2. packetBuffer = Datagram(codec, encoded[k], Numbered(k), Len(cut))
  BY DEF SenderInv, InHand, Numbering
<1> QED
  BY <1>1, <1>2 DEF Made

(* Steps that leave the loop and the network alone.                         *)
LoopSame == UNCHANGED <<codec, frameSize, loop, net>>

LEMMA SameLoop ==
  ASSUME SenderInv, LoopSame
  PROVE  InHand' /\ Numbering' /\ InFlight'
<1>1. InHand'
  BY DEF SenderInv, LoopSame, loop, InHand, Sending, Frame
<1>2. Numbering'
  BY DEF SenderInv, LoopSame, loop, Numbering, Sending
<1>3. InFlight'
  BY DEF SenderInv, LoopSame, loop, InFlight, Made
<1> QED
  BY <1>1, <1>2, <1>3

LEMMA CaptureStep ==
  ASSUME SenderInv, NEW n \in ChunkSizes, Capture(n)
  PROVE  SenderInv'
<1>1. LoopSame
  BY DEF Capture, LoopSame
<1>2. /\ captured + n <= MaxSamples /\ n \in Nat /\ Chunk(n) \in Seq(Samples)
      /\ captured \in Nat /\ MaxSamples \in Nat /\ CaptureTypes
      /\ Range(Chunk(n)) \subseteq 0 .. captured + n - 1
  <2>1. captured + n <= MaxSamples /\ CaptureTypes
    BY DEF Capture, SenderInv
  <2>2. /\ n \in Nat /\ Chunk(n) \in Seq(Samples) /\ Len(Chunk(n)) = n
        /\ \A i \in 1 .. n : Chunk(n)[i] = captured + i - 1
    BY <2>1, ChunkType
  <2>3. captured \in Nat
    BY <2>1, TypesInHand
  <2>4. ASSUME NEW x \in Range(Chunk(n)) PROVE x \in 0 .. captured + n - 1
    <3>1. PICK i \in 1 .. n : x = Chunk(n)[i]
      BY <2>2 DEF Range
    <3>2. x = captured + i - 1
      BY <2>2, <3>1
    <3> QED
      BY <2>2, <2>3, <3>2
  <2> QED
    BY <2>1, <2>2, <2>3, <2>4, Constants
<1>3. CaptureTypes'
  <2>1. /\ captured' \in 0 .. MaxSamples /\ UNCHANGED <<codec, frameSize, loop>>
    BY <1>2 DEF Capture
  <2>2. /\ codec' \in Codecs /\ frameSize' \in FrameSizes
        /\ frameBuffer' \in Seq(Samples) /\ cut' \in Seq(Samples)
        /\ encoded' \in Seq(Frames(frameSize')) /\ failures' \in Nat
    BY <1>2, <2>1 DEF CaptureTypes, loop
  <2>3. channel' \in Seq(Seq(Samples)) /\ Len(channel') <= Capacity
    <3>1. \/ Len(channel) < Capacity /\ channel' = Append(channel, Chunk(n))
          \/ Len(channel) = Capacity /\ channel' = channel
      BY DEF Capture
    <3>2. channel \in Seq(Seq(Samples)) /\ Chunk(n) \in Seq(Samples) /\ Capacity \in Nat
      BY <1>2, Constants DEF CaptureTypes
    <3>3. CASE Len(channel) < Capacity /\ channel' = Append(channel, Chunk(n))
      <4> DEFINE c == channel
                 x == Chunk(n)
      <4>1. /\ c \in Seq(Seq(Samples)) /\ x \in Seq(Samples) /\ Capacity \in Nat
            /\ Len(c) < Capacity
        BY <3>2, <3>3
      <4> HIDE DEF c, x
      <4>2. Append(c, x) \in Seq(Seq(Samples)) /\ Len(Append(c, x)) <= Capacity
        BY <4>1
      <4> QED
        BY <3>3, <4>2 DEF c, x
    <3>4. CASE Len(channel) = Capacity /\ channel' = channel
      BY <3>2, <3>4
    <3> QED
      BY <3>1, <3>3, <3>4
  <2>4. dropped' \subseteq 0 .. captured' - 1
    <3>1. 0 .. captured - 1 \subseteq 0 .. captured + n - 1 /\ captured' = captured + n
      BY <1>2 DEF Capture
    <3>2. dropped' = dropped \cup Range(Chunk(n)) \/ dropped' = dropped
      BY DEF Capture
    <3>3. dropped \subseteq 0 .. captured - 1 /\ Range(Chunk(n)) \subseteq 0 .. captured + n - 1
      BY <1>2 DEF CaptureTypes
    <3> DEFINE A == 0 .. captured - 1
               B == 0 .. captured + n - 1
               C == Range(Chunk(n))
    <3>4. A \subseteq B /\ dropped \subseteq A /\ C \subseteq B /\ B = 0 .. captured' - 1
      <4>1. dropped \subseteq A /\ C \subseteq B
        BY <3>3, Zenon
      <4>2. A \subseteq B
        BY <3>1, Zenon
      <4>3. B = 0 .. captured' - 1
        <5>1. captured' = captured + n /\ captured \in Nat /\ n \in Nat
          BY <1>2, <3>1
        <5> QED
          BY ONLY <5>1
      <4> QED
        BY <4>1, <4>2, <4>3, Zenon
    <3>5. dropped' = dropped \cup C \/ dropped' = dropped
      BY <3>2
    <3> HIDE DEF A, B, C
    <3>6. dropped' \subseteq B
      BY <3>4, <3>5
    <3> QED
      BY <3>4, <3>6
  <2> QED
    BY <2>1, <2>2, <2>3, <2>4 DEF CaptureTypes
<1> QED
  BY <1>1, <1>3, SameLoop DEF SenderInv

LEMMA RecvChunkStep ==
  ASSUME SenderInv, RecvChunk
  PROVE  SenderInv'
<1>1. CaptureTypes /\ ~Sending /\ channel # << >>
  BY DEF SenderInv, RecvChunk
<1>2. /\ Head(channel) \in Seq(Samples) /\ Tail(channel) \in Seq(Seq(Samples))
      /\ Len(Tail(channel)) <= Len(channel)
  BY <1>1 DEF CaptureTypes
<1>3. CaptureTypes'
  <2>1. UNCHANGED <<codec, frameSize, captured, dropped, cut, encoded, failures>>
    BY DEF RecvChunk, device
  <2>2. /\ frameBuffer' \in Seq(Samples)
    BY <1>1, <1>2 DEF CaptureTypes, RecvChunk
  <2>3. channel' \in Seq(Seq(Samples)) /\ Len(channel') <= Capacity
    BY <1>1, <1>2, Constants DEF CaptureTypes, RecvChunk
  <2> QED
    BY <1>1, <2>1, <2>2, <2>3 DEF CaptureTypes
<1>4. ~Sending' /\ UNCHANGED <<codec, packetBuffer, sequenceNumber, encoded, net>>
  BY <1>1 DEF RecvChunk, Sending
<1>5. InHand'
  BY <1>4 DEF InHand
<1>6. Numbering'
  BY <1>1, <1>4 DEF SenderInv, Numbering
<1>7. InFlight'
  BY <1>4 DEF SenderInv, InFlight, Made
<1> QED
  BY <1>3, <1>5, <1>6, <1>7 DEF SenderInv

(* A frame more does not change the datagrams of the others.                *)
LEMMA MadeStays ==
  ASSUME SenderInv, NEW f, encoded' = Append(encoded, f), codec' = codec, NEW d, Made(codec, encoded, d)
  PROVE  Made(codec', encoded', d)
<1>1. PICK k \in DOMAIN encoded, t \in Nat : d = Datagram(codec, encoded[k], Numbered(k), t)
  BY DEF Made
<1>2. k \in DOMAIN encoded' /\ encoded'[k] = encoded[k]
  BY DEF SenderInv, CaptureTypes
<1> QED
  BY <1>1, <1>2 DEF Made
LEMMA EncodeStep ==
  ASSUME SenderInv, Encode
  PROVE  SenderInv'
<1> DEFINE n == Len(encoded)
           d == Datagram(codec, Frame, sequenceNumber, Len(cut))
<1>1. /\ CaptureTypes /\ ~Sending /\ Len(frameBuffer) >= frameSize
      /\ packetBuffer' = EncodeFrame(Frame) /\ encoded' = Append(encoded, Frame)
      /\ UNCHANGED <<codec, frameSize, device, channel, frameBuffer, sequenceNumber, cut,
                     failures, net>>
  BY DEF SenderInv, Encode, Framing
<1>2. /\ Frame \in Frames(frameSize) /\ n \in Nat /\ encoded \in Seq(Frames(frameSize))
      /\ sequenceNumber = Numbered(n + 1)
  BY <1>1, CutOff, TypesInHand DEF SenderInv, Numbering, CaptureTypes
<1>3. EncodeFrame(Frame) = d
  BY DEF EncodeFrame, Datagram, HeaderOf, Payload, PayloadOf, SampleBytes, Sampled, Word
<1>4. /\ encoded' \in Seq(Frames(frameSize)) /\ Len(encoded') = n + 1
      /\ encoded'[n + 1] = Frame /\ encoded' # << >>
  <2> DEFINE e == encoded
             f == Frame
             F == Frames(frameSize)
  <2>1. e \in Seq(F) /\ f \in F
    BY <1>2
  <2> HIDE DEF e, f, F
  <2>2. /\ Append(e, f) \in Seq(F) /\ Len(Append(e, f)) = Len(e) + 1
        /\ Append(e, f)[Len(e) + 1] = f /\ Append(e, f) # << >>
    BY <2>1
  <2> QED
    BY <1>1, <2>2 DEF e, f, F
<1>5. CaptureTypes'
  BY <1>1, <1>4 DEF CaptureTypes, device
<1>6. UNCHANGED Frame
  BY <1>1 DEF Frame
<1>7. InHand'
  <2>1. Len(encoded') = n + 1 /\ encoded'[Len(encoded')] = Frame'
    BY <1>4, <1>6
  <2>2. packetBuffer' = Datagram(codec', Frame', sequenceNumber', Len(cut'))
    BY <1>1, <1>3, <1>6
  <2> QED
    BY <1>1, <1>4, <2>1, <2>2 DEF InHand
<1>8. Numbering'
  <2>1. Sending'
    <3>1. /\ codec \in {"Pcm", "Opus"} /\ frameSize \in Nat /\ Len(cut) \in Nat
          /\ sequenceNumber \in 0 .. Values(SeqBytes) - 1
      <4>1. n + 1 \in Nat \ {0}
        BY <1>2
      <4> QED
        BY <1>1, <1>2, <4>1, NumberedNext, TypesInHand
    <3>2. d \in Seq(Bytes) /\ PayloadOf(codec, Frame) \in Seq(Bytes)
      BY <1>2, <3>1, DatagramParts, Zenon
    <3>3. Len(d) = AUDIO_HEADER_LEN + Len(PayloadOf(codec, Frame))
      BY <1>2, <3>1, DatagramParts
    <3> HIDE DEF d
    <3>4. d # << >>
      BY <3>2, <3>3, Constants
    <3> QED
      BY <1>1, <1>3, <3>4 DEF Sending
  <2>2. sequenceNumber' = Numbered(Len(encoded'))
    BY <1>1, <1>2, <1>4
  <2> QED
    BY <2>1, <2>2 DEF Numbering
<1>9. InFlight'
  <2>1. net' = net /\ codec' = codec
    BY <1>1
  <2>3. /\ net \in Seq(Seq(Bytes)) /\ Len(net) <= MaxInFlight
        /\ \A i \in DOMAIN net : net[i] \in Seq(Bytes) /\ Len(net[i]) <= MaxDatagram /\ Made(codec, encoded, net[i])
    BY DEF SenderInv, InFlight
  <2>4. \A i \in DOMAIN net : Made(codec', encoded', net[i])
    <3> TAKE i \in DOMAIN net
    <3> DEFINE x == net[i]
    <3>1. x \in Seq(Bytes) /\ Made(codec, encoded, x)
      BY <2>3
    <3> QED
      BY <1>1, <2>1, <2>3, MadeStays
  <2> QED
    BY <2>1, <2>3, <2>4 DEF InFlight
<1> QED
  BY <1>5, <1>7, <1>8, <1>9 DEF SenderInv
(* A frame leaves frame_buffer.                                             *)
LEMMA DrainStep ==
  ASSUME SenderInv, Len(frameBuffer) >= frameSize, Drain, failures' \in Nat,
         UNCHANGED <<codec, frameSize, device, channel, encoded>>
  PROVE  CaptureTypes'
<1>1. /\ CaptureTypes /\ Frame \in Seq(Samples)
      /\ SubSeq(frameBuffer, frameSize + 1, Len(frameBuffer)) \in Seq(Samples)
  BY CutOff DEF SenderInv
<1>2. frameBuffer' \in Seq(Samples) /\ cut' \in Seq(Samples)
  <2>1. cut \in Seq(Samples) /\ Frame \in Seq(Samples)
    BY <1>1 DEF CaptureTypes
  <2>2. cut \o Frame \in Seq(Samples)
    BY ONLY <2>1, ConcatProperties
  <2> QED
    BY <1>1, <2>2 DEF Drain
<1> QED
  BY <1>1, <1>2 DEF CaptureTypes, device

LEMMA EncodeFailsStep ==
  ASSUME SenderInv, EncodeFails
  PROVE  SenderInv'
<1>1. /\ CaptureTypes /\ ~Sending /\ Len(frameBuffer) >= frameSize /\ Drain
      /\ failures' = failures + 1
      /\ UNCHANGED <<codec, frameSize, device, channel, packetBuffer, sequenceNumber, encoded, net>>
  BY DEF SenderInv, EncodeFails, Framing
<1>2. CaptureTypes'
  <2>1. failures' \in Nat
    BY <1>1 DEF CaptureTypes
  <2> QED
    BY <1>1, <2>1, DrainStep
<1>3. ~Sending'
  BY <1>1 DEF Sending
<1>4. InHand'
  BY <1>3 DEF InHand
<1>5. Numbering'
  BY <1>1, <1>3 DEF SenderInv, Numbering
<1>6. InFlight'
  BY <1>1 DEF SenderInv, InFlight
<1> QED
  BY <1>2, <1>4, <1>5, <1>6 DEF SenderInv

LEMMA SentStep ==
  ASSUME SenderInv, Sending, Sent, failures' \in Nat,
         UNCHANGED <<codec, frameSize, device, channel, encoded>>
  PROVE  CaptureTypes' /\ InHand' /\ Numbering'
<1>1. Len(frameBuffer) >= frameSize /\ encoded # << >> /\ CaptureTypes
  BY DEF SenderInv, InHand
<1>2. CaptureTypes'
  BY <1>1, DrainStep DEF Sent
<1>3. ~Sending'
  BY DEF Sent, Sending
<1>4. Numbering'
  <2>1. Len(encoded) \in Nat \ {0}
    BY <1>1 DEF CaptureTypes
  <2>2. sequenceNumber' = (Numbered(Len(encoded)) + 1) % Values(SeqBytes)
    BY DEF SenderInv, Numbering, Sent
  <2>3. sequenceNumber' = Numbered(Len(encoded') + 1)
    BY <2>1, <2>2, NumberedNext
  <2> QED
    BY <1>3, <2>3 DEF Numbering
<1> QED
  BY <1>2, <1>3, <1>4 DEF InHand

LEMMA SendOkStep ==
  ASSUME SenderInv, SendOk
  PROVE  SenderInv'
<1>1. /\ Sending /\ Len(packetBuffer) <= MaxDatagram /\ Len(net) < MaxInFlight
      /\ net' = Append(net, packetBuffer) /\ Sent
      /\ UNCHANGED <<codec, frameSize, device, channel, encoded, failures>>
  BY DEF SendOk
<1>2. CaptureTypes' /\ InHand' /\ Numbering'
  <2>1. failures' \in Nat
    BY <1>1 DEF SenderInv, CaptureTypes
  <2> QED
    BY <1>1, <2>1, SentStep
<1>3. InFlight'
  <2> DEFINE p == packetBuffer
             M(d) == Made(codec, encoded, d)
  <2>1. p \in Seq(Bytes) /\ Len(p) <= MaxDatagram /\ M(p)
    BY <1>1, MadeInHand, MadeType
  <2>2. /\ net \in Seq(Seq(Bytes)) /\ Len(net) < MaxInFlight /\ MaxInFlight \in Nat
        /\ \A i \in DOMAIN net : Len(net[i]) <= MaxDatagram /\ M(net[i])
    BY <1>1, Constants DEF SenderInv, InFlight
  <2> DEFINE m == Append(net, p)
  <2> HIDE DEF p, M
  <2>3. /\ m \in Seq(Seq(Bytes)) /\ Len(m) = Len(net) + 1 /\ Len(net) \in Nat
        /\ \A i \in 1 .. Len(net) : m[i] = net[i]
        /\ m[Len(net) + 1] = p
    BY <2>1, <2>2
  <2> HIDE DEF m
  <2>4. ASSUME NEW i \in DOMAIN m
        PROVE  Len(m[i]) <= MaxDatagram /\ M(m[i])
    <3>1. CASE i \in 1 .. Len(net)
      BY <2>2, <2>3, <3>1
    <3>2. CASE i = Len(net) + 1
      BY <2>1, <2>3, <3>2
    <3> QED
      BY <2>3, <3>1, <3>2
  <2>5. net' = m /\ codec' = codec /\ encoded' = encoded
    BY <1>1 DEF m, p
  <2>6. Len(m) <= MaxInFlight
    BY <2>2, <2>3
  <2> QED
    BY <2>3, <2>4, <2>5, <2>6 DEF InFlight, M
<1> QED
  BY <1>2, <1>3 DEF SenderInv

LEMMA SendFailsStep ==
  ASSUME SenderInv, SendFails
  PROVE  SenderInv'
<1>1. /\ Sending /\ Sent /\ net' = net
      /\ UNCHANGED <<codec, frameSize, device, channel, encoded>>
  BY DEF SendFails
<1>2. CaptureTypes' /\ InHand' /\ Numbering'
  <2>1. failures' \in Nat
    BY DEF SendFails, SenderInv, CaptureTypes
  <2> QED
    BY <1>1, <2>1, SentStep
<1>3. InFlight'
  BY <1>1 DEF SenderInv, InFlight
<1> QED
  BY <1>2, <1>3 DEF SenderInv

LEMMA ReceiveStep ==
  ASSUME SenderInv, Receive
  PROVE  SenderInv'
<1>1. net # << >> /\ net' = Tail(net) /\ UNCHANGED <<codec, frameSize, device, channel, loop>>
  BY DEF Receive
<1>2. CaptureTypes'
  BY <1>1 DEF SenderInv, CaptureTypes, device, loop
<1>3. InHand'
  BY <1>1 DEF SenderInv, loop, InHand, Sending, Frame
<1>4. Numbering'
  BY <1>1 DEF SenderInv, loop, Numbering, Sending
<1>5. InFlight'
  <2> DEFINE M(d) == Len(d) <= MaxDatagram /\ Made(codec, encoded, d)
             m == Tail(net)
  <2>1. /\ net \in Seq(Seq(Bytes)) /\ Len(net) <= MaxInFlight /\ MaxInFlight \in Nat
        /\ \A i \in DOMAIN net : M(net[i])
    BY Constants DEF SenderInv, InFlight
  <2> HIDE DEF M
  <2>2. /\ m \in Seq(Seq(Bytes)) /\ Len(m) = Len(net) - 1 /\ DOMAIN m = 1 .. Len(net) - 1
        /\ \A i \in DOMAIN m : m[i] = net[i + 1] /\ i + 1 \in DOMAIN net
    BY <1>1, <2>1
  <2> HIDE DEF m
  <2>3. \A i \in DOMAIN m : M(m[i])
    BY <2>1, <2>2
  <2>4. Len(m) <= MaxInFlight
    BY <2>1, <2>2
  <2>5. net' = m /\ codec' = codec /\ encoded' = encoded
    BY <1>1 DEF m, loop
  <2> QED
    BY <2>2, <2>3, <2>4, <2>5 DEF InFlight, M
<1> QED
  BY <1>2, <1>3, <1>4, <1>5 DEF SenderInv

LEMMA SenderInit == Init => SenderInv
<1> SUFFICES ASSUME Init PROVE SenderInv
  OBVIOUS
<1>1. CaptureTypes
  <2>1. << >> \in Seq(Samples) /\ << >> \in Seq(Seq(Samples)) /\ << >> \in Seq(Frames(frameSize))
    BY EmptySeq
  <2>2. 0 \in 0 .. MaxSamples /\ Len(<< >>) <= Capacity /\ {} \subseteq 0 .. 0 - 1
    BY Constants
  <2> QED
    BY <2>1, <2>2 DEF Init, CaptureTypes
<1>2. ~Sending
  BY DEF Init, Sending
<1>3. InHand
  BY <1>2 DEF InHand
<1>4. Numbering
  <2>1. Values(SeqBytes) \in Nat \ {0}
    BY Constants
  <2>2. Numbered(0 + 1) = 0
    BY <2>1 DEF Numbered
  <2>3. sequenceNumber = 0 /\ Len(encoded) = 0
    BY DEF Init
  <2> QED
    BY <1>2, <2>2, <2>3 DEF Numbering
<1>5. InFlight
  BY Constants, EmptySeq DEF Init, InFlight
<1> QED
  BY <1>1, <1>3, <1>4, <1>5 DEF SenderInv

LEMMA SenderStep == SenderInv /\ [Next]_vars => SenderInv'
<1> SUFFICES ASSUME SenderInv, [Next]_vars PROVE SenderInv'
  OBVIOUS
<1>1. CASE UNCHANGED vars
  <2>1. LoopSame /\ UNCHANGED <<device, channel>>
    BY <1>1 DEF vars, LoopSame
  <2>2. CaptureTypes'
    BY <2>1 DEF SenderInv, CaptureTypes, LoopSame, loop, device
  <2> QED
    BY <2>1, <2>2, SameLoop DEF SenderInv
<1>2. CASE Next
  <2>1. \/ \E n \in ChunkSizes : Capture(n)
        \/ RecvChunk \/ Encode \/ EncodeFails \/ SendOk \/ SendFails \/ Receive
    BY <1>2 DEF Next, LoopNext
  <2> QED
    BY <2>1, CaptureStep, RecvChunkStep, EncodeStep, EncodeFailsStep, SendOkStep, SendFailsStep,
       ReceiveStep
<1> QED
  BY <1>1, <1>2

LEMMA SenderInvariance == Spec => []SenderInv
BY SenderInit, SenderStep, PTL DEF Spec
-----------------------------------------------------------------------------
(* What becomes of a datagram that arrives.                                 *)
LEMMA Arrival ==
  ASSUME SenderInv, Receive
  PROVE  \E k \in DOMAIN encoded :
           \/ Oversize /\ rejected' = rejected + 1 /\ arrived' = arrived
           \/ /\ ~Oversize /\ rejected' = rejected
              /\ arrived' = Append(arrived, [seq |-> Numbered(k), samples |-> DecodedOf(codec, encoded[k])])
<1> DEFINE d == Head(net)
           r == Parse(Received(d))
<1>1. Len(d) <= MaxDatagram /\ Made(codec, encoded, d)
  <2>1. net # << >> /\ net \in Seq(Seq(Bytes))
    BY DEF Receive, SenderInv, InFlight
  <2>2. 1 \in DOMAIN net /\ d = net[1]
    BY <2>1
  <2> QED
    BY <2>2 DEF SenderInv, InFlight
<1>2. PICK k \in DOMAIN encoded, t \in Nat : d = Datagram(codec, encoded[k], Numbered(k), t)
  BY <1>1 DEF Made
<1> DEFINE f == encoded[k]
           n == Numbered(k)
<1>3. /\ codec \in {"Pcm", "Opus"} /\ frameSize \in Nat /\ CaptureTypes
      /\ f \in Frames(frameSize) /\ n \in 0 .. Values(SeqBytes) - 1
  BY EncodedFrame, TypesInHand DEF SenderInv
<1>4. Len(d) > RecvBufLen <=> Oversize
  <2>1. Len(Datagram(codec, f, n, t)) > RecvBufLen <=> Oversize
    <3> HIDE DEF f, n
    <3> QED
      BY <1>3, TooLarge
  <2> QED
    BY <1>2, <2>1
<1>5. /\ Len(d) > RecvBufLen => IsError(r)
      /\ Len(d) <= RecvBufLen => ~IsError(r) /\ r.header.seq = n /\ Decode(r) = DecodedOf(codec, f)
  <2> HIDE DEF f, n, d
  <2>1. d = Datagram(codec, f, n, t)
    BY <1>2 DEF f, n
  <2> QED
    BY <1>1, <1>3, <2>1, DatagramRead
<1>6. Len(d) > RecvBufLen \/ Len(d) <= RecvBufLen
  <2>1. Made(codec, encoded, d)
    BY <1>1
  <2> HIDE DEF d
  <2>2. d \in Seq(Bytes)
    BY <2>1, MadeType
  <2> QED
    BY <2>2, Constants
<1>7. \/ IsError(r) /\ rejected' = rejected + 1 /\ arrived' = arrived
      \/ /\ ~IsError(r) /\ rejected' = rejected
         /\ arrived' = Append(arrived, [seq |-> r.header.seq, samples |-> Decode(r)])
  BY DEF Receive
<1> HIDE DEF d, r, f, n
<1>8. CASE Len(d) > RecvBufLen
  BY <1>4, <1>5, <1>7, <1>8, Zenon
<1>9. CASE Len(d) <= RecvBufLen
  <2>1. ~(Len(d) > RecvBufLen)
    <3>1. Made(codec, encoded, d)
      BY <1>1
    <3>2. d \in Seq(Bytes)
      BY <3>1, MadeType
    <3> QED
      BY <1>9, <3>2, Constants
  <2>2. /\ ~Oversize /\ rejected' = rejected
        /\ arrived' = Append(arrived, [seq |-> r.header.seq, samples |-> Decode(r)])
    BY <1>4, <1>5, <1>7, <1>9, <2>1, Zenon
  <2>3. [seq |-> r.header.seq, samples |-> Decode(r)] = [seq |-> n, samples |-> DecodedOf(codec, f)]
    BY <1>5, <1>9
  <2>4. arrived' = Append(arrived, [seq |-> n, samples |-> DecodedOf(codec, f)])
    BY <2>2, <2>3
  <2> QED
    BY <2>2, <2>4 DEF n, f
<1> QED
  BY <1>6, <1>8, <1>9

LEMMA DecodedType ==
  ASSUME NEW c \in {"Pcm", "Opus"}, NEW f \in Seq(Samples)
  PROVE  DecodedOf(c, f) \in Seq(Int)
<1>1. ASSUME NEW s \in Samples
      PROVE  DecodedSample(c, s) \in Int
  <2>1. Fine \in Int /\ ToI16(Float(s)) \in Int /\ AsI16(Word(s)) = ToI16(Float(s))
    BY Sounds, WordIs
  <2>2. \A a, b \in Int : a * b \in Int
    OBVIOUS
  <2>3. s % Base \in Int
    BY Constants
  <2> QED
    BY <2>1, <2>2, <2>3 DEF DecodedSample
<1>2. DecodedOf(c, f) \in [1 .. Len(f) -> Int]
  BY <1>1 DEF DecodedOf
<1> QED
  BY <1>2

LEMMA EndToEndStep ==
  ASSUME SenderInv, EndToEnd, [Next]_vars
  PROVE  EndToEnd'
<1> DEFINE Same == UNCHANGED <<codec, frameSize, reception>>
<1>1. ASSUME Same, \A k \in DOMAIN encoded : k \in DOMAIN encoded' /\ encoded'[k] = encoded[k]
      PROVE  EndToEnd'
  <2>1. Arrivals' /\ UnderstoodIfItFits'
    BY <1>1 DEF EndToEnd, Arrivals, UnderstoodIfItFits, Oversize, reception
  <2>2. DecodedAsEncoded'
    <3>1. arrived' = arrived /\ codec' = codec
      BY <1>1 DEF reception
    <3>2. ASSUME NEW a \in Range(arrived)
          PROVE  \E k \in DOMAIN encoded' : a.seq = Numbered(k) /\ a.samples = DecodedOf(codec, encoded'[k])
      <4>1. PICK k \in DOMAIN encoded : a.seq = Numbered(k) /\ a.samples = DecodedOf(codec, encoded[k])
        BY DEF EndToEnd, DecodedAsEncoded
      <4> QED
        BY <1>1, <4>1
    <3> QED
      BY <3>1, <3>2 DEF DecodedAsEncoded
  <2> QED
    BY <2>1, <2>2 DEF EndToEnd
<1>2. ASSUME UNCHANGED <<codec, frameSize, encoded, reception>>
      PROVE  EndToEnd'
  BY <1>1, <1>2
<1>3. CASE Encode
  <2>1. Same /\ encoded' = Append(encoded, Frame)
    BY <1>3 DEF Encode
  <2>2. \A k \in DOMAIN encoded : k \in DOMAIN encoded' /\ encoded'[k] = encoded[k]
    BY <2>1 DEF SenderInv, CaptureTypes
  <2> QED
    BY <1>1, <2>1, <2>2
<1>4. CASE Receive
  <2>1. PICK k \in DOMAIN encoded :
           \/ Oversize /\ rejected' = rejected + 1 /\ arrived' = arrived
           \/ /\ ~Oversize /\ rejected' = rejected
              /\ arrived' = Append(arrived, [seq |-> Numbered(k), samples |-> DecodedOf(codec, encoded[k])])
    BY <1>4, Arrival
  <2>2. UNCHANGED <<codec, frameSize, encoded>>
    BY <1>4 DEF Receive, loop
  <2>3. Oversize' <=> Oversize
    BY <2>2 DEF Oversize
  <2>4. /\ rejected \in Nat /\ arrived \in Seq(Packets) /\ DecodedAsEncoded
        /\ (rejected > 0 => Oversize) /\ (arrived # << >> => ~Oversize)
    BY DEF EndToEnd, Arrivals, UnderstoodIfItFits
  <2>5. CASE Oversize /\ rejected' = rejected + 1 /\ arrived' = arrived
    <3>1. Arrivals' /\ UnderstoodIfItFits'
      BY <2>3, <2>4, <2>5 DEF Arrivals, UnderstoodIfItFits
    <3>2. DecodedAsEncoded'
      BY <2>2, <2>4, <2>5 DEF DecodedAsEncoded
    <3> QED
      BY <3>1, <3>2 DEF EndToEnd
  <2>6. CASE /\ ~Oversize /\ rejected' = rejected
             /\ arrived' = Append(arrived, [seq |-> Numbered(k), samples |-> DecodedOf(codec, encoded[k])])
    <3> DEFINE x == [seq |-> Numbered(k), samples |-> DecodedOf(codec, encoded[k])]
               b == Append(arrived, x)
    <3>1. x \in Packets /\ x.seq = Numbered(k) /\ x.samples = DecodedOf(codec, encoded[k])
      <4>1. /\ encoded[k] \in Frames(frameSize) /\ Numbered(k) \in 0 .. Values(SeqBytes) - 1
        BY EncodedFrame
      <4>2. DecodedOf(codec, encoded[k]) \in Seq(Int)
        BY <4>1, DecodedType, TypesInHand DEF SenderInv, Frames
      <4> QED
        BY <4>1, <4>2, Constants DEF Packets
    <3> HIDE DEF x
    <3>2. /\ b \in Seq(Packets)
          /\ DOMAIN b = 1 .. Len(arrived) + 1 /\ b[Len(arrived) + 1] = x
          /\ \A i \in 1 .. Len(arrived) : b[i] = arrived[i] /\ i \in DOMAIN arrived
      BY <2>4, <3>1
    <3> HIDE DEF b
    <3>3. arrived' = b
      BY <2>6 DEF b, x
    <3>4. Arrivals' /\ UnderstoodIfItFits'
      BY <2>3, <2>4, <2>6, <3>2, <3>3 DEF Arrivals, UnderstoodIfItFits
    <3>5. ASSUME NEW a \in Range(b)
          PROVE  \E l \in DOMAIN encoded : a.seq = Numbered(l) /\ a.samples = DecodedOf(codec, encoded[l])
      <4>1. PICK i \in DOMAIN b : a = b[i]
        BY DEF Range
      <4>2. CASE i \in 1 .. Len(arrived)
        <5>1. a \in Range(arrived)
          BY <3>2, <4>1, <4>2 DEF Range
        <5> QED
          BY <2>4, <5>1 DEF DecodedAsEncoded
      <4>3. CASE i = Len(arrived) + 1
        BY <3>1, <3>2, <4>1, <4>3
      <4>4. i \in 1 .. Len(arrived) \/ i = Len(arrived) + 1
        BY <2>4, <3>2
      <4> QED
        BY <4>2, <4>3, <4>4
    <3>6. DecodedAsEncoded'
      BY <2>2, <3>3, <3>5 DEF DecodedAsEncoded
    <3> QED
      BY <3>4, <3>6 DEF EndToEnd
  <2> QED
    BY <2>1, <2>5, <2>6
<1>5. CASE \/ \E n \in ChunkSizes : Capture(n)
           \/ RecvChunk \/ EncodeFails \/ SendOk \/ SendFails \/ UNCHANGED vars
  <2>1. UNCHANGED <<codec, frameSize, encoded, reception>>
    BY <1>5 DEF Capture, RecvChunk, EncodeFails, SendOk, SendFails, vars, loop
  <2> QED
    BY <1>2, <2>1
<1> QED
  BY <1>3, <1>4, <1>5 DEF Next, LoopNext

LEMMA EndToEndInvariance == Spec => []EndToEnd
<1>1. Init => EndToEnd
  <2> SUFFICES ASSUME Init PROVE EndToEnd
    OBVIOUS
  <2>1. arrived = << >> /\ rejected = 0
    BY DEF Init
  <2>2. Range(arrived) = {}
    BY <2>1 DEF Range
  <2>3. arrived \in Seq(Packets)
    BY <2>1, EmptySeq
  <2> QED
    BY <2>1, <2>2, <2>3 DEF EndToEnd, Arrivals, DecodedAsEncoded, UnderstoodIfItFits
<1>2. SenderInv /\ EndToEnd /\ [Next]_vars => EndToEnd'
  BY EndToEndStep
<1> QED
  BY <1>1, <1>2, SenderInvariance, PTL DEF Spec

(* A float device's samples are heard to a step of the 16-bit format.       *)
LEMMA HeardFloats ==
  ASSUME Format = "F32", NEW c \in {"Pcm", "Opus"}, NEW f \in Seq(Samples)
  PROVE  HeardAs(c, f, DecodedOf(c, f))
<1> DEFINE g == DecodedOf(c, f)
<1>1. Len(g) = Len(f) /\ \A i \in DOMAIN f : g[i] = DecodedSample(c, f[i]) /\ f[i] \in Samples
  BY DEF DecodedOf
<1> HIDE DEF g
<1>2. ASSUME c = "Pcm", NEW s \in Samples
      PROVE  DecodedSample(c, s) - Level(s) \in -Fine .. Fine
  <2> DEFINE x == Float(s)
             y == Clamped(x)
             z == Truncated(y)
  <2>1. /\ Fine \in Nat \ {0} /\ One \in Nat /\ NaN \notin Int /\ x \in Int \cup {NaN}
    BY Sounds
  <2>2. y \in (-One .. One) \cup {NaN}
    BY ClampedIs, <2>1
  <2>3. /\ z \in Int
        /\ y = NaN => z = 0
        /\ y # NaN => y - Fine * z \in -Fine .. Fine
    <3> HIDE DEF y
    <3> QED
      BY <2>2, TruncatedIs, Sounds
  <2>4. DecodedSample(c, s) = Fine * z
    BY <1>2, WordIs DEF DecodedSample, ToI16
  <2>5. Level(s) = IF x = NaN THEN 0 ELSE y
    BY DEF Level, Float
  <2>6. x = NaN <=> y = NaN
    BY <2>1 DEF Clamped
  <2> HIDE DEF x, y, z
  <2>7. Fine * z \in Int
    BY <2>1, <2>3
  <2>8. CASE y = NaN
    <3>1. Fine * 0 = 0
      BY <2>1
    <3> QED
      BY <2>1, <2>3, <2>4, <2>5, <2>6, <2>8, <3>1
  <2>9. CASE y # NaN
    BY <2>1, <2>2, <2>3, <2>4, <2>5, <2>6, <2>7, <2>9
  <2> QED
    BY <2>8, <2>9
<1>3. CASE c = "Pcm"
  BY <1>1, <1>2, <1>3 DEF HeardAs, g
<1>4. CASE c = "Opus"
  BY <1>1, <1>4 DEF HeardAs, DecodedSample, g
<1> QED
  BY <1>3, <1>4

(* A device that delivers floats.                                           *)
FloatDevice == Format = "F32"

(* Whatever a datagram went through on its way, and whatever floats the     *)
(* device delivered, the samples that the receiver decodes are the sound of *)
(* a frame that was cut, under its own number.                              *)
THEOREM NothingMisread == ASSUME FloatDevice PROVE Spec => []NeverMisread
<1>1. SenderInv /\ EndToEnd => NeverMisread
  <2> SUFFICES ASSUME SenderInv, EndToEnd, NEW a \in Range(arrived)
               PROVE  \E k \in DOMAIN encoded : a.seq = Numbered(k) /\ HeardAs(codec, encoded[k], a.samples)
    BY DEF NeverMisread
  <2>1. PICK k \in DOMAIN encoded : a.seq = Numbered(k) /\ a.samples = DecodedOf(codec, encoded[k])
    BY DEF EndToEnd, DecodedAsEncoded
  <2>2. codec \in {"Pcm", "Opus"} /\ encoded[k] \in Seq(Samples)
    BY EncodedFrame, TypesInHand DEF SenderInv, Frames
  <2>3. HeardAs(codec, encoded[k], DecodedOf(codec, encoded[k]))
    BY <2>2, HeardFloats DEF FloatDevice
  <2> QED
    BY <2>1, <2>3
<1> QED
  BY <1>1, SenderInvariance, EndToEndInvariance, PTL

(* Either every datagram that arrives is understood or none is, and which   *)
(* of the two the size of the frames alone decides.                         *)
THEOREM AllOrNothing == Spec => []UnderstoodIfItFits
<1>1. EndToEnd => UnderstoodIfItFits
  BY DEF EndToEnd
<1> QED
  BY <1>1, EndToEndInvariance, PTL
-----------------------------------------------------------------------------
(* Samples are conserved: every step moves them along, from the end of one  *)
(* buffer to the beginning of the next, or says which are dropped.          *)
Kept(n, D) == [i \in 1 .. n |-> IF i - 1 \in D THEN << >> ELSE <<i - 1>>]

LEMMA Assoc ==
  /\ \A a, b, c \in Seq(Samples) : (a \o b) \o c = a \o (b \o c)
  /\ \A a, b \in Seq(Samples) : a \o b \in Seq(Samples)
BY ConcatAssociative, ConcatProperties

LEMMA KeptType ==
  ASSUME NEW n \in Nat, n <= MaxSamples, NEW D
  PROVE  /\ Kept(n, D) \in Seq(Seq(Samples)) /\ Len(Kept(n, D)) = n
         /\ \A i \in 1 .. n : Kept(n, D)[i] = IF i - 1 \in D THEN << >> ELSE <<i - 1>>
<1>1. ASSUME NEW i \in 1 .. n
      PROVE  (IF i - 1 \in D THEN << >> ELSE <<i - 1>>) \in Seq(Samples)
  <2>1. i - 1 \in Samples
    BY Constants DEF Samples
  <2> QED
    BY <2>1
<1>2. Kept(n, D) \in [1 .. n -> Seq(Samples)]
  BY <1>1 DEF Kept
<1>3. \A i \in 1 .. n : Kept(n, D)[i] = IF i - 1 \in D THEN << >> ELSE <<i - 1>>
  BY DEF Kept
<1> HIDE DEF Kept
<1> QED
  BY <1>2, <1>3

(* Samples more that the device delivers.                                   *)
Agree(D, E, m)    == \A i \in 1 .. m : i - 1 \in D <=> i - 1 \in E
Adds(tt, m, n, E) ==
  \A i \in 1 .. n : tt[i] = IF m + i - 1 \in E THEN << >> ELSE <<m + i - 1>>

LEMMA KeptMore ==
  ASSUME NEW m \in Nat, NEW n \in Nat, m + n <= MaxSamples, NEW D, NEW E,
         NEW tt \in Seq(Seq(Samples)), Len(tt) = n, Agree(D, E, m), Adds(tt, m, n, E)
  PROVE  Flatten(Kept(m + n, E)) = Flatten(Kept(m, D)) \o Flatten(tt)
<1> DEFINE ss == Kept(m, D)
           uu == Kept(m + n, E)
<1>1. /\ ss \in Seq(Seq(Samples)) /\ Len(ss) = m
      /\ \A i \in 1 .. m : ss[i] = IF i - 1 \in D THEN << >> ELSE <<i - 1>>
  <2>1. m <= MaxSamples
    BY Constants
  <2> QED
    BY <2>1, KeptType
<1>2. /\ uu \in Seq(Seq(Samples)) /\ Len(uu) = m + n
      /\ \A i \in 1 .. m + n : uu[i] = IF i - 1 \in E THEN << >> ELSE <<i - 1>>
  <2>1. m + n \in Nat
    OBVIOUS
  <2> QED
    BY <2>1, KeptType
<1> HIDE DEF ss, uu
<1>3. /\ ss \o tt \in Seq(Seq(Samples)) /\ Len(ss \o tt) = m + n
      /\ \A i \in 1 .. m + n : (ss \o tt)[i] = IF i <= m THEN ss[i] ELSE tt[i - m]
  <2>1. ss \in Seq(Seq(Samples)) /\ tt \in Seq(Seq(Samples)) /\ Len(ss) = m /\ Len(tt) = n
    BY <1>1
  <2> QED
    BY ONLY <2>1, ConcatProperties
<1>4. ASSUME NEW i \in 1 .. m + n
      PROVE  uu[i] = (ss \o tt)[i]
  <2>1. CASE i <= m
    <3>1. i \in 1 .. m
      BY <2>1
    <3> QED
      BY <1>1, <1>2, <1>3, <2>1, <3>1 DEF Agree
  <2>2. CASE i > m
    <3>1. i - m \in 1 .. n /\ ~(i <= m) /\ m + (i - m) - 1 = i - 1
      BY <2>2
    <3>2. tt[i - m] = IF i - 1 \in E THEN << >> ELSE <<i - 1>>
      BY <3>1 DEF Adds
    <3> QED
      BY <1>2, <1>3, <3>1, <3>2
  <2>3. i <= m \/ i > m
    OBVIOUS
  <2> QED
    BY <2>1, <2>2, <2>3
<1>5. uu = ss \o tt
  BY <1>2, <1>3, <1>4, SeqEqual
<1>6. Flatten(ss \o tt) = Flatten(ss) \o Flatten(tt)
  BY <1>1, FlattenConcat
<1> QED
  BY <1>5, <1>6 DEF ss, uu

LEMMA ConservedIs ==
  SamplesConserved <=> (cut \o frameBuffer) \o Flatten(channel) = Flatten(Kept(captured, dropped))
BY FlattenIs DEF SamplesConserved, Kept

LEMMA CaptureConserves ==
  ASSUME SenderInv, SamplesConserved, NEW n \in ChunkSizes, Capture(n)
  PROVE  SamplesConserved'
<1> DEFINE m == captured
           c == Chunk(n)
           a == cut \o frameBuffer
           b == Flatten(channel)
           k == Flatten(Kept(m, dropped))
<1>1. /\ CaptureTypes /\ m + n <= MaxSamples /\ captured' = m + n
      /\ cut' = cut /\ frameBuffer' = frameBuffer
  BY DEF SenderInv, Capture, loop
<1>2. /\ m \in Nat /\ n \in Nat /\ c \in Seq(Samples) /\ Len(c) = n
      /\ \A i \in 1 .. n : c[i] = m + i - 1
  BY <1>1, ChunkType, TypesInHand
<1>3. /\ channel \in Seq(Seq(Samples)) /\ cut \in Seq(Samples) /\ frameBuffer \in Seq(Samples)
      /\ dropped \subseteq 0 .. m - 1
  BY <1>1 DEF CaptureTypes
<1>4. a \in Seq(Samples) /\ b \in Seq(Samples)
  BY <1>3, Assoc, FlattenType
<1>5. a \o b = k
  BY ConservedIs
<1>6. \A i \in 1 .. n : m + i - 1 \notin dropped
  BY <1>2, <1>3
<1>7. CASE Len(channel) < Capacity /\ channel' = Append(channel, c) /\ dropped' = dropped
  <2> DEFINE tt == [i \in 1 .. Len(c) |-> <<c[i]>>]
  <2>1. Flatten(tt) = c
    BY <1>2, FlattenSingletons
  <2>2. tt \in Seq(Seq(Samples)) /\ Len(tt) = n /\ \A i \in 1 .. n : tt[i] = <<c[i]>>
    <3> HIDE DEF c
    <3>1. tt \in [1 .. n -> Seq(Samples)]
      BY <1>2
    <3>2. \A i \in 1 .. n : tt[i] = <<c[i]>>
      BY <1>2
    <3> HIDE DEF tt
    <3> QED
      BY <1>2, <3>1, <3>2
  <2> HIDE DEF tt, c
  <2>3. \A i \in 1 .. n : tt[i] = IF m + i - 1 \in dropped THEN << >> ELSE <<m + i - 1>>
    BY <1>2, <1>6, <2>2
  <2>4. Flatten(Kept(m + n, dropped)) = k \o Flatten(tt)
    <3>1. Adds(tt, m, n, dropped) /\ Agree(dropped, dropped, m)
      BY <2>3 DEF Adds, Agree
    <3> QED
      BY <1>1, <1>2, <2>2, <3>1, KeptMore
  <2>5. Flatten(channel') = b \o c
    BY <1>2, <1>3, <1>7, FlattenAppend
  <2>6. a \o (b \o c) = (a \o b) \o c
    <3> HIDE DEF a, b
    <3> QED
      BY <1>2, <1>4, Assoc
  <2>7. (cut' \o frameBuffer') \o Flatten(channel') = Flatten(Kept(captured', dropped'))
    <3>1. (cut' \o frameBuffer') \o Flatten(channel') = a \o (b \o c)
      BY <1>1, <2>5
    <3>2. Flatten(Kept(captured', dropped')) = k \o c
      BY <1>1, <1>7, <2>1, <2>4
    <3> HIDE DEF a, b, k
    <3> QED
      BY <1>5, <2>6, <3>1, <3>2
  <2> QED
    BY <2>7, FlattenIs DEF SamplesConserved, Kept
<1>8. CASE Len(channel) = Capacity /\ dropped' = dropped \cup Range(c) /\ channel' = channel
  <2> DEFINE tt == [i \in 1 .. n |-> << >>]
  <2>1. Flatten(tt) = << >>
    BY <1>2, FlattenEmpties
  <2>2. tt \in Seq(Seq(Samples)) /\ Len(tt) = n /\ \A i \in 1 .. n : tt[i] = << >>
    <3>1. tt \in [1 .. n -> Seq(Samples)]
      BY EmptySeq
    <3>2. \A i \in 1 .. n : tt[i] = << >>
      OBVIOUS
    <3> HIDE DEF tt
    <3> QED
      BY <1>2, <3>1, <3>2
  <2> HIDE DEF tt, c
  <2>3. \A i \in 1 .. n : m + i - 1 \in dropped'
    <3> TAKE i \in 1 .. n
    <3>1. i \in DOMAIN c /\ c[i] = m + i - 1
      BY <1>2
    <3>2. c[i] \in Range(c)
      BY <3>1 DEF Range
    <3> QED
      BY <1>8, <3>1, <3>2
  <2>4. ASSUME NEW i \in 1 .. m
        PROVE  i - 1 \in dropped <=> i - 1 \in dropped'
    <3>1. i - 1 \notin Range(c)
      <4> SUFFICES ASSUME i - 1 \in Range(c) PROVE FALSE
        OBVIOUS
      <4>1. PICK j \in DOMAIN c : i - 1 = c[j]
        BY DEF Range
      <4>2. j \in 1 .. n
        BY <1>2
      <4> QED
        BY <1>2, <4>1, <4>2
    <3> QED
      BY <1>8, <3>1
  <2>5. Flatten(Kept(m + n, dropped')) = k \o Flatten(tt)
    <3>1. Adds(tt, m, n, dropped') /\ Agree(dropped, dropped', m)
      BY <2>2, <2>3, <2>4 DEF Adds, Agree
    <3> QED
      BY <1>1, <1>2, <2>2, <3>1, KeptMore
  <2>6. k \o << >> = k
    <3>1. m <= MaxSamples
      BY <1>1, <1>2, Constants
    <3>2. k \in Seq(Samples)
      BY <1>2, <3>1, KeptType, FlattenType
    <3> HIDE DEF k
    <3> QED
      BY <3>2
  <2>7. (cut' \o frameBuffer') \o Flatten(channel') = Flatten(Kept(captured', dropped'))
    <3>1. (cut' \o frameBuffer') \o Flatten(channel') = a \o b
      BY <1>1, <1>8
    <3>2. Flatten(Kept(captured', dropped')) = k
      BY <1>1, <2>1, <2>5, <2>6
    <3> HIDE DEF a, b, k
    <3> QED
      BY <1>5, <3>1, <3>2
  <2> QED
    BY <2>7, FlattenIs DEF SamplesConserved, Kept
<1> QED
  BY <1>7, <1>8 DEF Capture

LEMMA RecvChunkConserves ==
  ASSUME SenderInv, SamplesConserved, RecvChunk
  PROVE  SamplesConserved'
<1> DEFINE a == cut
           b == frameBuffer
           h == Head(channel)
           t == Flatten(Tail(channel))
<1>1. /\ channel \in Seq(Seq(Samples)) /\ channel # << >>
      /\ a \in Seq(Samples) /\ b \in Seq(Samples)
      /\ cut' = a /\ frameBuffer' = b \o h /\ channel' = Tail(channel)
      /\ captured' = captured /\ dropped' = dropped
  BY DEF SenderInv, CaptureTypes, RecvChunk, device
<1>2. h \in Seq(Samples) /\ t \in Seq(Samples) /\ Flatten(channel) = h \o t
  <2>1. h \in Seq(Samples) /\ Tail(channel) \in Seq(Seq(Samples))
    BY <1>1
  <2> QED
    BY <1>1, <2>1, FlattenType, FlattenHead
<1>3. (a \o b) \o (h \o t) = Flatten(Kept(captured, dropped))
  BY <1>2, ConservedIs
<1>4. (cut' \o frameBuffer') \o Flatten(channel') = (a \o (b \o h)) \o t
  BY <1>1
<1> HIDE DEF a, b, h, t
<1>5. (a \o (b \o h)) \o t = (a \o b) \o (h \o t)
  <2>1. a \o b \in Seq(Samples) /\ a \o (b \o h) = (a \o b) \o h
    BY <1>1, <1>2, Assoc
  <2>2. ((a \o b) \o h) \o t = (a \o b) \o (h \o t)
    BY <1>2, <2>1, Assoc
  <2> QED
    BY <2>1, <2>2
<1> QED
  BY <1>1, <1>3, <1>4, <1>5, FlattenIs DEF SamplesConserved, Kept

LEMMA DrainConserves ==
  ASSUME SenderInv, SamplesConserved, Drain, Len(frameBuffer) >= frameSize,
         UNCHANGED <<device, channel>>
  PROVE  SamplesConserved'
<1> DEFINE a == cut
           f == Frame
           r == SubSeq(frameBuffer, frameSize + 1, Len(frameBuffer))
<1>1. /\ a \in Seq(Samples) /\ f \in Seq(Samples) /\ r \in Seq(Samples) /\ f \o r = frameBuffer
      /\ cut' = a \o f /\ frameBuffer' = r /\ UNCHANGED <<captured, dropped, channel>>
  BY CutOff DEF SenderInv, CaptureTypes, Drain, device
<1>2. a \o frameBuffer = cut' \o frameBuffer'
  <2> HIDE DEF a, f, r
  <2> QED
    BY <1>1, Assoc
<1> QED
  BY <1>1, <1>2 DEF SamplesConserved

(* Every sample that the device delivered is in a frame that was cut, on    *)
(* its way there, or dropped with its chunk: none twice and none out of     *)
(* order.                                                                   *)
THEOREM NothingLost == Spec => []SamplesConserved
<1>1. Init => SamplesConserved
  <2> SUFFICES ASSUME Init PROVE SamplesConserved
    OBVIOUS
  <2>1. cut = << >> /\ frameBuffer = << >> /\ channel = << >> /\ captured = 0
    BY DEF Init
  <2>2. Kept(captured, dropped) = << >>
    <3>1. Kept(0, dropped) \in Seq(Seq(Samples)) /\ Len(Kept(0, dropped)) = 0
      BY Constants, KeptType
    <3> QED
      BY <2>1, <3>1, EmptySeq
  <2>3. (<< >> \o << >>) \o << >> = << >>
    OBVIOUS
  <2> QED
    BY <2>1, <2>2, <2>3, FlattenEmpty, ConservedIs
<1>2. SenderInv /\ SamplesConserved /\ [Next]_vars => SamplesConserved'
  <2> SUFFICES ASSUME SenderInv, SamplesConserved, [Next]_vars PROVE SamplesConserved'
    OBVIOUS
  <2>1. CASE \E n \in ChunkSizes : Capture(n)
    BY <2>1, CaptureConserves
  <2>2. CASE RecvChunk
    BY <2>2, RecvChunkConserves
  <2>3. CASE EncodeFails
    BY <2>3, DrainConserves DEF EncodeFails, Framing
  <2>4. CASE SendOk \/ SendFails
    <3>1. Len(frameBuffer) >= frameSize
      BY <2>4 DEF SendOk, SendFails, SenderInv, InHand
    <3> QED
      BY <2>4, <3>1, DrainConserves DEF SendOk, SendFails, Sent
  <2>5. CASE Encode \/ Receive \/ UNCHANGED vars
    <3>1. UNCHANGED <<cut, frameBuffer, channel, captured, dropped>>
      BY <2>5 DEF Encode, Receive, vars, loop, device
    <3> QED
      BY <3>1 DEF SamplesConserved
  <2> QED
    BY <2>1, <2>2, <2>3, <2>4, <2>5 DEF Next, LoopNext
<1> QED
  BY <1>1, <1>2, SenderInvariance, PTL DEF Spec

-----------------------------------------------------------------------------
(* Chunks of whole stereo pairs, as a device of two channels delivers, and  *)
(* frames of whole pairs, as main computes them (samples_per_channel * 2).  *)
StereoDevice ==
  (\A n \in ChunkSizes : n % 2 = 0) /\ (\A size \in FrameSizes : size % 2 = 0)

LEMMA Parity ==
  /\ \A a, b \in Int : a % 2 = 0 => (a + b) % 2 = b % 2 /\ (b - a) % 2 = b % 2
  /\ \A i \in Nat \ {0} : i % 2 # 1 => i >= 2
OBVIOUS

LEMMA PairedConcat ==
  ASSUME NEW a \in Seq(Samples), NEW b \in Seq(Samples), Paired(a), Paired(b)
  PROVE  Paired(a \o b)
<1> DEFINE m == Len(a)
           n == Len(b)
           s == a \o b
<1>1. /\ m \in Nat /\ n \in Nat /\ m % 2 = 0 /\ n % 2 = 0
      /\ \A i \in 1 .. m : IF i % 2 = 1 THEN a[i] % 2 = 0 ELSE a[i] = a[i - 1] + 1
      /\ \A i \in 1 .. n : IF i % 2 = 1 THEN b[i] % 2 = 0 ELSE b[i] = b[i - 1] + 1
  BY DEF Paired
<1>2. /\ s \in Seq(Samples) /\ Len(s) = m + n
      /\ \A i \in 1 .. m + n : s[i] = IF i <= m THEN a[i] ELSE b[i - m]
  BY ConcatProperties
<1> HIDE DEF m, n, s
<1>3. ASSUME NEW i \in 1 .. m + n
      PROVE  IF i % 2 = 1 THEN s[i] % 2 = 0 ELSE s[i] = s[i - 1] + 1
  <2>1. CASE i <= m
    <3>1. i \in 1 .. m /\ s[i] = a[i]
      BY <1>1, <1>2, <2>1
    <3>2. CASE i % 2 = 1
      BY <1>1, <3>1, <3>2
    <3>3. CASE i % 2 # 1
      <4>1. i - 1 \in 1 .. m + n /\ i - 1 <= m
        BY <1>1, <2>1, <3>3
      <4>2. s[i - 1] = a[i - 1]
        BY <1>2, <4>1
      <4> QED
        BY <1>1, <3>1, <3>3, <4>2
    <3> QED
      BY <3>2, <3>3
  <2>2. CASE i > m
    <3> DEFINE j == i - m
    <3>1. j \in 1 .. n /\ s[i] = b[j] /\ i % 2 = j % 2
      <4>1. j \in 1 .. n /\ ~(i <= m)
        BY <1>1, <2>2
      <4>2. i % 2 = j % 2
        BY <1>1
      <4> QED
        BY <1>2, <4>1, <4>2
    <3>2. CASE i % 2 = 1
      BY <1>1, <3>1, <3>2
    <3>3. CASE i % 2 # 1
      <4>1. i - 1 \in 1 .. m + n /\ ~(i - 1 <= m) /\ (i - 1) - m = j - 1
        <5>1. j % 2 # 1 /\ j \in Nat \ {0}
          BY <1>1, <3>1, <3>3
        <5> HIDE DEF j
        <5>2. j >= 2
          BY <5>1, Parity
        <5> QED
          BY <1>1, <2>2, <5>1, <5>2 DEF j
      <4>2. s[i - 1] = b[j - 1]
        BY <1>2, <4>1
      <4>3. b[j] = b[j - 1] + 1
        <5> HIDE DEF j
        <5> QED
          BY <1>1, <3>1, <3>3
      <4> QED
        BY <3>1, <3>3, <4>2, <4>3
    <3> QED
      BY <3>2, <3>3
  <2>3. i <= m \/ i > m
    BY <1>1
  <2> QED
    BY <2>1, <2>2, <2>3
<1>4. Len(s) % 2 = 0 /\ DOMAIN s = 1 .. m + n
  <2>1. (m + n) % 2 = 0
    BY <1>1, Parity
  <2> QED
    BY <1>2, <2>1
<1> QED
  BY <1>3, <1>4 DEF Paired, s

LEMMA PairedParts ==
  ASSUME NEW s \in Seq(Samples), Paired(s), NEW e \in Nat, e % 2 = 0, e <= Len(s)
  PROVE  Paired(SubSeq(s, 1, e)) /\ Paired(SubSeq(s, e + 1, Len(s)))
<1> DEFINE n == Len(s)
           a == SubSeq(s, 1, e)
           b == SubSeq(s, e + 1, n)
<1>1. /\ n \in Nat /\ n % 2 = 0
      /\ \A i \in 1 .. n : IF i % 2 = 1 THEN s[i] % 2 = 0 ELSE s[i] = s[i - 1] + 1
  BY DEF Paired
<1>2. /\ Len(a) = e /\ DOMAIN a = 1 .. e /\ \A i \in 1 .. e : a[i] = s[i]
      /\ Len(b) = n - e /\ DOMAIN b = 1 .. n - e /\ \A i \in 1 .. n - e : b[i] = s[e + i]
  <2>1. Len(a) = e /\ DOMAIN a = 1 .. e /\ \A i \in 1 .. e : a[i] = s[i]
    BY <1>1
  <2>2. Len(b) = n - e
    BY <1>1
  <2>3. DOMAIN b = 1 .. n - e
    BY <1>1
  <2>4. \A i \in 1 .. n - e : b[i] = s[e + i]
    BY <1>1
  <2> QED
    BY <2>1, <2>2, <2>3, <2>4
<1> HIDE DEF n, a, b
<1>3. e <= n
  BY DEF n
<1>4. ASSUME NEW i \in 1 .. e
      PROVE  IF i % 2 = 1 THEN a[i] % 2 = 0 ELSE a[i] = a[i - 1] + 1
  <2>1. i \in 1 .. n
    BY <1>1, <1>3
  <2>2. i % 2 # 1 => i - 1 \in 1 .. e
    OBVIOUS
  <2> QED
    BY <1>1, <1>2, <2>1, <2>2
<1>5. ASSUME NEW i \in 1 .. n - e
      PROVE  IF i % 2 = 1 THEN b[i] % 2 = 0 ELSE b[i] = b[i - 1] + 1
  <2>1. e + i \in 1 .. n /\ (e + i) % 2 = i % 2 /\ (e + i) - 1 = e + (i - 1)
    <3>1. i \in Nat /\ e \in Int /\ i \in Int
      BY <1>1, <1>3
    <3>2. (e + i) % 2 = i % 2
      BY <3>1, Parity
    <3> QED
      BY <1>1, <1>3, <3>1, <3>2
  <2>2. i % 2 # 1 => i - 1 \in 1 .. n - e
    BY <1>1, <1>3
  <2>3. IF i % 2 = 1 THEN s[e + i] % 2 = 0 ELSE s[e + i] = s[e + (i - 1)] + 1
    BY <1>1, <2>1
  <2> QED
    BY <1>2, <2>2, <2>3
<1>6. (n - e) % 2 = 0
  BY <1>1, <1>3, Parity
<1>7. Paired(a)
  BY <1>2, <1>4 DEF Paired
<1>8. Paired(b)
  BY <1>2, <1>5, <1>6 DEF Paired
<1> QED
  BY <1>7, <1>8 DEF a, b, n

LEMMA PairsInit == Init => PairsOnly
<1> SUFFICES ASSUME Init PROVE PairsOnly
  OBVIOUS
<1>1. captured = 0 /\ channel = << >> /\ frameBuffer = << >> /\ encoded = << >>
  BY DEF Init
<1>2. Paired(<< >>)
  BY DEF Paired
<1> QED
  BY <1>1, <1>2 DEF PairsOnly

LEMMA PairedFrame ==
  ASSUME StereoDevice, SenderInv, PairsOnly, Len(frameBuffer) >= frameSize
  PROVE  Paired(Frame) /\ Paired(SubSeq(frameBuffer, frameSize + 1, Len(frameBuffer)))
<1>1. /\ frameBuffer \in Seq(Samples) /\ Paired(frameBuffer) /\ frameSize \in Nat
      /\ frameSize % 2 = 0 /\ frameSize <= Len(frameBuffer)
  BY TypesInHand DEF SenderInv, CaptureTypes, PairsOnly, StereoDevice
<1> QED
  BY <1>1, PairedParts DEF Frame

LEMMA PairsStep ==
  ASSUME StereoDevice, SenderInv, PairsOnly, [Next]_vars
  PROVE  PairsOnly'
<1>1. /\ captured % 2 = 0 /\ Paired(frameBuffer)
      /\ \A i \in DOMAIN channel : Paired(channel[i])
      /\ \A k \in DOMAIN encoded : Paired(encoded[k])
      /\ channel \in Seq(Seq(Samples)) /\ captured \in Nat /\ frameBuffer \in Seq(Samples)
      /\ encoded \in Seq(Frames(frameSize)) /\ CaptureTypes
  BY TypesInHand DEF PairsOnly, SenderInv, CaptureTypes
<1>2. CASE \E n \in ChunkSizes : Capture(n)
  <2>1. PICK n \in ChunkSizes : Capture(n)
    BY <1>2
  <2> DEFINE c == Chunk(n)
  <2>2. /\ captured' = captured + n /\ n % 2 = 0 /\ captured + n <= MaxSamples
        /\ UNCHANGED <<frameBuffer, encoded>>
        /\ (channel' = Append(channel, c) \/ channel' = channel)
    BY <2>1 DEF Capture, loop, StereoDevice
  <2>3. n \in Nat /\ c \in Seq(Samples) /\ Len(c) = n /\ \A i \in 1 .. n : c[i] = captured + i - 1
    BY <1>1, <2>2, ChunkType
  <2> HIDE DEF c
  <2>4. Paired(c)
    <3>1. ASSUME NEW i \in 1 .. n
          PROVE  IF i % 2 = 1 THEN c[i] % 2 = 0 ELSE c[i] = c[i - 1] + 1
      <4>1. i % 2 # 1 => i - 1 \in 1 .. n
        <5>1. i \in Nat \ {0} /\ n \in Nat
          BY <2>3
        <5>2. i % 2 # 1 => i >= 2
          BY <5>1, Parity
        <5> QED
          BY <5>1, <5>2
      <4> QED
        BY <1>1, <2>3, <4>1
    <3>2. DOMAIN c = 1 .. n
      BY <2>3
    <3> QED
      BY <2>2, <2>3, <3>1, <3>2 DEF Paired
  <2>5. captured' % 2 = 0
    <3>1. captured \in Int /\ n \in Int /\ captured % 2 = 0 /\ n % 2 = 0
      BY <1>1, <2>2, <2>3
    <3>2. (captured + n) % 2 = n % 2
      BY <3>1, Parity
    <3> QED
      BY <2>2, <3>1, <3>2
  <2>6. \A i \in DOMAIN channel' : Paired(channel'[i])
    <3>1. CASE channel' = channel
      BY <1>1, <3>1
    <3>2. CASE channel' = Append(channel, c)
      BY <1>1, <2>3, <2>4, <3>2
    <3> QED
      BY <2>2, <3>1, <3>2
  <2> QED
    BY <1>1, <2>2, <2>5, <2>6 DEF PairsOnly
<1>3. CASE RecvChunk
  <2>1. /\ channel # << >> /\ frameBuffer' = frameBuffer \o Head(channel)
        /\ channel' = Tail(channel) /\ UNCHANGED <<captured, encoded>>
    BY <1>3 DEF RecvChunk, device
  <2>2. Head(channel) \in Seq(Samples) /\ Paired(Head(channel))
    BY <1>1, <2>1
  <2>3. Paired(frameBuffer')
    BY <1>1, <2>1, <2>2, PairedConcat
  <2>4. \A i \in DOMAIN channel' : Paired(channel'[i])
    <3>1. \A i \in DOMAIN Tail(channel) : i + 1 \in DOMAIN channel /\ Tail(channel)[i] = channel[i + 1]
      BY <1>1, <2>1
    <3> QED
      BY <1>1, <2>1, <3>1
  <2> QED
    BY <1>1, <2>1, <2>3, <2>4 DEF PairsOnly
<1>4. CASE Encode
  <2>1. /\ encoded' = Append(encoded, Frame) /\ UNCHANGED <<captured, channel, frameBuffer>>
        /\ Len(frameBuffer) >= frameSize
    BY <1>4 DEF Encode, Framing, device
  <2>2. Frame \in Frames(frameSize) /\ Paired(Frame)
    BY <1>1, <2>1, CutOff, PairedFrame
  <2>3. \A k \in DOMAIN encoded' : Paired(encoded'[k])
    BY <1>1, <2>1, <2>2
  <2> QED
    BY <1>1, <2>1, <2>3 DEF PairsOnly
<1>5. CASE EncodeFails \/ SendOk \/ SendFails
  <2>1. Len(frameBuffer) >= frameSize /\ Drain /\ UNCHANGED <<captured, channel, encoded>>
    BY <1>5 DEF EncodeFails, Framing, SendOk, SendFails, Sent, SenderInv, InHand, device
  <2>2. Paired(frameBuffer')
    BY <2>1, PairedFrame DEF Drain
  <2> QED
    BY <1>1, <2>1, <2>2 DEF PairsOnly
<1>6. CASE Receive \/ UNCHANGED vars
  <2>1. UNCHANGED <<captured, channel, frameBuffer, encoded>>
    BY <1>6 DEF Receive, vars, device, loop
  <2> QED
    BY <1>1, <2>1 DEF PairsOnly
<1> QED
  BY <1>2, <1>3, <1>4, <1>5, <1>6 DEF Next, LoopNext

(* A device that delivers whole stereo pairs, and frames of whole pairs:    *)
(* no chunk and no frame that is dropped swaps left and right.              *)
THEOREM StereoKept == ASSUME StereoDevice PROVE Spec => []StereoAligned
<1>1. SenderInv /\ PairsOnly /\ [Next]_vars => PairsOnly'
  BY PairsStep
<1>2. PairsOnly => StereoAligned
  BY DEF PairsOnly, StereoAligned, Paired
<1> QED
  BY <1>1, <1>2, PairsInit, SenderInvariance, PTL DEF Spec

-----------------------------------------------------------------------------
(* Every buffer holds what it is declared to hold, within its bound.        *)
THEOREM TypeCorrect == Spec => []TypeOK
<1>1. SenderInv /\ EndToEnd => TypeOK
  <2> SUFFICES ASSUME SenderInv, EndToEnd PROVE TypeOK
    OBVIOUS
  <2>1. /\ captured \in 0 .. MaxSamples
        /\ channel \in Seq(Seq(Samples)) /\ Len(channel) <= Capacity
        /\ frameBuffer \in Seq(Samples)
        /\ net \in Seq(Seq(Bytes)) /\ Len(net) <= MaxInFlight
        /\ failures \in Nat /\ rejected \in Nat
    BY DEF SenderInv, CaptureTypes, InFlight, EndToEnd, Arrivals
  <2>2. packetBuffer \in Seq(Bytes)
    <3>1. CASE Sending
      BY <3>1, MadeInHand, MadeType
    <3>2. CASE ~Sending
      BY <3>2, EmptySeq DEF Sending
    <3> QED
      BY <3>1, <3>2
  <2>3. sequenceNumber \in 0 .. Values(SeqBytes) - 1
    <3>1. Len(encoded) + 1 \in Nat \ {0}
      BY TypesInHand DEF SenderInv
    <3>2. CASE Sending
      <4>1. Len(encoded) \in Nat \ {0}
        BY <3>2, TypesInHand DEF SenderInv, InHand, CaptureTypes
      <4> QED
        BY <3>2, <4>1, NumberedNext DEF SenderInv, Numbering
    <3>3. CASE ~Sending
      BY <3>1, <3>3, NumberedNext DEF SenderInv, Numbering
    <3> QED
      BY <3>2, <3>3
  <2>4. dropped \subseteq Samples
    <3>1. dropped \subseteq 0 .. captured - 1
      BY DEF SenderInv, CaptureTypes
    <3>2. 0 .. captured - 1 \subseteq Samples
      BY <2>1, Constants DEF Samples
    <3> QED
      BY <3>1, <3>2, Zenon
  <2> QED
    BY <2>1, <2>2, <2>3, <2>4 DEF TypeOK
<1> QED
  BY <1>1, SenderInvariance, EndToEndInvariance, PTL
=============================================================================
