---------------------------- MODULE CaptureSender ----------------------------
(***************************************************************************)
(* From the sound card to the receiver's decoder: the capture callback     *)
(* (sender/src/audio.rs), the channel it fills, the loop that cuts frames, *)
(* encodes and sends them (sender/src/main.rs, encoder.rs), and the        *)
(* reception of a datagram up to its samples (receiver/src/main.rs,        *)
(* decoder.rs).  AudioStream starts from encoded frames; what becomes of   *)
(* samples before that no sequence number shows.                           *)
(*                                                                         *)
(* Samples are numbered as the device delivers them; Sound says what each  *)
(* of them is.  A float is a whole number of steps so fine that 1.0 is     *)
(* FullScale * Fine of them: Fine steps are one of the 16-bit format.      *)
(***************************************************************************)
EXTENDS WireFormat

CONSTANTS
  Format,       (* the device's sample format                                *)
  Sound,        (* the device's samples, by number: floats or integers       *)
  FullScale,    (* the largest i16: 32767                                    *)
  Fine,         (* how much finer than 16 bits floats are                    *)
  NaN,          (* the float that is no number                               *)
  Codecs,       (* --codec arguments to try                                  *)
  FrameSizes,   (* --frame-size-ms arguments to try, in samples              *)
  ChunkSizes,   (* samples the device hands to one callback                  *)
  Capacity,     (* of the sample channel: 128 chunks                         *)
  RecvBufLen,   (* the receiver's buffer: 4096 bytes                         *)
  MaxDatagram,  (* the most UDP carries: 65507 bytes                         *)
  MaxSamples,   (* bound: samples captured                                   *)
  MaxInFlight,  (* bound: datagrams in flight                                *)
  MaxFailures   (* bound: frames that fail to encode or to be sent           *)

ASSUME CaptureSenderAssumption ==
  /\ Codecs \subseteq {"Pcm", "Opus"}
  /\ FrameSizes \subseteq Nat \ {0} /\ ChunkSizes \subseteq Nat \ {0}
  /\ {Capacity, MaxSamples, MaxInFlight, MaxFailures} \subseteq Nat
  /\ RecvBufLen \in Nat /\ RecvBufLen >= AUDIO_HEADER_LEN
  /\ MaxDatagram \in RecvBufLen .. AUDIO_HEADER_LEN + Values(LenBytes) - 1

Samples == 0 .. MaxSamples - 1

(* An integer device delivers i16 or u16; a float device any float, also    *)
(* beyond full scale.                                                       *)
DeviceSamples ==
  CASE Format = "F32" -> Int \cup {NaN}
    [] Format = "I16" -> -(FullScale + 1) .. FullScale
    [] Format = "U16" -> 0 .. 2 * FullScale + 1

ASSUME SoundAssumption ==
  /\ Format \in {"F32", "I16", "U16"}
  /\ {FullScale, Fine} \subseteq Nat \ {0} /\ Values(2) = 2 * FullScale + 2
  /\ NaN \notin Int
  /\ Sound \in [Samples -> DeviceSamples]

VARIABLES
  codec, frameSize,  (* the arguments of this run                            *)
  captured,          (* samples the device has delivered                     *)
  channel,           (* sample_tx, sample_rx: chunks                         *)
  frameBuffer,       (* frame_buffer                                         *)
  packetBuffer,      (* packet_buffer while send_to is awaited, else empty   *)
  sequenceNumber,    (* sequence_number                                      *)
  net,               (* datagrams in flight, in order                        *)
  dropped,           (* history: samples dropped because the channel is full *)
  cut,               (* history: samples drained from frame_buffer, in order *)
  encoded,           (* history: the frames that were encoded                *)
  failures,          (* history: numbers of frames that failed so far        *)
  arrived, rejected  (* history: datagrams decoded, datagrams malformed      *)

device   == <<captured, dropped>>
loop     == <<frameBuffer, packetBuffer, sequenceNumber, cut, encoded, failures>>
reception == <<arrived, rejected>>
vars     == <<codec, frameSize, device, channel, loop, net, reception>>

Init ==
  /\ codec \in Codecs /\ frameSize \in FrameSizes
  /\ captured = 0 /\ channel = << >> /\ frameBuffer = << >> /\ packetBuffer = << >>
  /\ sequenceNumber = 0 /\ net = << >>
  /\ dropped = {} /\ cut = << >> /\ encoded = << >> /\ failures = 0
  /\ arrived = << >> /\ rejected = 0

-----------------------------------------------------------------------------
(* What s.into() makes of a sample: Into<f32> of an integer is that         *)
(* integer, not a fraction of full scale.                                   *)
One      == FullScale * Fine
Float(s) == IF Format = "F32" THEN Sound[s] ELSE Sound[s] * One

(* The device's callback delivers a chunk of n samples, of which float_buf  *)
(* holds the floats; a full channel drops it whole (try_send).  Empty       *)
(* chunks are ignored.                                                      *)
Chunk(n) == [i \in 1 .. n |-> captured + i - 1]

(* Mutant: send instead of try_send.                                        *)
CaptureBlocking(n) ==
  /\ captured + n <= MaxSamples
  /\ captured' = captured + n
  /\ Len(channel) < Capacity
  /\ channel' = Append(channel, Chunk(n))
  /\ UNCHANGED <<codec, frameSize, dropped, loop, net, reception>>

(* Mutant: a channel without a bound.                                       *)
CaptureUnbounded(n) ==
  /\ captured + n <= MaxSamples
  /\ captured' = captured + n
  /\ channel' = Append(channel, Chunk(n))
  /\ UNCHANGED <<codec, frameSize, dropped, loop, net, reception>>

Capture(n) ==
  /\ captured + n <= MaxSamples
  /\ captured' = captured + n
  /\ \/ /\ Len(channel) < Capacity
        /\ channel' = Append(channel, Chunk(n))
        /\ UNCHANGED dropped
     \/ /\ Len(channel) = Capacity
        /\ dropped' = dropped \cup Range(Chunk(n))
        /\ UNCHANGED channel
  /\ UNCHANGED <<codec, frameSize, loop, net, reception>>

-----------------------------------------------------------------------------
Sending == packetBuffer # << >>

(* Mutant: > for >=.                                                        *)
FramingStrict == ~Sending /\ Len(frameBuffer) > frameSize

Framing == ~Sending /\ Len(frameBuffer) >= frameSize

Frame == SubSeq(frameBuffer, 1, frameSize)

(* recv on the channel, once no whole frame is left.                        *)
RecvChunk ==
  /\ ~Sending /\ ~Framing /\ channel # << >>
  /\ frameBuffer' = frameBuffer \o Head(channel)
  /\ channel' = Tail(channel)
  /\ UNCHANGED <<codec, frameSize, device, packetBuffer, sequenceNumber, cut, encoded,
                 failures, net, reception>>

(* clamp(-1.0, 1.0), which NaN passes, and the cast of the scaled float to  *)
(* i16, which truncates towards 0 and makes 0 of NaN.                       *)
Clamped(x) ==
  CASE x = NaN              -> NaN
    [] x # NaN /\ x > One   -> One
    [] x # NaN /\ x < -One  -> -One
    [] OTHER                -> x
Truncated(x) ==
  CASE x = NaN              -> 0
    [] x # NaN /\ x >= 0    -> x \div Fine
    [] OTHER                -> -((-x) \div Fine)
ToI16(x) == Truncated(Clamped(x))

(* i16::to_le_bytes of every sample; the Opus library, which is external,   *)
(* is taken to pack a sample into one byte that depends on it.              *)
SampleBytes(s) ==
  IF codec = "Pcm" THEN Reverse(WriteBE(ToI16(Float(s)) % Values(2), 2)) ELSE WriteBE(s, 1)
Payload(frame) == FlattenSeq([i \in DOMAIN frame |-> SampleBytes(frame[i])])

(* Mutant: payload_len counts the header.                                   *)
EncodeFrameWhole(frame) ==
  SerializeHeader([seq |-> sequenceNumber, timestamp |-> Len(cut),
                   payload_len |-> AUDIO_HEADER_LEN + Len(Payload(frame)), codec |-> codec])
    \o Payload(frame)

(* encode_frame; the position of the frame stands for timestamp_ns, which   *)
(* nothing reads.                                                           *)
EncodeFrame(frame) ==
  SerializeHeader([seq |-> sequenceNumber, timestamp |-> Len(cut),
                   payload_len |-> Len(Payload(frame)), codec |-> codec])
    \o Payload(frame)

Encode ==
  /\ Framing
  /\ packetBuffer' = EncodeFrame(Frame)
  /\ encoded' = Append(encoded, Frame)
  /\ UNCHANGED <<codec, frameSize, device, channel, frameBuffer, sequenceNumber, cut,
                 failures, net, reception>>

(* Mutant: what is left of the chunk goes with the frame.                   *)
DrainAll == frameBuffer' = << >> /\ cut' = cut \o Frame

(* Mutant: the samples of one channel are drained.                          *)
DrainPerChannel ==
  /\ frameBuffer' = SubSeq(frameBuffer, frameSize \div 2 + 1, Len(frameBuffer))
  /\ cut' = cut \o SubSeq(Frame, 1, frameSize \div 2)

(* frame_buffer.drain: the frame leaves, the rest stays.                    *)
Drain ==
  /\ frameBuffer' = SubSeq(frameBuffer, frameSize + 1, Len(frameBuffer))
  /\ cut' = cut \o Frame

(* The Opus encoder fails: the frame is dropped and takes no number.        *)
EncodeFails ==
  /\ Framing /\ codec = "Opus" /\ failures < MaxFailures
  /\ failures' = failures + 1
  /\ Drain
  /\ UNCHANGED <<codec, frameSize, device, channel, packetBuffer, sequenceNumber, encoded,
                 net, reception>>

(* After send_to, successful or not, the number advances.                   *)
Sent ==
  /\ sequenceNumber' = (sequenceNumber + 1) % Values(SeqBytes)
  /\ packetBuffer' = << >>
  /\ Drain

SendOk ==
  /\ Sending /\ Len(packetBuffer) <= MaxDatagram
  /\ Len(net) < MaxInFlight
  /\ net' = Append(net, packetBuffer)
  /\ Sent
  /\ UNCHANGED <<codec, frameSize, device, channel, encoded, failures, reception>>

(* send_to fails: always on a datagram UDP cannot carry.                    *)
SendFails ==
  /\ Sending
  /\ Len(packetBuffer) > MaxDatagram \/ failures < MaxFailures
  /\ failures' = IF Len(packetBuffer) > MaxDatagram THEN failures ELSE failures + 1
  /\ UNCHANGED net
  /\ Sent
  /\ UNCHANGED <<codec, frameSize, device, channel, encoded, reception>>

-----------------------------------------------------------------------------
(* recv_from keeps what fits into the buffer and discards the rest.         *)
Received(datagram) == SubSeq(datagram, 1, IF Len(datagram) > RecvBufLen THEN RecvBufLen
                                                                         ELSE Len(datagram))

(* Mutant: u16::from_le_bytes.                                              *)
AsU16(n) == n

(* Two's complement.                                                        *)
AsI16(n) == IF n > FullScale THEN n - Values(2) ELSE n

(* decode_frame: chunks_exact(2), i16::from_le_bytes, a 32767th of it; or   *)
(* the Opus library, which is given the bytes of its encoder.               *)
Sample(payload, i) == Fine * AsI16(ReadBE(<<payload[2 * i], payload[2 * i - 1]>>))
Decode(packet) ==
  IF packet.header.codec = "Pcm"
  THEN [i \in 1 .. Len(packet.payload) \div 2 |-> Sample(packet.payload, i)]
  ELSE packet.payload

Receive ==
  /\ net # << >>
  /\ net' = Tail(net)
  /\ LET packet == Parse(Received(Head(net))) IN
     \/ /\ IsError(packet)
        /\ rejected' = rejected + 1 /\ UNCHANGED arrived
     \/ /\ ~IsError(packet)
        /\ arrived' = Append(arrived, [seq |-> packet.header.seq, samples |-> Decode(packet)])
        /\ UNCHANGED rejected
  /\ UNCHANGED <<codec, frameSize, device, channel, loop>>

LoopNext == RecvChunk \/ Encode \/ EncodeFails \/ SendOk \/ SendFails
Next == (\E n \in ChunkSizes : Capture(n)) \/ LoopNext \/ Receive
Spec == Init /\ [][Next]_vars

(* The device keeps calling back and the loop's own steps are scheduled;    *)
(* nothing obliges send_to to return.                                       *)
FairSpec ==
  /\ Spec
  /\ WF_vars(\E n \in ChunkSizes : Capture(n))
  /\ WF_vars(RecvChunk) /\ WF_vars(Encode \/ EncodeFails)
  /\ WF_vars(Receive)

-----------------------------------------------------------------------------
Numbered(k) == (k - 1) % Values(SeqBytes)
Oversize    ==
  AUDIO_HEADER_LEN + frameSize * (IF codec = "Pcm" THEN 2 ELSE 1) > RecvBufLen

TypeOK ==
  /\ captured \in 0 .. MaxSamples
  /\ channel \in Seq(Seq(Samples)) /\ Len(channel) <= Capacity
  /\ frameBuffer \in Seq(Samples)
  /\ packetBuffer \in Seq(Bytes)
  /\ sequenceNumber \in 0 .. Values(SeqBytes) - 1
  /\ net \in Seq(Seq(Bytes)) /\ Len(net) <= MaxInFlight
  /\ dropped \subseteq Samples
  /\ {failures, rejected} \subseteq Nat

(* Dropped chunks are the only samples lost before framing: everything else *)
(* is cut into frames, or waits in frame_buffer or the channel, once and in *)
(* the order of capture.                                                    *)
SamplesConserved ==
  cut \o frameBuffer \o FlattenSeq(channel)
    = FlattenSeq([i \in 1 .. captured |-> IF i - 1 \in dropped THEN << >> ELSE <<i - 1>>])

(* Dropped chunks and dropped frames never swap left and right: with        *)
(* devices of two channels, every frame is made of whole stereo pairs.      *)
StereoAligned ==
  \A k \in DOMAIN encoded : \A i \in DOMAIN encoded[k] :
    IF i % 2 = 1 THEN encoded[k][i] % 2 = 0 ELSE encoded[k][i] = encoded[k][i - 1] + 1

(* How loud the device plays a sample, as a float between -1.0 and 1.0:     *)
(* what is beyond full scale is clipped, NaN is silence, and an integer     *)
(* counts as a fraction of full scale.                                      *)
Level(s) ==
  CASE Format = "F32" -> IF Sound[s] = NaN THEN 0 ELSE Clamped(Sound[s])
    [] Format = "I16" -> Fine * Sound[s]
    [] Format = "U16" -> Fine * (Sound[s] - FullScale - 1)

(* What is decoded of a frame: of PCM every sample to a step of the 16-bit  *)
(* format, of Opus the bytes that its encoder made of the frame.            *)
HeardAs(c, frame, heard) ==
  /\ Len(heard) = Len(frame)
  /\ \A i \in DOMAIN frame :
       IF c = "Pcm" THEN heard[i] - Level(frame[i]) \in -Fine .. Fine
                    ELSE heard[i] = frame[i] % Base

(* What the receiver decodes is the sound of one of the frames that were    *)
(* cut, under the number it was encoded with, also when the datagram was    *)
(* truncated, the payload length overflowed its field, frames around it     *)
(* failed, or samples are beyond full scale or no numbers at all.           *)
(* start_loopback_capture promises the encoder samples "normalized to       *)
(* [-1.0, 1.0]": of a float device this is so, of an integer device not.    *)
NeverMisread ==
  \A a \in Range(arrived) :
    \E k \in DOMAIN encoded : a.seq = Numbered(k) /\ HeardAs(codec, encoded[k], a.samples)

(* A stream is understood as a whole or not at all: frames that fit into    *)
(* the receiver's buffer are never malformed, larger ones never heard.      *)
UnderstoodIfItFits ==
  (rejected > 0 => Oversize) /\ (arrived # << >> => ~Oversize)

(* The capture callback never waits for a loop that is stuck in send_to.    *)
CaptureNeverBlocked == <>(captured = MaxSamples)

(* Unless send_to never returns, the loop catches up: at most the beginning *)
(* of a frame stays behind.                                                 *)
LoopCatchesUp ==
  \/ <>[]Sending
  \/ <>[](channel = << >> /\ Len(frameBuffer) < frameSize)
=============================================================================
