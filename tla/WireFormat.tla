----------------------------- MODULE WireFormat -----------------------------
(***************************************************************************)
(* The datagrams of both sockets, protocol/src/lib.rs: the audio header    *)
(* with its payload and the control messages.  A buffer is a sequence of   *)
(* bytes below Base; a field is written big-endian into a fixed number of  *)
(* bytes, which also truncates it, as a cast to its type does.             *)
(***************************************************************************)
EXTENDS Integers, Sequences, SequencesExt, Numerals

CONSTANTS
  Base,       (* values of a byte: 256                                       *)
  SeqBytes,   (* u32 seq: 4                                                  *)
  LenBytes,   (* u16 payload_len: 2                                          *)
  WordBytes,  (* u64 timestamps, identifiers and counters: 8                 *)
  FloatBytes  (* the bits of an f32: 4                                       *)

ASSUME WireFormatAssumption ==
  /\ Base \in Nat /\ Base > 5
  /\ {SeqBytes, LenBytes, WordBytes, FloatBytes} \subseteq Nat \ {0}

Bytes == 0 .. Base - 1

(* A field of so many bytes, and how many values it has.                    *)
WriteBE(n, width) == Digits(n, Base, width)
ReadBE(bytes)     == Number(bytes, Base)
Values(width)     == Power(Base)[width]

(* The bytes of buf from offset on, and the number in them.                 *)
Slice(buf, offset, width) == SubSeq(buf, offset + 1, offset + width)
Field(buf, offset, width) == ReadBE(Slice(buf, offset, width))

Error(what) == [error |-> what]
IsError(r)  == "error" \in DOMAIN r

-----------------------------------------------------------------------------
(* Audio packets.                                                           *)
AUDIO_HEADER_LEN == SeqBytes + WordBytes + LenBytes + 1

CodecMode    == <<"Pcm", "Opus">>
Flag(codec)  == CHOOSE i \in DOMAIN CodecMode : CodecMode[i] = codec
AsByte(codec) == Flag(codec) - 1

SerializeHeader(h) ==
  WriteBE(h.seq, SeqBytes) \o WriteBE(h.timestamp, WordBytes)
    \o WriteBE(h.payload_len, LenBytes) \o <<AsByte(h.codec)>>

DeserializeHeader(buf) ==
  LET flag == buf[AUDIO_HEADER_LEN] + 1 IN
  CASE Len(buf) < AUDIO_HEADER_LEN -> Error("PacketTooShort")
    [] Len(buf) >= AUDIO_HEADER_LEN /\ flag \notin DOMAIN CodecMode -> Error("UnknownCodec")
    [] OTHER -> [seq         |-> Field(buf, 0, SeqBytes),
                 timestamp   |-> Field(buf, SeqBytes, WordBytes),
                 payload_len |-> Field(buf, SeqBytes + WordBytes, LenBytes),
                 codec       |-> CodecMode[flag]]

Parse(buf) ==
  LET header == DeserializeHeader(buf) IN
  IF IsError(header) THEN header
  ELSE IF Len(buf) < AUDIO_HEADER_LEN + header.payload_len
       THEN Error("PayloadLengthMismatch")
       ELSE [header |-> header, payload |-> Slice(buf, AUDIO_HEADER_LEN, header.payload_len)]

-----------------------------------------------------------------------------
(* Control messages: two bytes of magic (any two do), the type, and the     *)
(* fields of the type in order.                                             *)
CONTROL_MAGIC == <<4, 1>>

Layout(type) ==
  CASE type = "Ping"          -> [id |-> 1, widths |-> <<WordBytes, WordBytes>>]
    [] type = "Pong"          -> [id |-> 2, widths |-> <<WordBytes, WordBytes, WordBytes>>]
    [] type = "SetVolume"     -> [id |-> 3, widths |-> <<FloatBytes>>]
    [] type = "StatsResponse" -> [id |-> 5, widths |-> <<WordBytes, WordBytes, FloatBytes,
                                                         FloatBytes, FloatBytes, 1>>]
Types == {"Ping", "Pong", "SetVolume", "StatsResponse"}

(* Where field i starts in the payload; one past the last, its length.      *)
Offset(widths, i) == Sums(widths)[i - 1]
PayloadLen(type)  == LET w == Layout(type).widths IN Offset(w, Len(w) + 1)

SerializeControl(m) ==
  LET w == Layout(m.type).widths IN
  CONTROL_MAGIC \o <<Layout(m.type).id>>
    \o FlattenSeq([i \in DOMAIN w |-> WriteBE(m.fields[i], w[i])])

DeserializeControl(buf) ==
  LET types == {t \in Types : Len(buf) > 2 /\ Layout(t).id = buf[3]} IN
  IF Len(buf) < 3 THEN Error("ControlPacketTooShort")
  ELSE IF Slice(buf, 0, 2) # CONTROL_MAGIC THEN Error("InvalidControlMagic")
  ELSE IF types = {} THEN Error("UnknownControlType")
  ELSE LET t == CHOOSE t \in types : TRUE
           w == Layout(t).widths
       IN  IF Len(buf) < 3 + PayloadLen(t) THEN Error("ControlPacketTooShort")
           ELSE [type |-> t, fields |-> [i \in DOMAIN w |-> Field(buf, 3 + Offset(w, i), w[i])]]
=============================================================================
