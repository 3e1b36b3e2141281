------------------------ MODULE VolumeControl_proofs ------------------------
(***************************************************************************)
(* Theorems about the volume, for any number of pages, choices, datagrams  *)
(* and restarts, and every size of the fields of a control message.        *)
(***************************************************************************)
EXTENDS VolumeControl, DataLemmas

NoTimer == \A p \in Pages : timers[p] = {}

(* What the buffers, pages and requests hold.                               *)
VolumeTypes ==
  /\ buf \in [1 .. BufLen -> Bytes]
  /\ shown \in [Pages -> Levels] /\ focused \in [Pages -> BOOLEAN] /\ held \in [Pages -> BOOLEAN]
  /\ timers \in [Pages -> SUBSET Levels] /\ responses \in [Pages -> SUBSET Levels]
  /\ posts \subseteq [choice : 0 .. choices, volume : Levels \cup ForeignVolumes]
  /\ choices \in 0 .. MaxChoices /\ lastChoice \in Levels \cup {None}
  /\ asked \subseteq PeerVolumes \cup Levels
  /\ choices = 0 => NoTimer
  /\ choices > 0 => lastChoice \in Levels

(* Whatever is on its way to the volume was asked for.                      *)
AskedFor ==
  /\ \A p \in Pages : timers[p] \subseteq asked
  /\ \A post \in posts : post.volume \in asked
  /\ OnlyAskedVolumes

(* Where the last choice is while nothing disturbs it: it waits for its     *)
(* timer, it is the newest request, or it is the volume.                    *)
Waiting ==
  \E p \in Pages : /\ timers[p] = {lastChoice} /\ \A q \in Pages \ {p} : timers[q] = {}
                   /\ \A post \in posts : post.choice < choices
Posted  ==
  /\ NoTimer /\ [choice |-> choices, volume |-> lastChoice] \in posts
  /\ \A post \in posts : post.choice = choices => post.volume = lastChoice
Settled == NoTimer /\ posts = {} /\ volume = lastChoice

Latest == ~disturbed /\ choices > 0 => Waiting \/ Posted \/ Settled
-----------------------------------------------------------------------------
(* Control messages.                                                        *)
LEMMA Constants ==
  /\ Base \in Nat \ {0} /\ Base > 7
  /\ WordBytes \in Nat \ {0} /\ FloatBytes \in Nat \ {0}
  /\ SliderValues \subseteq Levels /\ PresetValues \subseteq Levels
  /\ NaN \notin Int /\ None \notin Int /\ None # NaN /\ MaxChoices \in Nat
BY WireFormatAssumption, VolumeControlAssumption

LEMMA WriteType ==
  ASSUME NEW n \in Nat, NEW w \in Nat
  PROVE  WriteBE(n, w) \in Seq(Bytes) /\ Len(WriteBE(n, w)) = w
<1>1. Base \in Nat \ {0}
  BY Constants
<1>2. Digits(n, Base, w) \in Seq(0 .. Base - 1) /\ Len(Digits(n, Base, w)) = w
  BY <1>1, DigitsType
<1> QED
  BY <1>2 DEF WriteBE, Bytes

(* Every volume that a peer asks for has bits that fit into the field.      *)
LEMMA BitsOf ==
  ASSUME NEW v \in PeerVolumes
  PROVE  /\ Bits(v) \in Nat /\ FromBits(Bits(v)) = v
         /\ ReadBE(WriteBE(Bits(v), FloatBytes)) = Bits(v)
<1>1. NaN \notin Int /\ Base \in Nat \ {0} /\ Base > 7 /\ FloatBytes \in Nat \ {0}
  BY Constants
<1>2. Bits(v) \in Nat /\ Bits(v) <= 7 /\ FromBits(Bits(v)) = v
  <2>1. CASE v = NaN
    BY <2>1 DEF Bits, FromBits
  <2>2. CASE v = -1
    BY <1>1, <2>2 DEF Bits, FromBits
  <2>3. CASE v = MaxLevel + 1
    BY <1>1, <2>3 DEF Bits, FromBits, MaxLevel
  <2> QED
    BY <2>1, <2>2, <2>3 DEF PeerVolumes, ForeignVolumes
<1>3. Bits(v) < Power(Base)[FloatBytes]
  <2> DEFINE k == FloatBytes - 1
             p == Power(Base)[k]
  <2>1. k \in Nat /\ k + 1 = FloatBytes
    BY <1>1
  <2> HIDE DEF k
  <2>2. p \in Nat \ {0} /\ Power(Base)[k + 1] = Base * p
    BY <1>1, <2>1, Powers
  <2> HIDE DEF p
  <2>3. Base * p >= Base
    BY <1>1, <2>2
  <2>4. Power(Base)[k + 1] > 7
    <3>1. Base * p > 7
      <4> DEFINE x == Base * p
      <4>1. x \in Int /\ x >= Base
        BY <1>1, <2>2, <2>3
      <4> HIDE DEF x
      <4>2. x > 7
        BY <1>1, <4>1
      <4> QED
        BY <4>2 DEF x
    <3> QED
      BY <2>2, <3>1
  <2>5. Power(Base)[FloatBytes] > 7 /\ Power(Base)[FloatBytes] \in Nat
    BY <1>1, <2>1, <2>4, Powers
  <2> QED
    BY <1>2, <2>5
<1>4. Number(Digits(Bits(v), Base, FloatBytes), Base) = Bits(v)
  BY <1>1, <1>2, <1>3, RoundTrip
<1> QED
  BY <1>2, <1>4 DEF ReadBE, WriteBE

LEMMA Layouts ==
  ASSUME NEW t \in Types
  PROVE  /\ Layout(t).widths \in Seq(Nat) /\ Layout(t).id \in 1 .. 5
         /\ Layout(t).id = 3 <=> t = "SetVolume"
<1>1. WordBytes \in Nat /\ FloatBytes \in Nat
  BY Constants
<1>2. CASE t = "Ping"
  <2>1. Layout(t) = [id |-> 1, widths |-> <<WordBytes, WordBytes>>]
    BY <1>2 DEF Layout
  <2>2. Layout(t).id = 1 /\ Layout(t).widths = <<WordBytes, WordBytes>>
    BY <2>1
  <2>3. <<WordBytes, WordBytes>> \in Seq(Nat)
    BY <1>1
  <2>4. Layout(t).widths \in Seq(Nat)
    BY <2>2, <2>3, Zenon
  <2>5. Layout(t).id \in 1 .. 5 /\ (Layout(t).id = 3 <=> t = "SetVolume")
    <3>1. Layout(t).id = 1
      BY <2>2, Zenon
    <3> QED
      BY <1>2, <3>1
  <2> QED
    BY <2>4, <2>5
<1>3. CASE t = "Pong"
  <2>1. Layout(t) = [id |-> 2, widths |-> <<WordBytes, WordBytes, WordBytes>>]
    BY <1>3 DEF Layout
  <2>2. Layout(t).id = 2 /\ Layout(t).widths = <<WordBytes, WordBytes, WordBytes>>
    BY <2>1
  <2>3. <<WordBytes, WordBytes, WordBytes>> \in Seq(Nat)
    BY <1>1
  <2>4. Layout(t).widths \in Seq(Nat)
    BY <2>2, <2>3, Zenon
  <2>5. Layout(t).id \in 1 .. 5 /\ (Layout(t).id = 3 <=> t = "SetVolume")
    <3>1. Layout(t).id = 2
      BY <2>2, Zenon
    <3> QED
      BY <1>3, <3>1
  <2> QED
    BY <2>4, <2>5
<1>4. CASE t = "SetVolume"
  <2>1. Layout(t) = [id |-> 3, widths |-> <<FloatBytes>>]
    BY <1>4 DEF Layout
  <2>2. Layout(t).id = 3 /\ Layout(t).widths = <<FloatBytes>>
    BY <2>1
  <2>3. <<FloatBytes>> \in Seq(Nat)
    BY <1>1
  <2>4. Layout(t).widths \in Seq(Nat)
    BY <2>2, <2>3, Zenon
  <2>5. Layout(t).id \in 1 .. 5 /\ (Layout(t).id = 3 <=> t = "SetVolume")
    <3>1. Layout(t).id = 3
      BY <2>2, Zenon
    <3> QED
      BY <1>4, <3>1
  <2> QED
    BY <2>4, <2>5
<1>5. CASE t = "StatsResponse"
  <2>1. Layout(t) = [id |-> 5, widths |-> <<WordBytes, WordBytes, FloatBytes,
                                            FloatBytes, FloatBytes, 1>>]
    BY <1>5 DEF Layout
  <2>2. Layout(t).id = 5 /\ Layout(t).widths = <<WordBytes, WordBytes, FloatBytes, FloatBytes, FloatBytes, 1>>
    BY <2>1
  <2>3. <<WordBytes, WordBytes, FloatBytes, FloatBytes, FloatBytes, 1>> \in Seq(Nat)
    BY <1>1
  <2>4. Layout(t).widths \in Seq(Nat)
    BY <2>2, <2>3, Zenon
  <2>5. Layout(t).id \in 1 .. 5 /\ (Layout(t).id = 3 <=> t = "SetVolume")
    <3>1. Layout(t).id = 5
      BY <2>2, Zenon
    <3> QED
      BY <1>5, <3>1
  <2> QED
    BY <2>4, <2>5
<1> QED
  BY <1>2, <1>3, <1>4, <1>5 DEF Types

LEMMA SetVolumeLayout ==
  /\ Layout("SetVolume") = [id |-> 3, widths |-> <<FloatBytes>>]
  /\ Offset(<<FloatBytes>>, 1) = 0 /\ PayloadLen("SetVolume") = FloatBytes
<1> DEFINE w == <<FloatBytes>>
<1>1. Layout("SetVolume") = [id |-> 3, widths |-> w]
  BY DEF Layout
<1>2. w \in Seq(Nat) /\ Len(w) = 1 /\ w[1] = FloatBytes /\ FloatBytes \in Nat
  BY Constants
<1> HIDE DEF w
<1>3. Sums(w)[0] = 0 /\ Sums(w)[1] = Sums(w)[1 - 1] + w[1]
  <2>1. 1 \in 1 .. Len(w)
    BY <1>2
  <2> QED
    BY <1>2, <2>1, SumSteps
<1>4. Sums(w)[1] = FloatBytes
  BY <1>2, <1>3
<1>5. Offset(w, 1) = 0 /\ Offset(w, Len(w) + 1) = FloatBytes
  BY <1>2, <1>3, <1>4 DEF Offset
<1>6. PayloadLen("SetVolume") = FloatBytes
  BY <1>1, <1>5 DEF PayloadLen
<1> QED
  BY <1>1, <1>5, <1>6 DEF w

LEMMA BufLenType == BufLen \in Nat
<1> DEFINE w == Layout("StatsResponse").widths
<1>1. w \in Seq(Nat)
  BY Layouts DEF Types
<1> HIDE DEF w
<1>2. Sums(w) \in [0 .. Len(w) -> Nat] /\ Len(w) \in 0 .. Len(w) /\ (Len(w) + 1) - 1 = Len(w)
  BY <1>1, SumSteps
<1>3. Offset(w, Len(w) + 1) \in Nat
  BY <1>2 DEF Offset
<1> QED
  BY <1>3 DEF BufLen, PayloadLen, w

(* A request to set the volume, when read.                                  *)
LEMMA RequestRead ==
  ASSUME NEW b \in Seq(Bytes), IsSetVolume(DeserializeControl(b))
  PROVE  /\ Len(b) >= 3 + FloatBytes /\ b[1] = 4 /\ b[3] = 3
         /\ DeserializeControl(b).fields[1] = Field(b, 3, FloatBytes)
<1> DEFINE types == {t \in Types : Len(b) > 2 /\ Layout(t).id = b[3]}
           u == CHOOSE t \in types : TRUE
           w == Layout(u).widths
           r == [type |-> u, fields |-> [i \in DOMAIN w |-> Field(b, 3 + Offset(w, i), w[i])]]
<1>1. ~IsError(DeserializeControl(b)) /\ DeserializeControl(b).type = "SetVolume"
  BY DEF IsSetVolume
<1>2. \A e : IsError(Error(e))
  BY DEF IsError, Error
<1>3. /\ ~(Len(b) < 3) /\ Slice(b, 0, 2) = CONTROL_MAGIC /\ types # {}
      /\ ~(Len(b) < 3 + PayloadLen(u)) /\ DeserializeControl(b) = r
  <2>1. DeserializeControl(b) =
          IF Len(b) < 3 THEN Error("ControlPacketTooShort")
          ELSE IF Slice(b, 0, 2) # CONTROL_MAGIC THEN Error("InvalidControlMagic")
          ELSE IF types = {} THEN Error("UnknownControlType")
          ELSE IF Len(b) < 3 + PayloadLen(u) THEN Error("ControlPacketTooShort")
          ELSE r
    BY DEF DeserializeControl
  <2> HIDE DEF types, u, w, r
  <2> QED
    BY <1>1, <1>2, <2>1
<1>4. u = "SetVolume"
  <2>1. r.type = u
    OBVIOUS
  <2> QED
    BY <1>1, <1>3, <2>1
<1>5. b[3] = 3
  <2>1. u \in types
    <3> HIDE DEF types
    <3> QED
      BY <1>3
  <2>2. u \in Types /\ Layout(u).id = b[3]
    BY <2>1
  <2> QED
    BY <1>4, <2>2, Layouts
<1>6. b[1] = 4
  <2>1. SubSeq(b, 0 + 1, 0 + 2) = <<4, 1>>
    BY <1>3 DEF Slice, CONTROL_MAGIC
  <2>2. Len(b) \in Nat /\ Len(b) >= 3
    BY <1>3
  <2>3. SubSeq(b, 1, 2)[1] = b[1]
    BY <2>2
  <2>4. SubSeq(b, 1, 2) = <<4, 1>>
    BY <2>1
  <2>5. <<4, 1>>[1] = 4
    OBVIOUS
  <2> QED
    BY <2>3, <2>4, <2>5
<1>7. Len(b) >= 3 + FloatBytes
  <2>1. ~(Len(b) < 3 + PayloadLen(u)) /\ Len(b) \in Nat
    BY <1>3
  <2> HIDE DEF u
  <2>2. PayloadLen(u) = FloatBytes /\ FloatBytes \in Nat
    BY <1>4, SetVolumeLayout, Constants
  <2> QED
    BY <2>1, <2>2
<1>8. r.fields[1] = Field(b, 3, FloatBytes)
  <2>1. w = <<FloatBytes>>
    <3> HIDE DEF u
    <3> QED
      BY <1>4, SetVolumeLayout
  <2>2. 1 \in DOMAIN w /\ w[1] = FloatBytes /\ 3 + Offset(w, 1) = 3
    BY <2>1, SetVolumeLayout
  <2> HIDE DEF w
  <2> QED
    BY <2>2
<1> QED
  BY <1>3, <1>5, <1>6, <1>7, <1>8

LEMMA Heading ==
  ASSUME NEW k \in Nat
  PROVE  CONTROL_MAGIC \o <<k>> = <<4, 1, k>>
<1> DEFINE a == <<4, 1>>
           b == <<k>>
           c == <<4, 1, k>>
<1>1. /\ a \in Seq(Nat) /\ Len(a) = 2 /\ a[1] = 4 /\ a[2] = 1
      /\ b \in Seq(Nat) /\ Len(b) = 1 /\ b[1] = k
      /\ c \in Seq(Nat) /\ Len(c) = 3 /\ c[1] = 4 /\ c[2] = 1 /\ c[3] = k
  OBVIOUS
<1>2. CONTROL_MAGIC = a
  BY DEF CONTROL_MAGIC
<1> HIDE DEF a, b, c
<1>3. /\ a \o b \in Seq(Nat) /\ Len(a \o b) = Len(a) + Len(b)
      /\ \A i \in 1 .. Len(a) + Len(b) : (a \o b)[i] = IF i <= Len(a) THEN a[i] ELSE b[i - Len(a)]
  <2>1. a \in Seq(Nat) /\ b \in Seq(Nat)
    BY <1>1
  <2> QED
    BY ONLY <2>1, ConcatProperties
<1>4. Len(a \o b) = 3 /\ (a \o b)[1] = 4 /\ (a \o b)[2] = 1 /\ (a \o b)[3] = k
  BY <1>1, <1>3
<1>5. \A i \in 1 .. 3 : i = 1 \/ i = 2 \/ i = 3
  OBVIOUS
<1>6. \A i \in 1 .. 3 : (a \o b)[i] = c[i]
  BY <1>1, <1>4, <1>5
<1>7. a \o b = c
  BY <1>1, <1>3, <1>4, <1>6, SeqEqual
<1> QED
  BY <1>2, <1>7 DEF b, c

(* What a peer sends, as far as it is looked at.                            *)
Request(v) == [type |-> "SetVolume", fields |-> <<Bits(v)>>]

LEMMA MessageParts ==
  ASSUME NEW m \in Messages
  PROVE  /\ m.type \in Types /\ SerializeControl(m) \in Seq(Bytes)
         /\ Len(SerializeControl(m)) >= 3
         /\ SerializeControl(m)[3] = Layout(m.type).id
<1> DEFINE t == m.type
           w == Layout(t).widths
           ss == [i \in DOMAIN w |-> WriteBE(m.fields[i], w[i])]
           h == CONTROL_MAGIC \o <<Layout(t).id>>
           x == FlattenSeq(ss)
<1>1. t \in Types /\ \A i \in DOMAIN w : m.fields[i] \in Nat
  <2>1. CASE \E v \in PeerVolumes : m = Request(v)
    <3>1. PICK v \in PeerVolumes : m = Request(v)
      BY <2>1
    <3>2. t = "SetVolume" /\ m.fields = <<Bits(v)>>
      BY <3>1 DEF Request
    <3>3. Bits(v) \in Nat
      BY BitsOf
    <3> HIDE DEF t
    <3>4. w = <<FloatBytes>>
      BY <3>2, SetVolumeLayout
    <3>5. DOMAIN w = {1}
      BY <3>4
    <3>6. m.fields[1] = Bits(v)
      BY <3>2
    <3> HIDE DEF w
    <3> QED
      BY <3>2, <3>3, <3>5, <3>6 DEF Types
  <2>2. CASE \E s \in Types \ {"SetVolume"} :
               m = [type |-> s, fields |-> [i \in DOMAIN Layout(s).widths |-> 0]]
    <3>1. PICK s \in Types \ {"SetVolume"} :
               m = [type |-> s, fields |-> [i \in DOMAIN Layout(s).widths |-> 0]]
      BY <2>2
    <3>2. t = s /\ m.fields = [i \in DOMAIN Layout(s).widths |-> 0]
      BY <3>1
    <3>3. \A i \in DOMAIN Layout(s).widths : m.fields[i] = 0
      BY <3>2
    <3> QED
      BY <3>2, <3>3
  <2> QED
    BY <2>1, <2>2 DEF Messages, Request
<1>2. w \in Seq(Nat) /\ Layout(t).id \in 1 .. 5
  BY <1>1, Layouts
<1>3. x \in Seq(Bytes)
  <2> HIDE DEF t, w
  <2>1. Len(w) \in Nat /\ DOMAIN w = 1 .. Len(w) /\ \A i \in 1 .. Len(w) : w[i] \in Nat
    BY <1>2
  <2>2. ASSUME NEW i \in 1 .. Len(w)
        PROVE  WriteBE(m.fields[i], w[i]) \in Seq(Bytes)
    <3>1. m.fields[i] \in Nat /\ w[i] \in Nat
      BY <1>1, <2>1
    <3> QED
      BY <3>1, WriteType
  <2>3. ss \in [1 .. Len(w) -> Seq(Bytes)]
    BY <2>1, <2>2
  <2> HIDE DEF ss
  <2>4. ss \in Seq(Seq(Bytes))
    BY <2>1, <2>3
  <2>5. Flatten(ss) \in Seq(Bytes)
    BY <2>4, FlattenType
  <2> QED
    BY <2>5 DEF FlattenSeq, Flatten
<1>4. SerializeControl(m) = h \o x
  BY DEF SerializeControl
<1>5. h \in Seq(Bytes) /\ Len(h) = 3 /\ h[3] = Layout(t).id
  <2> DEFINE k == Layout(t).id
  <2>1. k \in Bytes /\ 4 \in Bytes /\ 1 \in Bytes
    BY <1>2, Constants DEF Bytes
  <2>2. h = <<4, 1, k>>
    BY <1>2, Heading
  <2> HIDE DEF k, h
  <2>3. h \in Seq(Bytes) /\ Len(h) = 3 /\ h[3] = k
    BY <2>1, <2>2
  <2> QED
    BY <2>3 DEF k
<1> HIDE DEF h, x
<1>6. /\ h \o x \in Seq(Bytes) /\ Len(h \o x) = Len(h) + Len(x)
      /\ \A i \in 1 .. Len(h) + Len(x) : (h \o x)[i] = IF i <= Len(h) THEN h[i] ELSE x[i - Len(h)]
  <2>1. h \in Seq(Bytes) /\ x \in Seq(Bytes)
    BY <1>3, <1>5
  <2> QED
    BY ONLY <2>1, ConcatProperties
<1>7. Len(h \o x) >= 3 /\ (h \o x)[3] = h[3]
  <2>1. Len(x) \in Nat
    BY <1>3
  <2>2. 3 \in 1 .. Len(h) + Len(x) /\ 3 <= Len(h)
    BY <1>5, <2>1
  <2> QED
    BY <1>5, <1>6, <2>1, <2>2
<1> HIDE DEF t
<1>8. SerializeControl(m) \in Seq(Bytes) /\ Len(SerializeControl(m)) >= 3
      /\ SerializeControl(m)[3] = Layout(t).id
  BY <1>4, <1>5, <1>6, <1>7
<1> QED
  BY <1>1, <1>8 DEF t

LEMMA RequestParts ==
  ASSUME NEW v \in PeerVolumes
  PROVE  /\ Request(v) \in Messages
         /\ Len(SerializeControl(Request(v))) = 3 + FloatBytes
         /\ Field(SerializeControl(Request(v)), 3, FloatBytes) = Bits(v)
<1> DEFINE d == SerializeControl(Request(v))
           x == WriteBE(Bits(v), FloatBytes)
           h == <<4, 1, 3>>
<1>1. FloatBytes \in Nat /\ Bits(v) \in Nat
  BY Constants, BitsOf
<1>2. x \in Seq(Bytes) /\ Len(x) = FloatBytes /\ ReadBE(x) = Bits(v)
  BY <1>1, WriteType, BitsOf
<1>3. d = h \o x
  <2> DEFINE w == <<FloatBytes>>
             ss == [i \in DOMAIN w |-> WriteBE(<<Bits(v)>>[i], w[i])]
  <2>1. d = (CONTROL_MAGIC \o <<3>>) \o FlattenSeq(ss)
    <3>1. Layout(Request(v).type) = [id |-> 3, widths |-> w]
      <4>1. Request(v).type = "SetVolume"
        BY DEF Request
      <4> QED
        BY <4>1, SetVolumeLayout
    <3>2. Request(v).fields = <<Bits(v)>>
      BY DEF Request
    <3>3. Layout(Request(v).type).widths = w /\ Layout(Request(v).type).id = 3
      BY <3>1
    <3> HIDE DEF w
    <3> QED
      BY <3>2, <3>3 DEF SerializeControl
  <2>2. ss = <<x>>
    BY <1>1
  <2>3. FlattenSeq(<<x>>) = x
    <3> HIDE DEF x
    <3>1. << >> \in Seq(Seq(Bytes)) /\ <<x>> = Append(<< >>, x)
      BY EmptySeq
    <3>2. Flatten(Append(<< >>, x)) = Flatten(<< >>) \o x
      BY <1>2, <3>1, FlattenAppend
    <3>3. << >> \o x = x
      BY <1>2
    <3>4. Flatten(<<x>>) = x
      BY <3>1, <3>2, <3>3, FlattenEmpty
    <3> QED
      BY <3>4 DEF FlattenSeq, Flatten
  <2>4. CONTROL_MAGIC \o <<3>> = h
    <3> DEFINE k == 3
    <3>1. k \in Nat
      OBVIOUS
    <3> HIDE DEF k
    <3>2. CONTROL_MAGIC \o <<k>> = <<4, 1, k>>
      BY <3>1, Heading
    <3> QED
      BY <3>2 DEF k
  <2> HIDE DEF ss, x, h, w, d
  <2> QED
    BY <2>1, <2>2, <2>3, <2>4
<1>4. h \in Seq(Bytes) /\ Len(h) = 3
  BY Constants DEF Bytes
<1> HIDE DEF d, x, h
<1>5. /\ h \o x \in Seq(Bytes) /\ Len(h \o x) = Len(h) + Len(x)
      /\ \A i \in 1 .. Len(h) + Len(x) : (h \o x)[i] = IF i <= Len(h) THEN h[i] ELSE x[i - Len(h)]
  <2>1. h \in Seq(Bytes) /\ x \in Seq(Bytes)
    BY <1>2, <1>4
  <2> QED
    BY ONLY <2>1, ConcatProperties
<1> DEFINE o == 3
<1>6. d \in Seq(Bytes) /\ Len(d) = o + Len(x) /\ o \in Nat
  BY <1>3, <1>4, <1>5
<1>7. \A i \in 1 .. Len(x) : d[o + i] = x[i]
  <2> TAKE i \in 1 .. Len(x)
  <2>1. o + i \in 1 .. Len(h) + Len(x) /\ ~(o + i <= Len(h)) /\ (o + i) - Len(h) = i
    BY <1>1, <1>2, <1>4
  <2> HIDE DEF o
  <2> QED
    BY <1>3, <1>5, <2>1
<1> HIDE DEF o
<1>8. SubSeq(d, o + 1, o + Len(x)) = x
  <2>1. o + Len(x) <= Len(d)
    BY <1>1, <1>2, <1>6
  <2> QED
    BY <1>2, <1>6, <1>7, <2>1, PartAt
<1>9. Field(d, 3, FloatBytes) = Bits(v)
  BY <1>2, <1>8 DEF Field, Slice, o
<1>10. Request(v) \in Messages
  BY DEF Request, Messages
<1> QED
  BY <1>2, <1>6, <1>9, <1>10 DEF o, d
(* Only a whole request sets the volume: not one that is cut short, nor a   *)
(* datagram with another magic, nor another message.                        *)
LEMMA OnlyRequests ==
  ASSUME NEW d \in Datagrams
  PROVE  /\ d \in Seq(Bytes)
         /\ IsSetVolume(DeserializeControl(d)) =>
              \E v \in PeerVolumes :
                d = SerializeControl(Request(v)) /\ FromBits(DeserializeControl(d).fields[1]) = v
<1> DEFINE R == IsSetVolume(DeserializeControl(d))
<1>1. PICK m \in Messages :
        LET e == SerializeControl(m) IN d \in {e, Front(e), <<0>> \o Tail(e)}
  BY DEF Datagrams
<1> DEFINE e == SerializeControl(m)
<1>2. /\ m.type \in Types /\ e \in Seq(Bytes) /\ Len(e) >= 3 /\ Len(e) \in Nat
      /\ e[3] = Layout(m.type).id
  BY MessageParts
<1>3. d = e \/ d = Front(e) \/ d = <<0>> \o Tail(e)
  BY <1>1
<1>4. e[3] = 3 => \E v \in PeerVolumes : m = Request(v)
  <2> SUFFICES ASSUME e[3] = 3 PROVE \E v \in PeerVolumes : m = Request(v)
    OBVIOUS
  <2>1. m.type = "SetVolume"
    BY <1>2, Layouts
  <2>2. \A s \in Types \ {"SetVolume"} :
          m # [type |-> s, fields |-> [i \in DOMAIN Layout(s).widths |-> 0]]
    BY <2>1
  <2> QED
    BY <2>2 DEF Messages, Request
<1> HIDE DEF e, R
<1>5. FloatBytes \in Nat \ {0} /\ 0 \in Bytes
  BY Constants DEF Bytes
<1>6. CASE d = e
  <2>1. d \in Seq(Bytes)
    BY <1>2, <1>6
  <2>2. ASSUME R
        PROVE  \E v \in PeerVolumes :
                 d = SerializeControl(Request(v)) /\ FromBits(DeserializeControl(d).fields[1]) = v
    <3>1. d[3] = 3 /\ DeserializeControl(d).fields[1] = Field(d, 3, FloatBytes)
      BY <2>1, <2>2, RequestRead DEF R
    <3>2. PICK v \in PeerVolumes : m = Request(v)
      BY <1>4, <1>6, <3>1
    <3>3. d = SerializeControl(Request(v))
      BY <1>6, <3>2 DEF e
    <3>4. Field(d, 3, FloatBytes) = Bits(v)
      BY <3>3, RequestParts
    <3> QED
      BY <3>1, <3>3, <3>4, BitsOf
  <2> QED
    BY <2>1, <2>2 DEF R
<1>7. CASE d = Front(e)
  <2>1. /\ d \in Seq(Bytes) /\ Len(d) = Len(e) - 1
        /\ \A i \in 1 .. Len(e) - 1 : d[i] = e[i]
    <3> DEFINE n == Len(e) - 1
    <3>1. n \in Nat /\ n <= Len(e)
      BY <1>2
    <3>2. d = SubSeq(e, 1, n)
      BY <1>7 DEF Front
    <3> HIDE DEF n
    <3>3. d \in Seq(Bytes) /\ Len(d) = n /\ \A i \in 1 .. n : d[i] = e[i]
      BY <1>2, <3>1, <3>2
    <3> QED
      BY <3>3 DEF n
  <2>2. ~R
    <3> SUFFICES ASSUME R PROVE FALSE
      OBVIOUS
    <3>1. Len(d) >= 3 + FloatBytes /\ d[3] = 3
      BY <2>1, RequestRead DEF R
    <3>2. e[3] = 3
      BY <1>2, <1>5, <2>1, <3>1
    <3>3. PICK v \in PeerVolumes : m = Request(v)
      BY <1>4, <3>2
    <3>4. Len(e) = 3 + FloatBytes
      BY <3>3, RequestParts DEF e
    <3> QED
      BY <1>2, <1>5, <2>1, <3>1, <3>4
  <2> QED
    BY <2>1, <2>2 DEF R
<1>8. CASE d = <<0>> \o Tail(e)
  <2> DEFINE z == <<0>>
             t == Tail(e)
  <2>1. z \in Seq(Bytes) /\ Len(z) = 1 /\ z[1] = 0
    BY <1>5
  <2>2. t \in Seq(Bytes) /\ Len(t) \in Nat
    <3>1. e # << >>
      BY <1>2
    <3> QED
      BY <1>2, <3>1
  <2>3. d = z \o t
    BY <1>8
  <2> HIDE DEF z, t
  <2>4. /\ z \o t \in Seq(Bytes)
        /\ \A i \in 1 .. Len(z) + Len(t) : (z \o t)[i] = IF i <= Len(z) THEN z[i] ELSE t[i - Len(z)]
    <3>1. z \in Seq(Bytes) /\ t \in Seq(Bytes)
      BY <2>1, <2>2
    <3> QED
      BY ONLY <3>1, ConcatProperties
  <2>5. d \in Seq(Bytes) /\ d[1] = 0
    <3>1. 1 \in 1 .. Len(z) + Len(t) /\ 1 <= Len(z)
      BY <2>1, <2>2
    <3>2. (z \o t)[1] = 0
      BY <2>1, <2>4, <3>1
    <3> QED
      BY <2>3, <2>4, <3>2
  <2>6. ~R
    BY <2>5, RequestRead DEF R
  <2> QED
    BY <2>5, <2>6 DEF R
<1> QED
  BY <1>3, <1>6, <1>7, <1>8

(* What the buffer held before does not matter.                             *)
LEMMA Arrived ==
  ASSUME VolumeTypes, NEW d \in Datagrams, ControlReceive(d)
  PROVE  /\ buf' \in [1 .. BufLen -> Bytes]
         /\ MessageReceived(Len(d)) = DeserializeControl(d)
<1>1. /\ d \in Seq(Bytes) /\ Len(d) \in Nat /\ Len(d) <= BufLen /\ BufLen \in Nat
      /\ buf \in [1 .. BufLen -> Bytes]
  BY OnlyRequests, BufferAssumption, BufLenType DEF VolumeTypes
<1> DEFINE b == [i \in DOMAIN buf |-> IF i <= Len(d) THEN d[i] ELSE buf[i]]
<1>2. buf' = b /\ DOMAIN buf = 1 .. BufLen
  BY <1>1 DEF ControlReceive
<1>3. /\ b \in [1 .. BufLen -> Bytes]
      /\ \A i \in 1 .. Len(d) : b[i] = d[i]
  <2>1. ASSUME NEW i \in 1 .. BufLen
        PROVE  b[i] \in Bytes /\ (i <= Len(d) => b[i] = d[i])
    <3>1. b[i] = IF i <= Len(d) THEN d[i] ELSE buf[i]
      BY <1>2
    <3> HIDE DEF b
    <3>2. CASE i <= Len(d)
      <4>1. i \in 1 .. Len(d)
        BY <1>1, <3>2
      <4> QED
        BY <1>1, <3>1, <3>2, <4>1
    <3>3. CASE ~(i <= Len(d))
      BY <1>1, <3>1, <3>3
    <3> QED
      BY <3>2, <3>3
  <2>2. b = [i \in 1 .. BufLen |-> b[i]]
    BY <1>2
  <2> HIDE DEF b
  <2>3. b \in [1 .. BufLen -> Bytes]
    BY <2>1, <2>2
  <2>4. \A i \in 1 .. Len(d) : i \in 1 .. BufLen /\ i <= Len(d)
    BY <1>1
  <2> QED
    BY <2>1, <2>3, <2>4
<1> HIDE DEF b
<1>4. b \in Seq(Bytes) /\ Len(b) = BufLen
  BY <1>1, <1>3
<1> DEFINE o == 0
<1>5. o \in Nat /\ o + Len(d) <= Len(b) /\ \A i \in 1 .. Len(d) : b[o + i] = d[i]
  BY <1>1, <1>3, <1>4
<1> HIDE DEF o
<1>6. SubSeq(b, o + 1, o + Len(d)) = d
  BY <1>1, <1>4, <1>5, PartAt
<1>7. o + 1 = 1 /\ o + Len(d) = Len(d)
  BY <1>1 DEF o
<1>8. SubSeq(buf', 1, Len(d)) = d
  BY <1>2, <1>6, <1>7
<1> QED
  BY <1>2, <1>3, <1>8 DEF MessageReceived

-----------------------------------------------------------------------------
(* Volumes.                                                                 *)
LEMMA ClampType ==
  /\ \A v \in Levels : Clamp(v) = v
  /\ \A v \in PeerVolumes \cup Levels : Clamp(v) \in Levels \cup {NaN}
<1>1. NaN \notin Int /\ Levels = 0 .. 3 /\ MaxLevel = 3
  BY Constants DEF Levels, MaxLevel
<1>2. ASSUME NEW v \in Levels PROVE Clamp(v) = v
  BY <1>1 DEF Clamp
<1>3. ASSUME NEW v \in PeerVolumes PROVE Clamp(v) \in Levels \cup {NaN}
  <2>1. CASE v = NaN
    BY <2>1 DEF Clamp
  <2>2. CASE v = -1
    <3>1. v # NaN /\ v < 0
      BY <1>1, <2>2
    <3>2. Clamp(v) = 0
      BY <1>1, <2>2, <3>1 DEF Clamp
    <3> QED
      BY <1>1, <3>2
  <2>3. CASE v = MaxLevel + 1
    <3>1. v # NaN /\ ~(v < 0) /\ v > MaxLevel
      BY <1>1, <2>3
    <3>2. Clamp(v) = MaxLevel
      BY <1>1, <2>3, <3>1 DEF Clamp
    <3> QED
      BY <1>1, <3>2
  <2> QED
    BY <2>1, <2>2, <2>3 DEF PeerVolumes, ForeignVolumes
<1> QED
  BY <1>2, <1>3

(* A datagram sets the volume to the one it asks for, or leaves it.         *)
LEMMA DatagramAsks ==
  ASSUME VolumeTypes, NEW d \in Datagrams, ControlReceive(d)
  PROVE  /\ asked' \subseteq PeerVolumes \cup Levels /\ asked \subseteq asked'
         /\ volume' = volume \/ \E v \in asked' : volume' = Clamp(v)
         /\ volume' = volume \/ disturbed'
<1>1. MessageReceived(Len(d)) = DeserializeControl(d)
  BY Arrived
<1> DEFINE m == DeserializeControl(d)
           S == {v \in PeerVolumes : d = SerializeControl(Request(v))}
<1>2. asked' = asked \cup S
  BY DEF ControlReceive, Request
<1>3. \/ IsSetVolume(m) /\ volume' = Clamp(FromBits(m.fields[1])) /\ disturbed' = TRUE
      \/ ~IsSetVolume(m) /\ volume' = volume
  BY <1>1 DEF ControlReceive
<1>4. IsSetVolume(m) => \E v \in S : FromBits(m.fields[1]) = v
  BY OnlyRequests
<1>5. asked \subseteq PeerVolumes \cup Levels /\ S \subseteq PeerVolumes
  BY DEF VolumeTypes
<1> HIDE DEF m, S
<1>6. CASE ~IsSetVolume(m) /\ volume' = volume
  BY <1>2, <1>5, <1>6
<1>7. CASE IsSetVolume(m) /\ volume' = Clamp(FromBits(m.fields[1])) /\ disturbed' = TRUE
  <2>1. PICK v \in S : FromBits(m.fields[1]) = v
    BY <1>4, <1>7
  <2>2. v \in asked' /\ volume' = Clamp(v) /\ disturbed'
    BY <1>2, <1>7, <2>1
  <2> QED
    BY <1>2, <1>5, <2>2
<1> QED
  BY <1>3, <1>6, <1>7
-----------------------------------------------------------------------------
(* Steps.                                                                   *)
LEMMA ChooseTypes ==
  ASSUME VolumeTypes, NEW p \in Pages, NEW v \in Levels, Choose(p, v)
  PROVE  /\ choices' = choices + 1 /\ choices \in Nat /\ choices' \in 1 .. MaxChoices
         /\ lastChoice' = v /\ asked' = asked \cup {v} /\ asked' \subseteq PeerVolumes \cup Levels
         /\ shown' \in [Pages -> Levels] /\ buf' \in [1 .. BufLen -> Bytes]
         /\ responses' \in [Pages -> SUBSET Levels] /\ UNCHANGED <<volume, responses>>
         /\ posts \subseteq [choice : 0 .. choices', volume : Levels \cup ForeignVolumes]
         /\ \A post \in posts : post.choice < choices'
<1>1. /\ choices < MaxChoices /\ choices' = choices + 1 /\ lastChoice' = v
      /\ shown' = [shown EXCEPT ![p] = v] /\ asked' = asked \cup {v}
      /\ UNCHANGED <<volume, buf, responses>>
  BY DEF Choose, server
<1>2. /\ choices \in 0 .. MaxChoices /\ MaxChoices \in Nat
      /\ posts \subseteq [choice : 0 .. choices, volume : Levels \cup ForeignVolumes]
      /\ asked \subseteq PeerVolumes \cup Levels
      /\ shown \in [Pages -> Levels] /\ buf \in [1 .. BufLen -> Bytes]
      /\ responses \in [Pages -> SUBSET Levels]
  BY Constants DEF VolumeTypes
<1>3. choices \in Nat /\ choices' \in 1 .. MaxChoices
  BY <1>1, <1>2
<1>4. ASSUME NEW post \in posts
      PROVE  post \in [choice : 0 .. choices', volume : Levels \cup ForeignVolumes] /\ post.choice < choices'
  <2>1. post \in [choice : 0 .. choices, volume : Levels \cup ForeignVolumes]
    BY <1>2
  <2>2. /\ post = [choice |-> post.choice, volume |-> post.volume]
        /\ post.choice \in 0 .. choices /\ post.volume \in Levels \cup ForeignVolumes
    BY <2>1
  <2>3. post.choice \in 0 .. choices' /\ post.choice < choices'
    BY <1>1, <1>3, <2>2
  <2> QED
    BY <2>2, <2>3
<1>5. shown' \in [Pages -> Levels]
  BY <1>1, <1>2
<1> QED
  BY <1>1, <1>2, <1>3, <1>4, <1>5

LEMMA DragStep ==
  ASSUME VolumeTypes, AskedFor, Latest, NEW p \in Pages, NEW v \in SliderValues, Drag(p, v)
  PROVE  VolumeTypes' /\ AskedFor' /\ Latest'
<1>1. /\ Choose(p, v) /\ v \in Levels
      /\ focused' = [focused EXCEPT ![p] = TRUE] /\ held' = [held EXCEPT ![p] = TRUE]
      /\ timers' = [timers EXCEPT ![p] = {v}]
      /\ posts' = posts /\ disturbed' = (disturbed \/ \E q \in Pages \ {p} : timers[q] # {})
  BY Constants DEF Drag, Debounce
<1>2. /\ choices' = choices + 1 /\ choices \in Nat /\ choices' \in 1 .. MaxChoices
      /\ lastChoice' = v /\ asked' = asked \cup {v} /\ asked' \subseteq PeerVolumes \cup Levels
      /\ shown' \in [Pages -> Levels] /\ buf' \in [1 .. BufLen -> Bytes]
      /\ responses' \in [Pages -> SUBSET Levels] /\ volume' = volume
      /\ posts \subseteq [choice : 0 .. choices', volume : Levels \cup ForeignVolumes]
      /\ \A post \in posts : post.choice < choices'
  BY <1>1, ChooseTypes
<1>3. /\ timers \in [Pages -> SUBSET Levels] /\ focused \in [Pages -> BOOLEAN]
      /\ held \in [Pages -> BOOLEAN]
  BY DEF VolumeTypes
<1>4. /\ timers' \in [Pages -> SUBSET Levels] /\ focused' \in [Pages -> BOOLEAN]
      /\ held' \in [Pages -> BOOLEAN]
      /\ timers'[p] = {v} /\ \A q \in Pages \ {p} : timers'[q] = timers[q]
  BY <1>1, <1>3
<1>5. VolumeTypes'
  <2>1. choices' # 0 /\ choices' > 0 /\ choices' \in 0 .. MaxChoices
    BY <1>2
  <2> QED
    BY <1>1, <1>2, <1>4, <2>1 DEF VolumeTypes
<1>6. AskedFor'
  <2>1. \A q \in Pages : timers[q] \subseteq asked
    BY DEF AskedFor
  <2>2. \A q \in Pages : timers'[q] \subseteq asked'
    BY <1>2, <1>4, <2>1
  <2>3. \A post \in posts' : post.volume \in asked'
    BY <1>1, <1>2 DEF AskedFor
  <2>4. OnlyAskedVolumes'
    BY <1>2 DEF AskedFor, OnlyAskedVolumes
  <2> QED
    BY <2>2, <2>3, <2>4 DEF AskedFor
<1>7. Latest'
  <2> SUFFICES ASSUME ~disturbed' PROVE Waiting'
    BY DEF Latest
  <2>1. \A q \in Pages \ {p} : timers[q] = {}
    BY <1>1, Zenon
  <2> QED
    BY <1>1, <1>2, <1>4, <2>1 DEF Waiting
<1> QED
  BY <1>5, <1>6, <1>7

LEMMA PresetStep ==
  ASSUME VolumeTypes, AskedFor, Latest, NEW p \in Pages, NEW v \in PresetValues, Preset(p, v)
  PROVE  VolumeTypes' /\ AskedFor' /\ Latest'
<1> DEFINE x == [choice |-> choices', volume |-> v]
<1>1. /\ Choose(p, v) /\ v \in Levels
      /\ focused' = [focused EXCEPT ![p] = FALSE] /\ held' = [held EXCEPT ![p] = FALSE]
      /\ timers' = timers
      /\ posts' = posts \cup {x} /\ disturbed' = (disturbed \/ \E q \in Pages : timers[q] # {})
  BY Constants DEF Preset
<1>2. /\ choices' = choices + 1 /\ choices \in Nat /\ choices' \in 1 .. MaxChoices
      /\ lastChoice' = v /\ asked' = asked \cup {v} /\ asked' \subseteq PeerVolumes \cup Levels
      /\ shown' \in [Pages -> Levels] /\ buf' \in [1 .. BufLen -> Bytes]
      /\ responses' \in [Pages -> SUBSET Levels] /\ volume' = volume
      /\ posts \subseteq [choice : 0 .. choices', volume : Levels \cup ForeignVolumes]
      /\ \A post \in posts : post.choice < choices'
  BY <1>1, ChooseTypes
<1>3. /\ timers \in [Pages -> SUBSET Levels] /\ focused' \in [Pages -> BOOLEAN]
      /\ held' \in [Pages -> BOOLEAN]
  BY <1>1 DEF VolumeTypes
<1>4. x.choice = choices' /\ x.volume = v /\ x \in [choice : 0 .. choices', volume : Levels \cup ForeignVolumes]
  BY <1>1, <1>2
<1>5. VolumeTypes'
  <2>1. choices' # 0 /\ choices' > 0 /\ choices' \in 0 .. MaxChoices
    BY <1>2
  <2>2. posts' \subseteq [choice : 0 .. choices', volume : Levels \cup ForeignVolumes]
    BY <1>1, <1>2, <1>4
  <2> QED
    BY <1>1, <1>2, <1>3, <2>1, <2>2 DEF VolumeTypes
<1>6. AskedFor'
  <2>1. \A q \in Pages : timers'[q] \subseteq asked'
    BY <1>1, <1>2 DEF AskedFor
  <2>2. \A post \in posts' : post.volume \in asked'
    BY <1>1, <1>2, <1>4 DEF AskedFor
  <2>3. OnlyAskedVolumes'
    BY <1>2 DEF AskedFor, OnlyAskedVolumes
  <2> QED
    BY <2>1, <2>2, <2>3 DEF AskedFor
<1>7. Latest'
  <2> SUFFICES ASSUME ~disturbed' PROVE Posted'
    BY DEF Latest
  <2>1. \A q \in Pages : timers[q] = {}
    BY <1>1, Zenon
  <2>2. NoTimer'
    BY <1>1, <2>1 DEF NoTimer
  <2>3. [choice |-> choices', volume |-> lastChoice'] \in posts'
    BY <1>1, <1>2
  <2>4. ASSUME NEW post \in posts', post.choice = choices'
        PROVE  post.volume = lastChoice'
    <3>1. post = x \/ post \in posts
      BY <1>1
    <3>2. post \in posts => post.choice < choices'
      BY <1>2
    <3>3. ~(choices' < choices')
      BY <1>2
    <3>4. post = x
      BY <2>4, <3>1, <3>2, <3>3
    <3> QED
      BY <1>2, <1>4, <3>4
  <2> QED
    BY <2>2, <2>3, <2>4 DEF Posted
<1> QED
  BY <1>5, <1>6, <1>7

LEMMA TimerStep ==
  ASSUME VolumeTypes, AskedFor, Latest, NEW p \in Pages, NEW v \in Levels, TimerFires(p, v)
  PROVE  VolumeTypes' /\ AskedFor' /\ Latest'
<1> DEFINE x == [choice |-> choices, volume |-> v]
<1>1. /\ v \in timers[p] /\ timers' = [timers EXCEPT ![p] = @ \ {v}] /\ posts' = posts \cup {x}
      /\ UNCHANGED <<volume, buf, shown, focused, held, responses, choices, lastChoice, asked,
                     disturbed>>
  BY DEF TimerFires, SendDragged, server, focus, history
<1>2. /\ timers \in [Pages -> SUBSET Levels] /\ choices \in 0 .. MaxChoices
      /\ posts \subseteq [choice : 0 .. choices, volume : Levels \cup ForeignVolumes]
      /\ choices = 0 => NoTimer
  BY DEF VolumeTypes
<1>3. choices \in 1 .. MaxChoices
  <2>1. ~NoTimer
    BY <1>1 DEF NoTimer
  <2> QED
    BY <1>2, <2>1, Constants
<1>4. /\ timers' \in [Pages -> SUBSET Levels] /\ timers'[p] = timers[p] \ {v}
      /\ \A q \in Pages \ {p} : timers'[q] = timers[q]
  BY <1>1, <1>2
<1>5. x.choice = choices /\ x.volume = v /\ x \in [choice : 0 .. choices, volume : Levels \cup ForeignVolumes]
  BY <1>3
<1>6. VolumeTypes'
  <2>1. posts' \subseteq [choice : 0 .. choices', volume : Levels \cup ForeignVolumes]
    BY <1>1, <1>2, <1>5
  <2>2. choices' # 0
    BY <1>1, <1>3
  <2> QED
    BY <1>1, <1>4, <2>1, <2>2 DEF VolumeTypes
<1>7. AskedFor'
  <2>1. \A q \in Pages : timers[q] \subseteq asked
    BY DEF AskedFor
  <2>2. \A q \in Pages : timers'[q] \subseteq asked'
    BY <1>1, <1>4, <2>1
  <2>3. \A post \in posts' : post.volume \in asked'
    <3>1. v \in asked
      BY <1>1, <2>1
    <3> QED
      BY <1>1, <1>5, <3>1 DEF AskedFor
  <2>4. OnlyAskedVolumes'
    BY <1>1 DEF AskedFor, OnlyAskedVolumes
  <2> QED
    BY <2>2, <2>3, <2>4 DEF AskedFor
<1>8. Latest'
  <2> SUFFICES ASSUME ~disturbed' PROVE Posted'
    BY DEF Latest
  <2>1. ~NoTimer /\ ~disturbed /\ choices > 0
    BY <1>1, <1>3 DEF NoTimer
  <2>2. PICK r \in Pages : /\ timers[r] = {lastChoice}
                           /\ \A q \in Pages \ {r} : timers[q] = {}
                           /\ \A post \in posts : post.choice < choices
    BY <2>1 DEF Latest, Waiting, Posted, Settled
  <2>3. r = p /\ v = lastChoice
    BY <1>1, <2>2
  <2>4. NoTimer'
    BY <1>4, <2>2, <2>3 DEF NoTimer
  <2>5. [choice |-> choices', volume |-> lastChoice'] \in posts'
    BY <1>1, <2>3
  <2>6. ASSUME NEW post \in posts', post.choice = choices'
        PROVE  post.volume = lastChoice'
    <3>1. post = x \/ post \in posts
      BY <1>1
    <3>2. post \in posts => post.choice < choices
      BY <2>2
    <3>3. ~(choices < choices) /\ choices' = choices
      BY <1>1, <1>3
    <3>4. post = x
      BY <2>6, <3>1, <3>2, <3>3
    <3> QED
      BY <1>1, <1>5, <2>3, <3>4
  <2> QED
    BY <2>4, <2>5, <2>6 DEF Posted
<1> QED
  BY <1>6, <1>7, <1>8

(* A step of a page or of the dashboard server that leaves the volume, the  *)
(* requests, the timers and the history alone.                              *)
LEMMA QuietStep ==
  ASSUME VolumeTypes, AskedFor, Latest, UNCHANGED <<server, timers, posts, history>>,
         shown' \in [Pages -> Levels], focused' \in [Pages -> BOOLEAN], held' \in [Pages -> BOOLEAN],
         responses' \in [Pages -> SUBSET Levels]
  PROVE  VolumeTypes' /\ AskedFor' /\ Latest'
<1>1. UNCHANGED <<volume, buf, timers, posts, choices, lastChoice, asked, disturbed>>
  BY DEF server, history
<1>2. VolumeTypes'
  BY <1>1 DEF VolumeTypes, NoTimer
<1>3. AskedFor'
  BY <1>1 DEF AskedFor, OnlyAskedVolumes
<1>4. Latest'
  BY <1>1 DEF Latest, Waiting, Posted, Settled, NoTimer
<1> QED
  BY <1>2, <1>3, <1>4

LEMMA BlurStep ==
  ASSUME VolumeTypes, AskedFor, Latest, NEW p \in Pages, Release(p) \/ Blur(p)
  PROVE  VolumeTypes' /\ AskedFor' /\ Latest'
<1>1. /\ focused' = focused \/ focused' = [focused EXCEPT ![p] = FALSE]
      /\ held' = [held EXCEPT ![p] = FALSE]
      /\ UNCHANGED <<server, shown, timers, responses, posts, history>>
  BY DEF Release, Blur
<1>2. /\ shown' \in [Pages -> Levels] /\ focused' \in [Pages -> BOOLEAN]
      /\ held' \in [Pages -> BOOLEAN] /\ responses' \in [Pages -> SUBSET Levels]
  BY <1>1 DEF VolumeTypes
<1> QED
  BY <1>1, <1>2, QuietStep

LEMMA StatsStep ==
  ASSUME VolumeTypes, AskedFor, Latest, NEW p \in Pages, NEW v \in Levels, StatsArrive(p, v)
  PROVE  VolumeTypes' /\ AskedFor' /\ Latest'
<1>1. /\ responses' = [responses EXCEPT ![p] = @ \ {v}]
      /\ shown' = IF focused[p] THEN shown ELSE [shown EXCEPT ![p] = v]
      /\ UNCHANGED <<server, focused, held, timers, posts, history>>
  BY DEF StatsArrive, Follow, focus
<1>2. /\ shown' \in [Pages -> Levels] /\ focused' \in [Pages -> BOOLEAN]
      /\ held' \in [Pages -> BOOLEAN] /\ responses' \in [Pages -> SUBSET Levels]
  BY <1>1 DEF VolumeTypes
<1> QED
  BY <1>1, <1>2, QuietStep

(* The volume is a level, or NaN.                                           *)
LEMMA VolumeType ==
  ASSUME VolumeTypes, AskedFor
  PROVE  volume \in Levels \cup {NaN} /\ 0 \in Levels
<1>1. Default \in Levels /\ 0 \in Levels
  BY DEF Default, Levels, MaxLevel
<1>2. volume \in {Default} \cup {Clamp(v) : v \in asked} /\ asked \subseteq PeerVolumes \cup Levels
  BY DEF AskedFor, OnlyAskedVolumes, VolumeTypes
<1> QED
  BY <1>1, <1>2, ClampType

LEMMA GetStep ==
  ASSUME VolumeTypes, AskedFor, Latest, NEW p \in Pages, GetStats(p)
  PROVE  VolumeTypes' /\ AskedFor' /\ Latest'
<1> DEFINE a == IF volume = NaN THEN 0 ELSE volume
<1>1. /\ responses' = [responses EXCEPT ![p] = @ \cup {a}]
      /\ UNCHANGED <<server, shown, focused, held, timers, posts, history>>
  BY DEF GetStats, focus
<1>2. a \in Levels
  BY VolumeType
<1> HIDE DEF a
<1>3. /\ shown' \in [Pages -> Levels] /\ focused' \in [Pages -> BOOLEAN]
      /\ held' \in [Pages -> BOOLEAN] /\ responses' \in [Pages -> SUBSET Levels]
  BY <1>1, <1>2 DEF VolumeTypes
<1> QED
  BY <1>1, <1>3, QuietStep

LEMMA SetVolumeStep ==
  ASSUME VolumeTypes, AskedFor, Latest, NEW post \in posts, SetVolume(post)
  PROVE  VolumeTypes' /\ AskedFor' /\ Latest'
<1>1. /\ posts' = posts \ {post} /\ volume' = Clamp(post.volume)
      /\ disturbed' = (disturbed \/ \E q \in posts : q.choice < post.choice)
      /\ UNCHANGED <<buf, shown, focused, held, timers, responses, choices, lastChoice, asked>>
  BY DEF SetVolume, page, focus
<1>2. posts \subseteq [choice : 0 .. choices, volume : Levels \cup ForeignVolumes] /\ choices \in Nat
  BY Constants DEF VolumeTypes
<1>4. VolumeTypes'
  BY <1>1 DEF VolumeTypes, NoTimer
<1>5. AskedFor'
  <2>1. OnlyAskedVolumes'
    BY <1>1 DEF AskedFor, OnlyAskedVolumes
  <2> QED
    BY <1>1, <2>1 DEF AskedFor
<1>6. Latest'
  <2> SUFFICES ASSUME ~disturbed', choices > 0
               PROVE  Waiting' \/ Posted' \/ Settled'
    BY <1>1 DEF Latest
  <2>1. ~disturbed /\ ~(\E q \in posts : q.choice < post.choice)
    BY <1>1, Zenon
  <2>2. CASE Waiting
    <3>1. Waiting'
      BY <1>1, <2>2 DEF Waiting
    <3> QED
      BY <3>1
  <2>3. CASE Posted
    <3> DEFINE x == [choice |-> choices, volume |-> lastChoice]
    <3>1. NoTimer /\ x \in posts /\ \A q \in posts : q.choice = choices => q.volume = lastChoice
      BY <2>3 DEF Posted
    <3>2. NoTimer'
      BY <1>1, <3>1 DEF NoTimer
    <3>3. CASE post = x
      <4>1. ASSUME NEW q \in posts PROVE q = x
        <5>1. /\ q = [choice |-> q.choice, volume |-> q.volume]
              /\ q.choice \in 0 .. choices
          BY <1>2
        <5>2. ~(q.choice < choices)
          BY <2>1, <3>3
        <5>3. q.choice = choices
          BY <1>2, <5>1, <5>2
        <5> QED
          BY <3>1, <5>1, <5>3
      <4>2. posts' = {}
        BY <1>1, <3>3, <4>1
      <4>3. volume' = lastChoice'
        <5>1. post.volume = lastChoice /\ lastChoice \in Levels
          BY <3>3 DEF VolumeTypes
        <5>2. Clamp(lastChoice) = lastChoice
          BY <5>1, ClampType
        <5> QED
          BY <1>1, <5>1, <5>2
      <4> QED
        BY <3>2, <4>2, <4>3 DEF Settled
    <3>4. CASE post # x
      <4>1. [choice |-> choices', volume |-> lastChoice'] \in posts'
        BY <1>1, <3>1, <3>4
      <4>2. \A q \in posts' : q.choice = choices' => q.volume = lastChoice'
        BY <1>1, <3>1
      <4> QED
        BY <3>2, <4>1, <4>2 DEF Posted
    <3> QED
      BY <3>3, <3>4
  <2>4. ~Settled
    BY DEF Settled
  <2> QED
    BY <2>1, <2>2, <2>3, <2>4 DEF Latest
<1> QED
  BY <1>4, <1>5, <1>6

LEMMA PostFailsStep ==
  ASSUME VolumeTypes, AskedFor, Latest, NEW post \in posts, PostFails(post)
  PROVE  VolumeTypes' /\ AskedFor' /\ Latest'
<1>1. /\ posts' = posts \ {post} /\ disturbed' = TRUE
      /\ UNCHANGED <<volume, buf, shown, focused, held, timers, responses, choices, lastChoice,
                     asked>>
  BY DEF PostFails, server, page, focus
<1>2. VolumeTypes'
  BY <1>1 DEF VolumeTypes, NoTimer
<1>3. AskedFor'
  BY <1>1 DEF AskedFor, OnlyAskedVolumes
<1>4. Latest'
  BY <1>1 DEF Latest
<1> QED
  BY <1>2, <1>3, <1>4

LEMMA ForeignStep ==
  ASSUME VolumeTypes, AskedFor, Latest, NEW v \in ForeignVolumes, ForeignPost(v)
  PROVE  VolumeTypes' /\ AskedFor' /\ Latest'
<1> DEFINE x == [choice |-> 0, volume |-> v]
<1>1. /\ posts' = posts \cup {x} /\ asked' = asked \cup {v} /\ disturbed' = TRUE
      /\ UNCHANGED <<volume, buf, shown, focused, held, timers, responses, choices, lastChoice>>
  BY DEF ForeignPost, page, focus
<1>2. choices \in 0 .. MaxChoices /\ MaxChoices \in Nat
  BY Constants DEF VolumeTypes
<1>3. x \in [choice : 0 .. choices, volume : Levels \cup ForeignVolumes] /\ x.volume = v
  BY <1>2
<1> HIDE DEF x
<1>4. posts' \subseteq [choice : 0 .. choices', volume : Levels \cup ForeignVolumes]
  BY <1>1, <1>3 DEF VolumeTypes
<1>5. asked' \subseteq PeerVolumes \cup Levels
  BY <1>1 DEF VolumeTypes, PeerVolumes
<1>6. VolumeTypes'
  BY <1>1, <1>4, <1>5 DEF VolumeTypes, NoTimer
<1>7. AskedFor'
  <2>1. \A q \in Pages : timers'[q] \subseteq asked'
    BY <1>1 DEF AskedFor
  <2>2. \A post \in posts' : post.volume \in asked'
    BY <1>1, <1>3 DEF AskedFor
  <2>3. OnlyAskedVolumes'
    BY <1>1 DEF AskedFor, OnlyAskedVolumes
  <2> QED
    BY <2>1, <2>2, <2>3 DEF AskedFor
<1>8. Latest'
  BY <1>1 DEF Latest
<1> QED
  BY <1>6, <1>7, <1>8

LEMMA ReceiveStep ==
  ASSUME VolumeTypes, AskedFor, Latest, NEW d \in Datagrams, ControlReceive(d)
  PROVE  VolumeTypes' /\ AskedFor' /\ Latest'
<1>1. UNCHANGED <<shown, focused, held, timers, responses, posts, choices, lastChoice>>
  BY DEF ControlReceive, page, focus
<1>2. buf' \in [1 .. BufLen -> Bytes]
  BY Arrived
<1>3. /\ asked' \subseteq PeerVolumes \cup Levels /\ asked \subseteq asked'
      /\ volume' = volume \/ \E v \in asked' : volume' = Clamp(v)
      /\ volume' = volume \/ disturbed'
  BY DatagramAsks
<1>4. disturbed' = disturbed \/ disturbed'
  BY DEF ControlReceive
<1>5. VolumeTypes'
  BY <1>1, <1>2, <1>3 DEF VolumeTypes, NoTimer
<1>6. AskedFor'
  <2>1. OnlyAskedVolumes'
    BY <1>3 DEF AskedFor, OnlyAskedVolumes
  <2> QED
    BY <1>1, <1>3, <2>1 DEF AskedFor
<1>7. Latest'
  <2>1. CASE disturbed'
    BY <2>1 DEF Latest
  <2>2. CASE ~disturbed'
    <3>1. volume' = volume /\ ~disturbed
      BY <1>3, <1>4, <2>2
    <3> QED
      BY <1>1, <3>1 DEF Latest, Waiting, Posted, Settled, NoTimer
  <2> QED
    BY <2>1, <2>2
<1> QED
  BY <1>5, <1>6, <1>7

LEMMA RestartStep ==
  ASSUME VolumeTypes, AskedFor, Latest, Restart
  PROVE  VolumeTypes' /\ AskedFor' /\ Latest'
<1>1. /\ volume' = Default /\ buf' = [i \in DOMAIN buf |-> 0] /\ posts' = {}
      /\ responses' = [p \in Pages |-> {}] /\ disturbed' = TRUE
      /\ UNCHANGED <<shown, focused, held, timers, choices, lastChoice, asked>>
  BY DEF Restart, focus
<1>2. 0 \in Bytes
  BY Constants DEF Bytes
<1>3. buf' \in [1 .. BufLen -> Bytes] /\ responses' \in [Pages -> SUBSET Levels]
  BY <1>1, <1>2 DEF VolumeTypes
<1>4. VolumeTypes'
  BY <1>1, <1>3 DEF VolumeTypes, NoTimer
<1>5. AskedFor'
  BY <1>1 DEF AskedFor, OnlyAskedVolumes
<1>6. Latest'
  BY <1>1 DEF Latest
<1> QED
  BY <1>4, <1>5, <1>6

LEMMA VolumeInit ==
  ASSUME Init
  PROVE  VolumeTypes /\ AskedFor /\ Latest
<1>1. 0 \in Bytes /\ BufLen \in Nat /\ MaxChoices \in Nat /\ Default \in Levels
  BY Constants, BufLenType DEF Bytes, Default, Levels, MaxLevel
<1>2. buf \in [1 .. BufLen -> Bytes]
  BY <1>1 DEF Init
<1>3. VolumeTypes
  BY <1>1, <1>2 DEF Init, VolumeTypes, NoTimer
<1>4. AskedFor
  BY DEF Init, AskedFor, OnlyAskedVolumes
<1>5. Latest
  BY DEF Init, Latest
<1> QED
  BY <1>3, <1>4, <1>5

LEMMA VolumeStep ==
  ASSUME VolumeTypes, AskedFor, Latest, [Next]_vars
  PROVE  VolumeTypes' /\ AskedFor' /\ Latest'
<1>1. CASE \E p \in Pages : PageNext(p)
  <2>1. PICK p \in Pages : PageNext(p)
    BY <1>1
  <2>2. CASE \E v \in SliderValues : Drag(p, v)
    BY <2>2, DragStep
  <2>3. CASE \E v \in PresetValues : Preset(p, v)
    BY <2>3, PresetStep
  <2>4. CASE Release(p) \/ Blur(p)
    BY <2>4, BlurStep
  <2>5. CASE \E v \in Levels : TimerFires(p, v)
    BY <2>5, TimerStep
  <2>6. CASE \E v \in Levels : StatsArrive(p, v)
    BY <2>6, StatsStep
  <2>7. CASE GetStats(p)
    BY <2>7, GetStep
  <2> QED
    BY <2>1, <2>2, <2>3, <2>4, <2>5, <2>6, <2>7 DEF PageNext
<1>2. CASE \E post \in posts : SetVolume(post)
  BY <1>2, SetVolumeStep
<1>3. CASE \E post \in posts : PostFails(post)
  BY <1>3, PostFailsStep
<1>4. CASE \E d \in Datagrams : ControlReceive(d)
  BY <1>4, ReceiveStep
<1>5. CASE Restart
  BY <1>5, RestartStep
<1>7. CASE \E v \in ForeignVolumes : ForeignPost(v)
  BY <1>7, ForeignStep
<1>6. CASE UNCHANGED vars
  <2>1. UNCHANGED <<server, shown, focused, held, timers, responses, posts, history>>
    BY <1>6 DEF vars, page, focus
  <2>2. /\ shown' \in [Pages -> Levels] /\ focused' \in [Pages -> BOOLEAN]
        /\ held' \in [Pages -> BOOLEAN] /\ responses' \in [Pages -> SUBSET Levels]
    BY <2>1 DEF VolumeTypes
  <2> QED
    BY <2>1, <2>2, QuietStep
<1> QED
  BY <1>1, <1>2, <1>3, <1>4, <1>5, <1>6, <1>7 DEF Next

-----------------------------------------------------------------------------
(* Where the last choice is, and what the volume may be, in every state of  *)
(* the handlers, timers and requests.                                       *)
THEOREM VolumeInvariant == Spec => [](VolumeTypes /\ AskedFor /\ Latest)
<1>1. Init => VolumeTypes /\ AskedFor /\ Latest
  BY VolumeInit
<1>2. VolumeTypes /\ AskedFor /\ Latest /\ [Next]_vars => (VolumeTypes /\ AskedFor /\ Latest)'
  BY VolumeStep
<1> QED
  BY <1>1, <1>2, PTL DEF Spec

(* Every variable keeps its type: in particular the volume is a level of    *)
(* 0 to 150 % or NaN, whatever a client or peer sends.                      *)
THEOREM TypeCorrect == Spec => []TypeOK
<1>1. VolumeTypes /\ AskedFor => TypeOK
  <2> SUFFICES ASSUME VolumeTypes, AskedFor PROVE TypeOK
    OBVIOUS
  <2>1. volume \in Levels \cup {NaN}
    BY VolumeType
  <2>2. buf \in Seq(Bytes)
    BY BufLenType DEF VolumeTypes
  <2>3. posts \subseteq [choice : 0 .. MaxChoices, volume : Levels \cup ForeignVolumes]
    <3>1. choices \in 0 .. MaxChoices /\ MaxChoices \in Nat
      BY Constants DEF VolumeTypes
    <3>2. 0 .. choices \subseteq 0 .. MaxChoices
      BY <3>1
    <3> QED
      BY <3>2 DEF VolumeTypes
  <2> QED
    BY <2>1, <2>2, <2>3 DEF TypeOK, VolumeTypes
<1> QED
  BY <1>1, VolumeInvariant, PTL

(* The volume is always the start value or one that a POST or a complete    *)
(* SetVolume asked for, clamped: what an earlier datagram left in the       *)
(* control server's buffer never takes part, and no datagram cut short or   *)
(* with another magic sets it.                                              *)
THEOREM OnlyAsked == Spec => []OnlyAskedVolumes
<1>1. AskedFor => OnlyAskedVolumes
  BY DEF AskedFor
<1> QED
  BY <1>1, VolumeInvariant, PTL

(* With nothing on its way, the volume is what was chosen last, unless      *)
(* requests overtook each other or failed, a peer set the volume, the       *)
(* receiver was restarted, or a choice was made while another one waited    *)
(* for its timer.                                                           *)
THEOREM LastChoiceHolds == Spec => []LastChoiceWins
<1>1. Latest => LastChoiceWins
  <2> SUFFICES ASSUME Latest, Quiet, ~disturbed, choices > 0
               PROVE  volume = lastChoice
    BY DEF LastChoiceWins
  <2>1. ~Waiting
    BY DEF Waiting, Quiet
  <2>2. ~Posted
    BY DEF Posted, Quiet
  <2>3. Settled
    BY <2>1, <2>2 DEF Latest
  <2> QED
    BY <2>3 DEF Settled
<1> QED
  BY <1>1, VolumeInvariant, PTL
=============================================================================
