# niple: a TLA+ model of the LAN audio streamer

niple streams the sound of a Windows PC to a Mac over UDP. This directory
models the part of it that has to be right under loss, reordering,
duplication, restarts and threads that run at their own pace; TLC checks the
models on small instances and TLAPS proves the theorems listed below for every
value of the constants. Paths are relative to the repository.

## 1. The system

| Component | Source | State | Operations | Meets |
| :-- | :-- | :-- | :-- | :-- |
| Audio capture | `sender/src/audio.rs` | channel of 128 chunks | device callback, `try_send` | stream loop |
| Stream loop, encoder | `sender/src/main.rs`, `encoder.rs` | `frame_buffer`, `sequence_number` | cut frames, encode, `send_to` | capture, network |
| Wire format | `protocol/src/lib.rs` | none | header and control message (de)serialisation | all |
| Reception loop | `receiver/src/main.rs` | the jitter buffer | `recv_from`, parse, `push`, `pop`, `try_send` | network, feeder |
| Jitter buffer | `receiver/src/jitter_buffer.rs` | `queue`, `expected_seq`, `is_playing`, `frame_duration_ms`, three counters | `push`, `pop`, `stats` | reception loop |
| Feeder, decoder | `receiver/src/main.rs`, `decoder.rs` | `samples` | `recv`, decode, blocking `send` | both channels |
| Playback | `receiver/src/audio.rs` | `playout_buf` | device callback | feeder, volume |
| Ping client, estimator | `sender/src/ping.rs`, `protocol/src/lib.rs` | `ping_id`, `consecutive_misses`, `rtt_ema_ns`, `running` | ping every 2 s, pong or 3 s timeout | control server |
| Control server | `receiver/src/control.rs` | volume, `running` | ping -> pong, set volume | ping client, playback |
| Dashboard | `dashboard/src/lib.rs`, `static/app.js` | volume; slider, debounce timer | `GET /api/stats`, `POST /api/volume` | playback |
| TLS store | `dashboard/src/tls.rs` | two files | load, or generate and save | dashboard |
| Discovery | `*/src/discovery.rs` | none | advertise; browse until a deadline | both mains |

The audio path is a chain: capture callback -> channel -> stream loop -> UDP ->
reception loop with its jitter buffer -> channel (64) -> feeder task -> channel
(128) -> output callback. The control path is a second socket: pings, pongs
and volume; the volume is one atomic word that the control server and the
dashboard write and the output callback reads.

What is hard here, and the properties that answer it:

* **Order.** The jitter buffer must turn what UDP delivers into an increasing
  subsequence of what was sent, none played twice (`PlayedInOrder`,
  `ImplementsOrderedPlayout`), none that it accepted vanishing
  (`EveryFrameAccountedFor`), reordering within the target delay costing nothing
  (`ReorderAbsorbed`), also where the 32-bit number wraps (`ReleasesEarliest`)
  and when the sender restarts (`RestartResynchronizes`).
* **Depth.** `push` never limits the map and `pop` runs once per datagram, so
  the depth is an invariant of the pair: it must neither grow (`DepthBound`)
  nor drain (`DepthHeld`, `SteadySupply`).
* **Accounting.** `packets_lost` decides the 2 % warning (`LossIsExact`).
* **Progress.** Playout is driven by arrivals; nothing may get stuck
  (`EveryFrameHeard`, `EverySampleHeard`), and a dead output device must not stop
  reception (`ReceptionNeverBlocked`).
* **Hand-over.** Three threads, two channels, frames cut again at callback
  boundaries (`SoundIsContinuous`).
* **Before the numbers.** What is lost between the sound card and the encoder
  no sequence number shows: it must be whole chunks (`SamplesConserved`), never one
  channel (`StereoAligned`), and a stuck `send_to` must not stop the device's
  callback (`CaptureNeverBlocked`). A datagram cut at the receiver's buffer or with an
  overflowed length must not decode to other sound, and neither must clamping, scaling and conversion
  turn a sample into another one (`NeverMisread`, `UnderstoodIfItFits`).
* **One atomic, many writers.** Pages with timers, requests in any order, peers, other HTTP clients and
  restarts share the volume (`LastChoiceWins`, `OnlyAskedVolumes`), and the pages must show it (`PagesConverge`, `FollowsUnlessDragged`).
* **Start and crash.** What is advertised must listen (`AdvertisedListens`), the
  certificate must survive an end of the process between any two steps
  (`RejectedOnlyIfDamaged`, `CertificateIsStable`), and the search must end (`ReturnsInTime`).
* **Timeouts.** A 2 s ping period against a 3 s receive timeout that every
  datagram restarts: missed pings must be reported (`MissedPingsReported`, `SilenceReported`), an answering receiver
  must not be (`NoFalseAlarm`), and both tasks must notice `stop` (`StopsInTime`).

`PROJECT.json` lists every hazard at its line with the properties that cover
it, those still uncovered included.

## 2. Modules

| Module | Models |
| :-- | :-- |
| `JitterBuffer` | `jitter_buffer.rs` and the push/pop pairing of `receiver/src/main.rs`, under arbitrary arrivals |
| `MCJitterBuffer` | the set of packets for TLC |
| `AudioStream` | sender loop, network and reception loop around `JB == INSTANCE JitterBuffer` |
| `OrderedPlayout` | abstract: what the listener is promised |
| `PlaybackPipeline` | channel, feeder, channel, output callback |
| `PingMonitor` | the sender's two ping tasks, the latency estimator, the answering control loop, the datagrams between them |
| `WireFormat` | `protocol/src/lib.rs`: headers, packets, control messages as functions over bytes |
| `CaptureSender` | capture callback, channel, framing, encoding, sending, and reception up to decoded samples; uses `WireFormat` |
| `MCCaptureSender` | what the capture devices deliver, for TLC |
| `VolumeControl` | the volume with the control server, the dashboard's handlers and its pages; uses `WireFormat` |
| `TlsStore` | the two certificate files and the dashboards that load or save them |
| `Discovery` | advertisement, mDNS records, the sender's search |
| `Startup` | `main` of the receiver around `Tls == INSTANCE TlsStore` and `Net == INSTANCE Discovery` |
| `MCStartup` | the symmetry of the dashboards' ports, for TLC |
| `Numerals` | digits of a number, sums of a sequence: the arithmetic under `WireFormat`, as recursive functions |
| `JitterBuffer_proofs`, `AudioStream_proofs`, `PlaybackPipeline_proofs`, `CaptureSender_proofs`, `PingMonitor_proofs`, `VolumeControl_proofs`, `Startup_proofs` | theorems about the module of that name |
| `DataLemmas` | lemmas about data: least and greatest of a set of naturals, remainders and quotients, parts and flattenings of sequences, recursion over naturals, digits and back |

### JitterBuffer

The variables are the fields of `JitterBuffer` under their own names (shortened:
`received`, `lost`, `droppedLate` for the counters), `phase` for where
the reception loop stands and `popped` for what the last `pop` returned. `push`
is `PushLate` (the early return) or `PushStored`; `pop` is one action per branch:
`PopPaused`, `PopExpected`, `PopUnderrun`, `PopGap`, `PopResync`. There is no `await` between
push and pop, which `phase` expresses: after a push only a pop can happen.
`Earliest` is the *numerically* smallest key, as `BTreeMap::iter().next()` is;
the late test and the gap wrap around, as `wrapping_sub` does. The sequence space
is `SeqMod = 2 * HalfRange` (2^32 and 0x80000000 in the code), the loss window is
`GapWindow` (20). Abstracted: payload bytes, `timestamp_ns` (never read), and
floating point: durations are whole numbers of a unit that divides every
frame, a millisecond in the runs. `MinFrameMs` names the shortest audio a non-empty PCM payload
carries; the code imposes none, so the bound below is in those terms. A NaN target
delay, which the argument parser would accept, is not modelled.

### AudioStream

A frame is identified by its sender process (`epoch`) and position (`pos`);
the receiver sees only the sequence number, the histories `played` and
`discarded` remember the frame. `Send` and `SendFails` are one turn of the sender's inner
loop (the number advances either way), `RestartSender` a new process, numbering
from 0. The network is a set of datagrams with `Lose`, `Deliver`, `Duplicate`;
`Deliverable` limits overtaking to `MaxReorder` positions and lets no
datagram of an old process arrive after one of its successor. `RestartWithin` is the
number of frames a process that is followed by another has encoded at most, `Reordered` the number of
processes whose datagrams overtake each other: if a new process's frames overtake each other, or the old one
had used up the numbers, a frame of the old process can be played after one of the new, and
`PlayedInOrder` across restarts holds only within these bounds. `PopAndForward` is
the pop and the hand-over of the frame. `pos` counts frames that were
encoded: a frame whose encoding fails leaves no trace in the numbering and none here.

### PlaybackPipeline

`Forward` is `try_send` on the 64-slot channel, `Decode` the feeder's `recv` and
`decode_frame` (samples, or nothing for a frame that does not decode), `Play` the
blocking `send`, `Pull` one `try_recv` of the callback, `Fill` and `Pad` its two endings.
`DeviceStops` is final: the code only logs stream errors. A callback's pulls are
separate steps, since the feeder may refill the channel in between.

### PingMonitor

Time is discrete, in seconds, with the periods of the code; all that is due at an instant happens
before `Tick`, in any order, so an answer races the timeout that waits for it. `SendPing`
and `EndPinging` are one turn of the ping task; the pong task's turn is `AcceptPong`,
`Disregard` (another source, or not a pong), `RecvError` or `Miss`, each of which
ends at the head of the loop, `WaitAgain`, where the flag is polled and a new 3 s wait
starts. The moving average is exact up to rounding down to whole units (alpha is 3/10); 0 stands for "no sample yet",
as in the code, so a zero sample re-initialises it here too. Clock steps do not occur: both ends of the measurement
are the sender's own monotonic clock. The receiver's clock in the pong is never read. `Duplicate` is the network's: the id of a pong
is not compared with anything, so the second copy of a ping or pong is an answer like the first.

### WireFormat and CaptureSender

A buffer is a sequence of bytes below `Base`; a write truncates to its width, as a cast does, so
`payload_len as u16` overflows at `Base ^ LenBytes`. `Layout` gives the fields of each
control message, from which both directions and the length checks follow.
In `CaptureSender`, `Capture` is the callback with its `try_send`, `RecvChunk` the `recv` of the outer
loop, `Encode`, `SendOk`, `SendFails` and `EncodeFails` the turn of the inner loop, cut at the `await` of
`send_to`; `Drain` is part of the last three. `Receive` is `recv_from` into a buffer of
`RecvBufLen` (4096) bytes, `parse` and `decode_frame`; the jitter buffer, which only orders and drops, is
left to `AudioStream`. Samples are numbered, for conservation and order, and `Sound` says what each of them is: a float
as a whole number of steps of `1 / (FullScale * Fine)`, any float at all with NaN, or what an integer device delivers. The conversions
are those of the code: `Float` is `s.into()`, the identity for floats and the *number* of an
integer; `Clamped`, `Truncated` and `ToI16` are `clamp`, the product with 32767 and the saturating cast to `i16`, which makes 0 of NaN; `AsI16`
and `Sample` read the two bytes back and divide. `NeverMisread` compares what is decoded with `Level`, what the device meant, to one step of
the 16-bit format. The Opus codec is a library and stands for one byte per sample. Frames have at least one sample: a
`--frame-size-ms` that rounds to none makes the inner loop spin. The device is
taken to deliver stereo at 48 kHz; the code logs its format and converts nothing. With the sizes the
documentation offers (up to 20 ms, 3855 bytes as PCM) every frame fits.

### VolumeControl

Levels are multiples of 50 %, and one value beyond either end of the scale. These come from elsewhere: any HTTP client of any
origin may `POST` a number (`ForeignPost`), any peer of the control port may send a `SetVolume` with any bits, NaN included; the
pages send levels, and no program of the repository sends `SetVolume`. A page has its
slider, which may have the focus and may be held, the pending timer and answers under way; `Drag`, `Preset` and `TimerFires` are its
listeners, `Release` and `Blur` the user's, `GetStats`/`StatsArrive` the two halves of a poll, `SetVolume`/`PostFails` the two ends of a
request. Holding the slider focuses it, and letting it go does not take the focus away; the code looks at the focus. `ControlReceive` writes a datagram over the buffer and parses its first `len`
bytes, so that what an earlier datagram left there is in the model. The gain is one load per
callback and has no state.

### TlsStore, Discovery, Startup

`TlsStore` steps through `get_or_create_tls_config` file by file, with `fs::write` as two steps (emptied,
filled); `End` may come between any two. A file is `Absent`, `Partial` or belongs to a
pair. Initially there is no pair, the user's own (0), or a certificate without key, the states the program
leaves; a key without its certificate, which only a user's hand makes, is left out: a crash between the two writes
would then leave a pair that does not match. Every dashboard has a port argument of its own, and only one of a port can serve
on it. `Discovery` counts time in steps; `Take` and `PollTimesOut` are the
arms of `recv_timeout`, both of which return to the test of the deadline (`PollAgain`). `Startup` is `main`, one action per step
that can fail or be seen from outside, `Killed` at any of them, and the dashboard task beside it. `flags` are the arguments: they
are fixed when a receiver starts (`Launch`) and decide between `AdvertiseService` (or `ServiceFails`) and `NoService`, and between `SpawnDashboard` and
`NoDashboard`.

## 3. Runs

| Run | Asks | Bounds |
| :-- | :-- | :-- |
| `jitter_buffer` | does the depth stay bounded and the supply steady whatever arrives? | 8 sequence numbers, window 3, target of 3 short frames, 4 kinds of packet |
| `stream_order` | order, exact loss count, conservation, depth, progress and refinement under loss, duplication and deep reordering | 7 frames below half of 16 numbers; 3 losses (gaps below, at and above the window of 2), 1 duplicate, overtaking by 3, target 2 frames |
| `stream_reorder` | is reordering within the target absorbed, across the wrap, and is all heard? is what is played in order over three sender processes? | 18 frames over 8 numbers (two wraps), target 3 frames, overtaking by 2 in the first process; restarts after up to 6 frames, below and above half the space |
| `playback_pipeline` | continuity, progress, independence of reception | 6 frames of 2 pieces, channels of 2, callbacks of 1 and 3 |
| `ping_monitor` | silence reported on time, no false alarm, sane average, both tasks end | 11 s: six pings, three timeouts; delays up to 2 s each way, one stray datagram or error, one duplicate. The report that a stray defers lies beyond that and is left to the theorem |
| `capture` | conservation, stereo alignment, framing, conversion, encoding and decoding, independence of the device | see `CaptureSender.cfg`: frames that fit the receiver's buffer, exceed it, overflow `payload_len`, exceed a datagram; both codecs; a channel that fills; failing and stalled sends; up to 9 frames over 8 sequence numbers; samples of 6 bits with one binary digit more as floats: silent, at, below and beyond full scale, NaN |
| `volume` | who decides the volume, and do the pages follow? | two pages, two choices, requests and answers in any order, two control datagrams of any type, whole, cut short or foreign, or POSTs of another client, one restart |
| `startup` | does what is advertised listen, does the certificate survive, does the search end? | two starts of the receiver with any flags, one of the standalone dashboard, two HTTP ports, interchangeable (`SYMMETRY`), two pairs, one failing write; a search with a deadline of 3 and polls of 2, so that the last one overshoots, one event, addresses of one kind |

The bounds are chosen so that each branch is taken: the ring is large enough for
"behind", "ahead", "gap" and "discontinuity" to be different, the
streams are longer than ring, target and channels, and callback sizes neither divide
nor are divided by the frame. Deadlock checking is off where a stream ends: after the
sender's last frame the receiver waits in `recv_from`.

Four runs are expected to be violated; each checks what a comment or the documentation says (see `findings`):

| Run | Property | Shortest story TLC finds |
| :-- | :-- | :-- |
| `wrap_loss` | `ReleasesEarliest` | a datagram is lost where the number wraps; `pop` takes key 0 before the keys at the top, declares buffered frames lost and leaves them in the map |
| `restart_late` | `RestartResynchronizes` | the sender restarts after some frames were played; its first frames are "late" |
| `missed_pings` | `MissedPingsReported` | pings 1 to 3 are lost and ping 4 is answered at 6 s: two timeouts have fired, nothing is logged |
| `slider_follows` | `FollowsUnlessDragged` | one user drags and lets go, another chooses: the first page keeps its focus and its value for ever |

Around these, passing runs check what does hold: `SilenceReported` is the diagnostic as the code times it, one timeout later
for each stray, and `PagesConverge` is about sliders without the focus. More places where the code does less than its
comments say, each a hazard in `PROJECT.json`, have no run of their own because no sequence of steps is needed to see them or because a passing property states the exception:

* Opus frames of 5 ms or 2.5 ms are weighed as 10 ms (`jitter_buffer.rs:93`), so that playout starts before the target delay is buffered
  (`jitter_buffer.rs:33`); the depth properties are about PCM.
* A late or duplicate datagram costs a buffered frame (`receiver/src/main.rs:224`), so that the "target buffer depth" of line 223 is not
  maintained; `DepthHeld` says how much is missing.
* Samples of an integer device are not "normalized to [-1.0, 1.0]" (`sender/src/audio.rs:74` and `155`): an `i16` sample of 20 becomes the float 20.0 and is
  played at full scale. `NeverMisread` is about devices that deliver floats, as WASAPI's shared mode does.
* A `SetVolume` of NaN passes `clamp` (`control.rs:72`); `TypeOK` admits it as the one volume off the scale.
* A process that ends while `key.pem` is written, or two dashboards that start at once, leave a pair that every later start loads and
  refuses (`tls.rs:15`, `39`), though `tls.rs:9` promises an existing or a new certificate; `RejectedOnlyIfDamaged` says that nothing less does so.

One more thing a reader of the comments may not expect, kept here without a run of its own: a frame that is overtaken by the first one to arrive
is dropped as "late" while the buffer is still filling, since the first arrival sets `expected_seq`; `ReorderAbsorbed`
excludes what precedes it.

**Fairness.** `AudioStream!FairSpec`: the sender keeps encoding (a loopback device
delivers chunks for as long as it runs), the network eventually delivers
some datagram in flight, the pop follows the push (straight-line code). Losses,
duplicates and failures are never required. `PlaybackPipeline!FairSpec`: the reception loop and the
feeder are scheduled by tokio, a running device calls back; the device is free to stop.
`CaptureSender!FairSpec`: the device delivers, the loop's own steps run, the receiver reads; `send_to` may never
return. `VolumeControl!FairSpec`: `setInterval` polls, timers fire, requests end one way or the other; users,
peers and restarts are free.

`SilenceReported` counts strays because each restarts the wait: at one socket error every 2 s, which is what a
port nobody listens at gives on a system that reports it, the diagnostic never comes.

**Mutants.** Each property has a mutant of the code that violates it in its run; mutants
are defined next to the definition they replace and marked as such.

## 4. Proofs

Every type invariant, every safety invariant and every safety action property of the passing runs is
proved. A theorem rests on the assumption of its module, which TLC evaluates in the runs, and, where
noted, on a hypothesis that is part of its statement. All bounds of the runs (frames, losses,
duplicates, failures, time) are arbitrary naturals there.

### JitterBuffer_proofs

`TypeCorrect`, `DepthBounded` and `SupplyIsSteady`. `DepthBound` is not inductive: the invariant adds `Anchored`
(nothing is buffered or played before `expected_seq` is set; a stored packet is there when
`pop` runs) and `DepthInv`: paused, the buffered frames fall short of the target
*at the current frame duration*; between push and pop one frame more than the
bound may be there. The duration may change from packet to packet, which is why
the bound for the paused buffer is in terms of `frameMs` and the one between datagrams in terms of
`MinFrameMs`. That the first key is a key rests on the
well-foundedness of the naturals (`MinOfNaturals`).

### AudioStream_proofs

| Theorem | States | Hypotheses |
| :-- | :-- | :-- |
| `StreamDrivesBuffer` | every step of the stream is one of `JitterBuffer` or a stutter | none |
| `TypeCorrect`, `StreamDepthBounded` | `TypeOK`, `JB!DepthBound` | none |
| `PlayoutInOrder`, `Refinement` | `PlayedInOrder`, `ImplementsOrderedPlayout` | `OneStream` |
| `EarliestReleased` | `ReleasesEarliest` | `OneStream` |
| `NoFrameVanishes` | `EveryFrameAccountedFor` | `OneStream` |
| `LossExact` | `LossIsExact` | `OneStream`, `CountersFit` |
| `DepthIsHeld` | `DepthHeld` | `OneStream`, PCM |
| `ReorderIsAbsorbed` | `ReorderAbsorbed` | `Covered` |

`StreamInv` is the invariant of `JitterBuffer_proofs` under an instance, with the types of sender and
network: since the stream feeds the buffer only packets its assumption admits, the depth bound carries over, restarts
and wrap-around included.

`OneStream` is one sender process and fewer than `HalfRange` frames (2^31 of them, over 200 days at 10 ms). The runs
`wrap_loss` and `restart_late` show that neither part can be dropped. Its invariant says that what is buffered
lies from `expected` on and what was played before it; `StoredNotBehind` is where the late test
earns its place, `PopCases` where the numerical minimum is the serial one because nothing has wrapped. On top of it:
`Accounted` follows each frame from place to place; `LossInv` ties `expected` to the frame played last,
so that what a gap adds to `packets_lost` is what playout skips (`CountersFit`: the counter is 64 bits wide and the
stream shorter); `HeldInv` gives each frame of the
target an owner. A frame leaves the buffer only in exchange for an arrival, so `Reserve`, the depth plus what
duplicates and late frames took, less the repeats still to come, never falls below the target. `DepthHeld` alone is not inductive, because a
duplicate still in flight has already been counted in `dups` and has taken nothing yet.

`Covered` (no loss, no duplicate, overtaking by less than the target, and both together within half the ring) is what
`ReorderAbsorbed` is about; it does not bound the stream, which may wrap around any number of
times. The invariant `Absorbing` maps numbers back to positions (`Numbered`): nothing that arrives or is expected is
further than `MaxReorder` ahead of what is still in flight (`Near`), so remainders of positions compare as
the positions do; what is played is `Contiguous`; and `Filling` says that the buffer, once
filled, holds exactly the target. The run `stream_reorder` satisfies `Covered` with equality. PCM is a hypothesis where the
frame duration matters: Opus frames are weighed with an assumed one.

### PlaybackPipeline_proofs

`SoundContinuous` and `TypeCorrect`, for every capacity, frame and callback size. `SoundSoFar` says that what was heard, the
callback's buffer, the channel of samples and the feeder's, one after the other, are the sound of the frames the feeder took and
could decode; `FramesInOrder` that the frames in the first channel follow all of those. The flattenings are unfolded
from the right, one chunk at a time (`DataLemmas`).

### CaptureSender_proofs

`NothingLost` (`SamplesConserved`), `NothingMisread` (`NeverMisread`), `AllOrNothing` (`UnderstoodIfItFits`), `StereoKept`
and `TypeCorrect`, for every byte base and every width of the fields. Every datagram in flight is
`Datagram(codec, encoded[k], Numbered(k), t)` for a frame `k` (`InFlight`), also when the next frame failed to encode or to be
sent, because `Numbering` ties `sequence_number` to the number of encoded frames and `InHand` the packet under way to the beginning of
`frame_buffer`. Its fields read back what was written up to their width: `RoundTrip` says so of digits to any base, and
`PartAt` finds each field where it was written. A datagram cut at the receiver's buffer is shorter than header and `payload_len`, unless
it was never sent, since `MaxDatagram`, which is below what overflows `payload_len`, stops it first. `StereoKept` needs `StereoDevice`: chunks and frames of an even
number of samples. Frames are so by construction (`samples_per_channel * 2`); chunks are as long as the device is stereo, which the
code assumes and does not check. `NothingMisread` needs `FloatDevice`, samples that are floats, which may be
any floats and NaN. `EndToEnd` knows exactly what is decoded of a frame, for every format (`DecodedSample`: `WordIs` reads the two's
complement back); under the hypothesis `HeardFloats` adds, from `ClampedIs` and `TruncatedIs`, that this is the sound to one 16-bit step. The other four theorems hold for every format.

### PingMonitor_proofs

`TasksEnd` (`StopsInTime`), `AverageIsSane` (`AverageWithinSamples`), `SilenceIsReported`, `TypeCorrect`, for every
period, timeout and delay, and `AlarmsAreTrue` (`NoFalseAlarm`) if pings come more often than waits end (`PingsWithinWaits`; 2 s and 3 s in the code).
`TimerInv` says that each task has a timer
ahead of it and that after `stop` these are the timers that ran when it was called, since both loops
poll the flag before they wait again. `DatagramInv` bounds the age of what is in
flight and `AverageInv` keeps two samples around the average; a weighted mean stays between them also when
it is rounded down (`AverageBetween`), and the first sample replaces the 0 that stands for none.
Duplicates need no hypothesis: a second pong is as old as the first and answers a ping that was answered. `ScheduleInv` knows both schedules: ping `i` leaves at `(i - 1) * PingPeriod`, so what was answered left before the last
pong, and the wait that runs began one timeout after the last pong for each miss, at most as much later again for each
stray. Silence is then reported in time, and where `MissLimit` waits have passed as many pings went unanswered.

### VolumeControl_proofs

`LastChoiceHolds` (`LastChoiceWins`), `OnlyAsked` (`OnlyAskedVolumes`) and `TypeCorrect`, for any number of pages, choices, datagrams,
foreign requests and restarts. `LastChoiceWins` says nothing until all is quiet, so the invariant `Latest` says where the last choice is
before that: it waits in the only timer that runs (`Waiting`), it is the newest request (`Posted`), or it is the volume and nothing
is under way (`Settled`). The newest request may be handled before the older ones, but then `disturbed` is set; otherwise it is the last one
left. For the second, `OnlyRequests` goes through whole, truncated and foreign datagrams and shows that only a whole
`SetVolume` is read as one, with the bits that were sent; `Arrived` that what the buffer held before does not take
part. Two assumptions describe the message alphabet: no datagram is longer than the buffer (512 bytes in the code), and a byte has more than 7 values.

### Startup_proofs

Five properties, from `StartupAssumption` only. `SearchReturnsInTime`: a poll begins before
the deadline, so its end lies less than a poll beyond it (`SearchInv`). `AdvertisedIsBound`: `AdvertInv` follows a record from the
advertisement over the events of the browser to the sender's target and says that one of the present start implies that `main` has
passed its bindings; a new start has a new number, so older records claim nothing. `StoredPairIsUsable` and `OneCertificate`
share `StoreOK`: as long as nothing was torn and no two dashboards started at once, one dashboard
at a time goes through the files and a key is stored only beside its own certificate. It is inductive because the certificate is written first: between
the writes there is no key, and the next start generates anew. Beyond those exceptions both properties fail, in two steps,
which is why they are part of the statement. `TypeCorrect` puts these invariants together.

### Only model-checked

Liveness under fairness and `ENABLED` cannot be proved here: `EveryFrameHeard`, `EverySampleHeard`, `ReceptionNeverBlocked`,
`CaptureNeverBlocked`, `LoopCatchesUp`, `PagesConverge`. `PlayedInOrder` over several sender processes stays with TLC too
(`stream_reorder`): there it holds only within the bounds that `RestartWithin` and `Reordered` set. Recursive definitions
are unfolded step by step in `DataLemmas`, as recursive functions with induction over a set of naturals; nothing is taken on trust there.

## 5. Plan

All components are modelled, and the safety properties of the passing runs are proved. What is left, in order of importance:

1. `PlayedInOrder` across restarts, for every ring, under the hypotheses of `stream_reorder`.
2. `NeverMisread` and `PlayedInOrder` as one statement, end to end: `AudioStream`'s frames are `CaptureSender`'s `encoded`, which only the numbering connects so far.
3. The composition of `AudioStream` and `PlaybackPipeline`, refining `OrderedPlayout` up to the loudspeaker.

## 6. Not modelled

* Device enumeration and stream set-up, command-line parsing: host I/O before anything runs. The capture device's channels and rate are assumed to be what the code assumes.
* Logging and the statistics lines; `get_stats` but for the volume, since the rest are constants; meters and status text of the page; HTML and CSS.
* The Opus codec, rustls, rcgen, axum and mDNS themselves: external, modelled by what the code relies on.
* Latency under late callbacks: `playout_buf` is never trimmed, no bound is promised, and a model of it would need rates.
* `ControlServer::stop` and `ServiceAdvertiser::unregister`: nothing calls them.
* The sender's use of its own control port where the receiver advertises another, and the standalone dashboard's volume, which nobody reads: single-process choices with nothing to interleave.
