----------------------------- MODULE PingMonitor -----------------------------
(***************************************************************************)
(* The latency monitor of the control plane: the sender's two ping tasks   *)
(* (sender/src/ping.rs) with the latency estimator (protocol/src/lib.rs),  *)
(* the receiver's control loop that answers pings (receiver/src/           *)
(* control.rs), and the datagrams between them.                            *)
(*                                                                         *)
(* Time is discrete.  A timer fires at its instant; what happens at one    *)
(* instant happens in any order, so an answer can race the timeout that    *)
(* waits for it.                                                           *)
(***************************************************************************)
EXTENDS Integers, FiniteSetsExt

CONSTANTS
  PingPeriod,   (* 2 s: the sleep between pings                              *)
  RecvTimeout,  (* 3 s: how long the pong task waits for a datagram          *)
  MissLimit,    (* 3: timeouts in a row before the diagnostic                *)
  MaxDelay,     (* longest one-way delay of a datagram that is not lost      *)
  MaxStrays,    (* socket errors and datagrams that are not pongs, at most   *)
  MaxDups,      (* datagrams that the network delivers twice, at most        *)
  MaxTime       (* the instant at which a behaviour is cut off               *)

ASSUME PingMonitorAssumption ==
  /\ {PingPeriod, RecvTimeout, MissLimit} \subseteq Nat \ {0}
  /\ {MaxDelay, MaxStrays, MaxDups, MaxTime} \subseteq Nat

VARIABLES
  now,          (* stream_start.elapsed(), the sender's monotonic clock      *)
  running,      (* the flag both tasks poll                                  *)
  pingAt,       (* when the ping task wakes from its sleep                   *)
  pingId,       (* ping_id                                                   *)
  pinging,      (* the ping task has not ended                               *)
  timeoutAt,    (* when the pong task's recv_from times out                  *)
  listening,    (* the pong task has not ended                               *)
  misses,       (* consecutive_misses                                        *)
  ema,          (* rtt_ema_ns, 0 before the first sample                     *)
  net,          (* control datagrams in flight                               *)
  strays,       (* strays so far                                             *)
  dups,         (* duplicates so far                                         *)
  answeredIds,  (* history: pings whose pong was accepted                    *)
  rtts,         (* history: the round-trip times sampled                     *)
  lastPong,     (* history: when a pong was last accepted, 0 before          *)
  diagnosed,    (* history: when the diagnostic was logged                   *)
  stoppedAt     (* history: when stop was called                             *)

senderTask == <<pingAt, pingId, pinging>>
pongTask   == <<timeoutAt, listening, misses, ema>>
histories  == <<answeredIds, rtts, lastPong, diagnosed>>
stopVars   == <<running, stoppedAt>>
vars       == <<now, stopVars, senderTask, pongTask, net, strays, dups, histories>>

Init ==
  /\ now = 0 /\ running = TRUE /\ stoppedAt = 0
  /\ pingAt = 0 /\ pingId = 0 /\ pinging = TRUE
  /\ timeoutAt = RecvTimeout /\ listening = TRUE /\ misses = 0 /\ ema = 0
  /\ net = {} /\ strays = 0 /\ dups = 0
  /\ answeredIds = {} /\ rtts = {} /\ lastPong = 0 /\ diagnosed = {}

-----------------------------------------------------------------------------
(* The ping task wakes: it sends the next ping, or ends.                    *)
SendPing ==
  /\ pinging /\ pingAt = now /\ running
  /\ pingId' = pingId + 1
  /\ net' = net \cup
               {[type |-> "Ping", id |-> pingId', ts |-> now, sent |-> now, copy |-> 0]}
  /\ pingAt' = now + PingPeriod
  /\ UNCHANGED <<now, stopVars, pinging, pongTask, strays, dups, histories>>

EndPinging ==
  /\ pinging /\ pingAt = now /\ ~running
  /\ pinging' = FALSE
  /\ UNCHANGED <<now, stopVars, pingAt, pingId, pongTask, net, strays, dups,
                 histories>>

(* The control loop answers a ping with its id and timestamp.               *)
Answer(m) ==
  /\ m.type = "Ping"
  /\ net' = (net \ {m}) \cup
       {[type |-> "Pong", id |-> m.id, ts |-> m.ts, sent |-> now, copy |-> m.copy]}
  /\ UNCHANGED <<now, stopVars, senderTask, pongTask, strays, dups, histories>>

(* A ping or pong is lost, or send_to failed.                               *)
Lose(m) ==
  /\ net' = net \ {m}
  /\ UNCHANGED <<now, stopVars, senderTask, pongTask, strays, dups, histories>>

(* The network delivers a ping or pong once more.                           *)
Duplicate(m) ==
  /\ dups < MaxDups
  /\ dups' = dups + 1
  /\ net' = net \cup {[m EXCEPT !.copy = dups']}
  /\ UNCHANGED <<now, stopVars, senderTask, pongTask, strays, histories>>

-----------------------------------------------------------------------------
(* Mutant: the pong task waits again without polling the flag.              *)
WaitForever == timeoutAt' = now + RecvTimeout /\ UNCHANGED listening

(* Mutant: the timeout runs from the last one, not from the datagram.       *)
WaitLonger ==
  /\ listening' = running
  /\ timeoutAt' = IF running THEN timeoutAt + RecvTimeout ELSE timeoutAt

(* The head of the pong task's loop: poll the flag, wait anew.              *)
WaitAgain ==
  /\ listening' = running
  /\ timeoutAt' = IF running THEN now + RecvTimeout ELSE timeoutAt

(* Mutant: an average that starts from 0.                                   *)
AverageFromZero(avg, rtt) == (3 * rtt + 7 * avg) \div 10

(* record_ping: the first sample, or the moving average with alpha = 0.3.   *)
Average(avg, rtt) == IF avg = 0 THEN rtt ELSE (3 * rtt + 7 * avg) \div 10

(* A pong from the receiver; its id is not looked at.                       *)
AcceptPong(m) ==
  /\ listening
  /\ m.type = "Pong"
  /\ net' = net \ {m}
  /\ ema' = Average(ema, now - m.ts)
  /\ misses' = 0
  /\ answeredIds' = answeredIds \cup {m.id}
  /\ rtts' = rtts \cup {now - m.ts}
  /\ lastPong' = now
  /\ WaitAgain
  /\ UNCHANGED <<now, stopVars, senderTask, strays, dups, diagnosed>>

(* A datagram from elsewhere, or one that is not a pong: nothing is counted *)
(* and the wait starts over.                                                *)
Disregard ==
  /\ listening
  /\ strays < MaxStrays
  /\ strays' = strays + 1
  /\ WaitAgain
  /\ UNCHANGED <<now, stopVars, senderTask, misses, ema, net, dups, histories>>

(* recv_from fails: no one listens at the port a ping went to, which the    *)
(* sender's system reports on the socket.  The error is logged, no more.    *)
RecvError(m) ==
  /\ listening
  /\ strays < MaxStrays
  /\ m.type = "Ping"
  /\ strays' = strays + 1
  /\ net' = net \ {m}
  /\ WaitAgain
  /\ UNCHANGED <<now, stopVars, senderTask, misses, ema, dups, histories>>

(* recv_from times out: a miss, and with enough in a row a diagnostic.      *)
Timeout(limit) ==
  /\ listening /\ timeoutAt = now
  /\ misses' = misses + 1
  /\ diagnosed' = IF misses' >= limit THEN diagnosed \cup {now} ELSE diagnosed
  /\ WaitAgain
  /\ UNCHANGED <<now, stopVars, senderTask, ema, net, strays, dups,
                 answeredIds, rtts, lastPong>>

(* Mutants: the diagnostic one miss early; one miss late.                   *)
MissEarly == Timeout(MissLimit - 1)
MissLate  == Timeout(MissLimit + 1)

Miss == Timeout(MissLimit)

-----------------------------------------------------------------------------
(* stop: the stream has ended.                                              *)
Stop ==
  /\ running
  /\ running' = FALSE /\ stoppedAt' = now
  /\ UNCHANGED <<now, senderTask, pongTask, net, strays, dups, histories>>

(* Time passes when no timer is due and no datagram is overdue.             *)
Tick ==
  /\ now < MaxTime
  /\ pinging => pingAt > now
  /\ listening => timeoutAt > now
  /\ \A m \in net : m.sent + MaxDelay > now
  /\ now' = now + 1
  /\ UNCHANGED <<stopVars, senderTask, pongTask, net, strays, dups, histories>>

Next ==
  \/ SendPing \/ EndPinging
  \/ \E m \in net : Answer(m) \/ Lose(m) \/ Duplicate(m) \/ AcceptPong(m)
                   \/ RecvError(m)
  \/ Disregard \/ Miss
  \/ Stop \/ Tick

Spec == Init /\ [][Next]_vars

-----------------------------------------------------------------------------
Times == 0 .. MaxTime
Ids   == 1 .. MaxTime + 1

(* Type invariant.                                                          *)
TypeOK ==
  /\ now \in Times /\ stoppedAt \in Times
  /\ {running, pinging, listening} \subseteq BOOLEAN
  /\ pingAt \in now .. now + PingPeriod \/ ~pinging
  /\ timeoutAt \in now .. now + RecvTimeout \/ ~listening
  /\ pingId \in Ids \cup {0}
  /\ misses \in 0 .. MaxTime
  /\ net \subseteq [type : {"Ping", "Pong"}, id : Ids, ts : Times, sent : Times,
                    copy : 0 .. dups]
  /\ dups \in 0 .. MaxDups
  /\ answeredIds \subseteq Ids
  /\ rtts \subseteq Times /\ ema \in Times
  /\ diagnosed \subseteq Times

(* A receiver that answers is never reported: when the diagnostic is        *)
(* logged, MissLimit pings in a row, at least, that were sent since the     *)
(* last pong are without an answer, however pongs are delayed, overtaken or *)
(* duplicated.  Once stopped, the pong task may report what was no longer   *)
(* asked.                                                                   *)
SentAt(i)     == (i - 1) * PingPeriod
Unanswered(i) == i .. i + MissLimit - 1 \subseteq (1 .. pingId) \ answeredIds
NoFalseAlarm ==
  [][running /\ diagnosed' # diagnosed
       => \E i \in Ids : Unanswered(i) /\ SentAt(i) >= lastPong]_vars

(* What the code gives of a receiver that falls silent: a report MissLimit  *)
(* timeouts after its last pong, with every stray datagram or socket error  *)
(* putting that off by at most one timeout more.                            *)
SilenceReported ==
  listening /\ now > lastPong + (MissLimit + strays) * RecvTimeout
    => \E t \in diagnosed : t > lastPong

(* What README.md:271 says of it: a diagnostic after three missed pings.    *)
(* Of MissLimit pings in a row without an answer the last one has been      *)
(* waited for a timeout long, and nothing was logged since the first.       *)
MissedPingsReported ==
  \A i \in Ids :
    running /\ Unanswered(i) /\ now > SentAt(i + MissLimit - 1) + RecvTimeout
      => \E t \in diagnosed : t > SentAt(i)

(* The displayed round-trip time lies between the shortest and the longest  *)
(* one measured, and each measured one is the age of the ping it answers,   *)
(* whichever pong arrives: late, out of order, after others were lost.      *)
AverageWithinSamples ==
  /\ rtts # {} => Min(rtts) <= ema /\ ema <= Max(rtts)
  /\ \A r \in rtts : r <= 2 * MaxDelay

(* stop ends both tasks, the sleeping one and the waiting one, within the   *)
(* longer of their waits, though nothing wakes them.                        *)
StopsInTime ==
  ~running /\ now > stoppedAt + Max({PingPeriod, RecvTimeout})
    => ~pinging /\ ~listening
=============================================================================
