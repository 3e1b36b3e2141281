-------------------------- MODULE PingMonitor_proofs --------------------------
(***************************************************************************)
(* Theorems about the ping tasks of the sender (sender/src/ping.rs), for   *)
(* every period, timeout, delay and number of strays and duplicates.       *)
(***************************************************************************)
EXTENDS PingMonitor, DataLemmas, TLAPS

(* The larger of two numbers is at least each of them.                      *)
LEMMA MaxOfTwo ==
  ASSUME NEW a \in Nat, NEW b \in Nat
  PROVE  Max({a, b}) \in Nat /\ Max({a, b}) >= a /\ Max({a, b}) >= b
<1>1. {a, b} \subseteq 0 .. a + b /\ {a, b} # {}
  OBVIOUS
<1>2. Max({a, b}) \in {a, b} /\ \A s \in {a, b} : s <= Max({a, b})
  BY <1>1, MaxOfBoundedNaturals
<1> QED
  BY <1>2

-----------------------------------------------------------------------------
(* Each task that has not ended has a timer ahead of it, and after stop the *)
(* timers are those that ran when stop was called: no task sets another.    *)
TimerTypes ==
  /\ {now, stoppedAt, pingAt, timeoutAt} \subseteq Nat
  /\ {running, pinging, listening} \subseteq BOOLEAN

TimersAhead ==
  /\ pinging => now <= pingAt /\ pingAt <= now + PingPeriod
  /\ listening => now <= timeoutAt /\ timeoutAt <= now + RecvTimeout

TimersAfterStop ==
  ~running => /\ pinging => pingAt <= stoppedAt + PingPeriod
              /\ listening => timeoutAt <= stoppedAt + RecvTimeout

TimerInv == TimerTypes /\ TimersAhead /\ TimersAfterStop

LEMMA InitTimers == Init => TimerInv
BY PingMonitorAssumption DEF Init, TimerInv, TimerTypes, TimersAhead, TimersAfterStop

(* The head of the pong task's loop keeps its timer in bounds.              *)
LEMMA WaitAgainTimers ==
  ASSUME TimerInv, listening, WaitAgain,
         UNCHANGED <<now, running, stoppedAt, pingAt, pinging>>
  PROVE  TimerInv'
<1> USE DEF TimerInv, TimerTypes, TimersAhead, TimersAfterStop
<1>1. CASE running
  BY <1>1, PingMonitorAssumption DEF WaitAgain
<1>2. CASE ~running
  BY <1>2, PingMonitorAssumption DEF WaitAgain
<1> QED
  BY <1>1, <1>2

LEMMA NextTimers == TimerInv /\ [Next]_vars => TimerInv'
<1> SUFFICES ASSUME TimerInv, [Next]_vars
             PROVE  TimerInv'
  OBVIOUS
<1> USE PingMonitorAssumption
<1>1. CASE SendPing
  BY <1>1 DEF SendPing, stopVars, pongTask,
     TimerInv, TimerTypes, TimersAhead, TimersAfterStop
<1>2. CASE EndPinging
  BY <1>2 DEF EndPinging, stopVars, pongTask,
     TimerInv, TimerTypes, TimersAhead, TimersAfterStop
<1>3. ASSUME NEW m \in net, Answer(m) \/ Lose(m) \/ Duplicate(m)
      PROVE  TimerInv'
  BY <1>3 DEF Answer, Lose, Duplicate, stopVars, senderTask, pongTask,
     TimerInv, TimerTypes, TimersAhead, TimersAfterStop
<1>4. ASSUME NEW m \in net, AcceptPong(m) \/ RecvError(m)
      PROVE  TimerInv'
  BY <1>4, WaitAgainTimers DEF AcceptPong, RecvError, stopVars, senderTask
<1>5. CASE Disregard \/ Miss
  BY <1>5, WaitAgainTimers DEF Disregard, Miss, Timeout, stopVars, senderTask
<1>6. CASE Stop
  BY <1>6 DEF Stop, senderTask, pongTask,
     TimerInv, TimerTypes, TimersAhead, TimersAfterStop
<1>7. CASE Tick
  BY <1>7 DEF Tick, stopVars, senderTask, pongTask,
     TimerInv, TimerTypes, TimersAhead, TimersAfterStop
<1>8. CASE UNCHANGED vars
  BY <1>8 DEF vars, stopVars, senderTask, pongTask,
     TimerInv, TimerTypes, TimersAhead, TimersAfterStop
<1> QED
  BY <1>1, <1>2, <1>3, <1>4, <1>5, <1>6, <1>7, <1>8 DEF Next

(* The timers stay in bounds.                                               *)
THEOREM TimersKept == Spec => []TimerInv
BY InitTimers, NextTimers, PTL DEF Spec

LEMMA StopsInTimeFollows == TimerInv => StopsInTime
<1> SUFFICES ASSUME TimerInv, ~running, now > stoppedAt + Max({PingPeriod, RecvTimeout})
             PROVE  ~pinging /\ ~listening
  BY DEF StopsInTime
<1> DEFINE longer == Max({PingPeriod, RecvTimeout})
<1>1. PingPeriod \in Nat /\ RecvTimeout \in Nat
  BY PingMonitorAssumption
<1>2. longer \in Nat /\ longer >= PingPeriod /\ longer >= RecvTimeout
  BY <1>1, MaxOfTwo
<1>3. now > stoppedAt + longer
  OBVIOUS
<1> HIDE DEF longer
<1> QED
  BY <1>1, <1>2, <1>3 DEF TimerInv, TimerTypes, TimersAhead, TimersAfterStop

(* stop ends both tasks within the longer of their waits, whatever the      *)
(* network and the receiver do and though nothing wakes a waiting task      *)
(* (PingClient::stop, the two loops of PingClient::start).                  *)
THEOREM TasksEnd == Spec => []StopsInTime
BY TimersKept, StopsInTimeFollows, PTL

-----------------------------------------------------------------------------
(* No datagram is older than MaxDelay since it was last sent, and a pong    *)
(* carries the time of a ping that was no older when it was answered.       *)
DatagramTypes ==
  net \subseteq [type : {"Ping", "Pong"}, id : Int, ts : Nat, sent : Nat,
          copy : 0 .. dups]

DatagramAges ==
  \A m \in net :
    /\ m.sent <= now /\ now <= m.sent + MaxDelay
    /\ m.type = "Ping" => m.ts = m.sent
    /\ m.type = "Pong" => m.ts <= m.sent /\ m.sent <= m.ts + MaxDelay

DatagramInv ==
  now \in Nat /\ pingId \in Int /\ dups \in 0 .. MaxDups /\ DatagramTypes /\ DatagramAges

LEMMA InitDatagrams == Init => DatagramInv
BY PingMonitorAssumption DEF Init, DatagramInv, DatagramTypes, DatagramAges

LEMMA FewerDatagrams ==
  ASSUME DatagramInv, net' \subseteq net, UNCHANGED <<now, pingId, dups>>
  PROVE  DatagramInv'
BY DEF DatagramInv, DatagramTypes, DatagramAges

LEMMA AnswerDatagrams ==
  ASSUME DatagramInv, NEW m \in net, Answer(m)
  PROVE  DatagramInv'
<1> DEFINE pong == [type |-> "Pong", id |-> m.id, ts |-> m.ts, sent |-> now, copy |-> m.copy]
<1>1. UNCHANGED <<now, pingId, dups>> /\ net' = (net \ {m}) \cup {pong} /\ m.type = "Ping"
  BY DEF Answer, senderTask
<1>2. /\ now \in Nat /\ MaxDelay \in Nat /\ dups \in 0 .. MaxDups
      /\ m \in [type : {"Ping", "Pong"}, id : Int, ts : Nat, sent : Nat, copy : 0 .. dups]
  BY PingMonitorAssumption DEF DatagramInv, DatagramTypes
<1>3. /\ pong \in [type : {"Ping", "Pong"}, id : Int, ts : Nat, sent : Nat, copy : 0 .. dups]
      /\ pong.type = "Pong" /\ pong.ts = m.ts /\ pong.sent = now
  BY <1>2
<1>4. m.ts <= now /\ now <= m.ts + MaxDelay
  BY <1>1 DEF DatagramInv, DatagramAges
<1> HIDE DEF pong
<1>5. DatagramTypes'
  BY <1>1, <1>2, <1>3 DEF DatagramInv, DatagramTypes
<1>6. DatagramAges'
  <2>1. ASSUME NEW q \in net'
        PROVE  /\ q.sent <= now /\ now <= q.sent + MaxDelay
               /\ q.type = "Ping" => q.ts = q.sent
               /\ q.type = "Pong" => q.ts <= q.sent /\ q.sent <= q.ts + MaxDelay
    <3>1. CASE q = pong
      BY <3>1, <1>2, <1>3, <1>4
    <3>2. CASE q \in net
      BY <3>2 DEF DatagramInv, DatagramAges
    <3> QED
      BY <3>1, <3>2, <1>1
  <2> QED
    BY <2>1, <1>1 DEF DatagramAges
<1> QED
  BY <1>1, <1>5, <1>6 DEF DatagramInv

LEMMA DuplicateDatagrams ==
  ASSUME DatagramInv, NEW m \in net, Duplicate(m)
  PROVE  DatagramInv'
<1> DEFINE again == [m EXCEPT !.copy = dups']
<1>1. UNCHANGED <<now, pingId>> /\ net' = net \cup {again} /\ dups' = dups + 1 /\ dups < MaxDups
  BY DEF Duplicate, senderTask
<1>2. /\ dups \in 0 .. MaxDups /\ MaxDups \in Nat
      /\ net \subseteq [type : {"Ping", "Pong"}, id : Int, ts : Nat, sent : Nat, copy : 0 .. dups]
  BY PingMonitorAssumption DEF DatagramInv, DatagramTypes
<1>3. dups' \in 0 .. MaxDups /\ dups' \in 0 .. dups' /\ 0 .. dups \subseteq 0 .. dups'
  BY <1>1, <1>2
<1>4. /\ again \in [type : {"Ping", "Pong"}, id : Int, ts : Nat, sent : Nat, copy : 0 .. dups']
      /\ again.type = m.type /\ again.ts = m.ts /\ again.sent = m.sent
  BY <1>2, <1>3
<1> HIDE DEF again
<1>5. DatagramTypes'
  BY <1>1, <1>2, <1>3, <1>4 DEF DatagramTypes
<1>6. DatagramAges'
  BY <1>1, <1>4 DEF DatagramInv, DatagramAges
<1> QED
  BY <1>1, <1>3, <1>5, <1>6 DEF DatagramInv

LEMMA NextDatagrams == DatagramInv /\ [Next]_vars => DatagramInv'
<1> SUFFICES ASSUME DatagramInv, [Next]_vars
             PROVE  DatagramInv'
  OBVIOUS
<1>1. CASE SendPing
  <2>1. now \in Nat /\ pingId \in Int /\ MaxDelay \in Nat
    BY PingMonitorAssumption DEF DatagramInv
  <2> QED
    BY <1>1, <2>1 DEF SendPing, DatagramInv, DatagramTypes, DatagramAges
<1>2. CASE EndPinging
  BY <1>2, FewerDatagrams DEF EndPinging
<1>3. ASSUME NEW m \in net, Answer(m)
      PROVE  DatagramInv'
  BY <1>3, AnswerDatagrams
<1>8. ASSUME NEW m \in net, Duplicate(m)
      PROVE  DatagramInv'
  BY <1>8, DuplicateDatagrams
<1>4. ASSUME NEW m \in net, Lose(m) \/ AcceptPong(m) \/ RecvError(m)
      PROVE  DatagramInv'
  BY <1>4, FewerDatagrams DEF Lose, AcceptPong, RecvError, senderTask
<1>5. CASE Disregard \/ Miss \/ Stop
  BY <1>5, FewerDatagrams DEF Disregard, Miss, Timeout, Stop, senderTask
<1>6. CASE Tick
  BY <1>6, PingMonitorAssumption
     DEF Tick, senderTask, DatagramInv, DatagramTypes, DatagramAges
<1>7. CASE UNCHANGED vars
  BY <1>7, FewerDatagrams DEF vars, senderTask
<1> QED
  BY <1>1, <1>2, <1>3, <1>4, <1>5, <1>6, <1>7, <1>8 DEF Next

-----------------------------------------------------------------------------
(* The average lies between two of the samples; 0 before the first one.     *)
Between(x) == \E a, b \in rtts : a <= x /\ x <= b

AverageInv ==
  /\ rtts \subseteq 0 .. 2 * MaxDelay
  /\ ema \in Nat
  /\ rtts = {} => ema = 0
  /\ rtts # {} => Between(ema)

LEMMA InitAverage == Init => AverageInv
BY PingMonitorAssumption DEF Init, AverageInv

(* One step of the moving average stays between the sample and the average. *)
LEMMA AverageBetween ==
  ASSUME NEW avg \in Nat, NEW rtt \in Nat, NEW lo \in Nat, NEW hi \in Nat,
         lo <= avg, avg <= hi, lo <= rtt, rtt <= hi
  PROVE  /\ Average(avg, rtt) \in Nat
         /\ lo <= Average(avg, rtt) /\ Average(avg, rtt) <= hi
BY DEF Average

LEMMA AcceptAverage ==
  ASSUME DatagramInv, AverageInv, NEW m \in net, AcceptPong(m)
  PROVE  AverageInv'
<1> DEFINE rtt == now - m.ts
<1>1. m.type = "Pong" /\ ema' = Average(ema, rtt) /\ rtts' = rtts \cup {rtt}
  BY DEF AcceptPong
<1>2. now \in Nat /\ MaxDelay \in Nat /\ m.ts \in Nat /\ m.sent \in Nat
  BY PingMonitorAssumption DEF DatagramInv, DatagramTypes
<1>3. rtt \in 0 .. 2 * MaxDelay
  <2>1. m.sent <= now /\ now <= m.sent + MaxDelay /\ m.ts <= m.sent /\ m.sent <= m.ts + MaxDelay
    BY <1>1 DEF DatagramInv, DatagramAges
  <2> QED
    BY <1>2, <2>1
<1> HIDE DEF rtt
<1>4. ema \in Nat /\ rtts \subseteq 0 .. 2 * MaxDelay
  BY DEF AverageInv
<1>5. \E a, b \in rtts' : Average(ema, rtt) \in Nat /\ a <= Average(ema, rtt) /\ Average(ema, rtt) <= b
  <2>1. CASE rtts = {}
    <3>1. ema = 0 /\ Average(ema, rtt) = rtt
      BY <2>1 DEF AverageInv, Average
    <3> QED
      BY <3>1, <1>1, <1>2, <1>3
  <2>2. CASE rtts # {}
    <3>1. PICK a \in rtts, b \in rtts : a <= ema /\ ema <= b
      BY <2>2 DEF AverageInv, Between
    <3> DEFINE lo == IF a <= rtt THEN a ELSE rtt
               hi == IF rtt <= b THEN b ELSE rtt
    <3>2. a \in Nat /\ b \in Nat /\ rtt \in Nat
      BY <1>2, <1>3, <1>4
    <3>3. lo \in rtts' /\ hi \in rtts'
      BY <1>1
    <3>4. lo \in Nat /\ hi \in Nat /\ lo <= ema /\ ema <= hi /\ lo <= rtt /\ rtt <= hi
      BY <3>1, <3>2, <1>4
    <3> HIDE DEF lo, hi
    <3>5. Average(ema, rtt) \in Nat /\ lo <= Average(ema, rtt) /\ Average(ema, rtt) <= hi
      BY <3>2, <3>4, <1>4, AverageBetween
    <3> QED
      BY <3>3, <3>5
  <2> QED
    BY <2>1, <2>2
<1>6. rtts' \subseteq 0 .. 2 * MaxDelay /\ rtts' # {}
  BY <1>1, <1>3, <1>4
<1> QED
  BY <1>1, <1>5, <1>6 DEF AverageInv, Between

LEMMA NextAverage == DatagramInv /\ AverageInv /\ [Next]_vars => AverageInv'
<1> SUFFICES ASSUME DatagramInv, AverageInv, [Next]_vars
             PROVE  AverageInv'
  OBVIOUS
<1>1. ASSUME NEW m \in net, AcceptPong(m)
      PROVE  AverageInv'
  BY <1>1, AcceptAverage
<1>2. ASSUME UNCHANGED <<ema, rtts>>
      PROVE  AverageInv'
  BY <1>2 DEF AverageInv, Between
<1>3. ASSUME NEW m \in net, Answer(m) \/ Lose(m) \/ Duplicate(m) \/ RecvError(m)
      PROVE  UNCHANGED <<ema, rtts>>
  BY <1>3 DEF Answer, Lose, Duplicate, RecvError, pongTask, histories
<1>4. CASE SendPing \/ EndPinging \/ Disregard \/ Miss \/ Stop \/ Tick \/ UNCHANGED vars
  <2>1. UNCHANGED <<ema, rtts>>
    BY <1>4 DEF SendPing, EndPinging, Disregard, Miss, Timeout, Stop, Tick, vars,
       pongTask, histories
  <2> QED
    BY <2>1, <1>2
<1> QED
  BY <1>1, <1>2, <1>3, <1>4 DEF Next

(* The ages of datagrams and the bounds of the average are kept.            *)
THEOREM AverageKept == Spec => [](DatagramInv /\ AverageInv)
BY InitDatagrams, InitAverage, NextDatagrams, NextAverage, PTL DEF Spec

LEMMA AverageFollows == AverageInv => AverageWithinSamples
<1> SUFFICES ASSUME AverageInv
             PROVE  AverageWithinSamples
  OBVIOUS
<1>1. /\ 2 * MaxDelay \in Nat
      /\ rtts \subseteq 0 .. 2 * MaxDelay /\ rtts \subseteq Nat
  BY PingMonitorAssumption DEF AverageInv
<1>2. \A r \in rtts : r <= 2 * MaxDelay
  BY <1>1
<1>3. ASSUME rtts # {}
      PROVE  Min(rtts) <= ema /\ ema <= Max(rtts)
  <2>1. PICK a \in rtts, b \in rtts : a <= ema /\ ema <= b
    BY <1>3 DEF AverageInv, Between
  <2>2. Min(rtts) \in rtts /\ Min(rtts) <= a
    <3>1. Min(rtts) \in rtts /\ \A r \in rtts : Min(rtts) <= r
      BY <1>1, <1>3, MinOfNaturals
    <3> QED
      BY <3>1
  <2>3. Max(rtts) \in rtts /\ b <= Max(rtts)
    <3>1. Max(rtts) \in rtts /\ \A r \in rtts : r <= Max(rtts)
      BY <1>1, <1>3, MaxOfBoundedNaturals
    <3> QED
      BY <3>1
  <2>4. a \in Nat /\ b \in Nat /\ Min(rtts) \in Nat /\ Max(rtts) \in Nat
    <3>1. \A r \in rtts : r \in Nat
      BY <1>1
    <3> QED
      BY <3>1, <2>2, <2>3
  <2>5. ema \in Nat
    BY DEF AverageInv
  <2> QED
    BY <2>1, <2>2, <2>3, <2>4, <2>5
<1> QED
  BY <1>2, <1>3 DEF AverageWithinSamples

(* The displayed round-trip time lies between the shortest and the longest  *)
(* one measured, and no sample exceeds two network delays, whatever is      *)
(* lost, delayed or overtaken (LatencyEstimator::record_ping and the pong   *)
(* task of PingClient::start).                                              *)
THEOREM AverageIsSane == Spec => []AverageWithinSamples
BY AverageKept, AverageFollows, PTL

-----------------------------------------------------------------------------
(* The schedules of both tasks, and what they say of the receiver: ping i   *)
(* is sent at (i - 1) * PingPeriod, so what was answered was sent no later  *)
(* than the last pong; a wait begins RecvTimeout after the last pong for    *)
(* each miss, and at most as much later again for each stray.               *)
ScheduleTypes ==
  /\ {pingId, misses, strays, lastPong} \subseteq Nat
  /\ {now, stoppedAt} \subseteq Times
  /\ diagnosed \subseteq Times /\ rtts \subseteq Times
  /\ answeredIds \subseteq 1 .. pingId
  /\ \A m \in net : m.id \in 1 .. pingId

PingSchedule ==
  /\ running => pinging
  /\ pinging => pingAt = pingId * PingPeriod
  /\ (pingId - 1) * PingPeriod <= now
  /\ \A i \in answeredIds : (i - 1) * PingPeriod <= lastPong

WaitSchedule ==
  /\ lastPong + misses * RecvTimeout <= now
  /\ listening =>
       /\ lastPong + misses * RecvTimeout + RecvTimeout <= timeoutAt
       /\ timeoutAt <= lastPong + (misses + strays) * RecvTimeout + RecvTimeout
  /\ misses >= MissLimit => \E t \in diagnosed : t > lastPong

ScheduleInv == ScheduleTypes /\ PingSchedule /\ WaitSchedule

LEMMA InitSchedule == Init => ScheduleInv
<1> SUFFICES ASSUME Init
             PROVE  ScheduleInv
  OBVIOUS
<1> USE PingMonitorAssumption DEF Init
<1>1. ScheduleTypes
  BY DEF ScheduleTypes, Times
<1>2. PingSchedule
  BY DEF PingSchedule
<1>3. WaitSchedule
  BY DEF WaitSchedule
<1> QED
  BY <1>1, <1>2, <1>3 DEF ScheduleInv

(* A multiple grows with its factor.                                        *)
LEMMA Multiples ==
  ASSUME NEW a \in Int, NEW b \in Int, NEW m \in Nat, a <= b
  PROVE  a * m <= b * m
OBVIOUS

(* A new wait begins no later than the end of the one before.               *)
LEMMA WaitAgainSchedule ==
  ASSUME TimerInv, ScheduleInv, listening, WaitAgain, UNCHANGED <<now, lastPong, misses, diagnosed>>,
         strays' = strays + 1
  PROVE  WaitSchedule'
<1>1. /\ RecvTimeout \in Nat /\ MissLimit \in Nat /\ timeoutAt \in Nat /\ now \in Nat
      /\ lastPong \in Nat /\ misses \in Nat /\ strays \in Nat
      /\ now <= timeoutAt /\ running \in BOOLEAN
  BY PingMonitorAssumption DEF TimerInv, TimerTypes, TimersAhead, ScheduleInv, ScheduleTypes
<1>2. /\ lastPong + misses * RecvTimeout <= now
      /\ timeoutAt <= lastPong + (misses + strays) * RecvTimeout + RecvTimeout
  BY DEF ScheduleInv, WaitSchedule
<1>3. (misses + (strays + 1)) * RecvTimeout = (misses + strays) * RecvTimeout + RecvTimeout
  BY <1>1
<1>4. /\ (misses + strays) * RecvTimeout \in Nat
      /\ misses * RecvTimeout \in Nat
  BY <1>1
<1>5. listening' =>
        /\ lastPong + misses * RecvTimeout + RecvTimeout <= timeoutAt'
        /\ timeoutAt' <= lastPong + (misses + (strays + 1)) * RecvTimeout + RecvTimeout
  BY <1>1, <1>2, <1>3, <1>4 DEF WaitAgain
<1> QED
  BY <1>2, <1>5 DEF ScheduleInv, WaitSchedule

LEMMA SendSchedule == TimerInv /\ DatagramInv /\ ScheduleInv /\ SendPing => ScheduleInv'
<1> SUFFICES ASSUME TimerInv, DatagramInv, ScheduleInv, SendPing
             PROVE  ScheduleInv'
  OBVIOUS
<1>1. /\ UNCHANGED <<now, stopVars, pinging, pongTask, strays, histories>>
      /\ pinging /\ pingAt = now /\ pingId' = pingId + 1 /\ pingAt' = now + PingPeriod
      /\ \A m \in net' : m \in net \/ m.id = pingId'
  BY DEF SendPing
<1>2. pingId \in Nat /\ now \in Nat /\ PingPeriod \in Nat \ {0} /\ pingAt = pingId * PingPeriod
  BY <1>1, PingMonitorAssumption DEF TimerInv, TimerTypes, ScheduleInv, ScheduleTypes, PingSchedule
<1>3. ScheduleTypes'
  BY <1>1, <1>2 DEF ScheduleInv, ScheduleTypes, stopVars, histories, pongTask
<1>4. (pingId + 1) * PingPeriod = pingId * PingPeriod + PingPeriod /\ (pingId + 1) - 1 = pingId
  BY <1>2
<1>5. PingSchedule'
  BY <1>1, <1>2, <1>4 DEF ScheduleInv, PingSchedule, stopVars, histories
<1>6. WaitSchedule'
  BY <1>1 DEF ScheduleInv, WaitSchedule, stopVars, histories, pongTask
<1> QED
  BY <1>3, <1>5, <1>6 DEF ScheduleInv

(* A pong answers a ping that is no younger than the pong itself.           *)
LEMMA AcceptSchedule ==
  ASSUME TimerInv, DatagramInv, ScheduleInv, NEW m \in net, AcceptPong(m)
  PROVE  ScheduleInv'
<1>1. /\ listening /\ m.type = "Pong" /\ net' = net \ {m} /\ misses' = 0
      /\ answeredIds' = answeredIds \cup {m.id} /\ rtts' = rtts \cup {now - m.ts}
      /\ lastPong' = now /\ WaitAgain
      /\ UNCHANGED <<now, stopVars, senderTask, strays, diagnosed>>
  BY DEF AcceptPong
<1>2. /\ {now, PingPeriod, RecvTimeout, lastPong, pingId, strays, misses, timeoutAt} \subseteq Nat
      /\ MissLimit \in Nat /\ MissLimit > 0 /\ running \in BOOLEAN
  BY PingMonitorAssumption DEF TimerInv, TimerTypes, ScheduleInv, ScheduleTypes
<1>3. m.ts \in Nat /\ m.ts <= now /\ m.id \in 1 .. pingId
  <2>1. m.ts \in Nat /\ m.sent \in Nat
    BY DEF DatagramInv, DatagramTypes
  <2>2. m.ts <= m.sent /\ m.sent <= now
    BY <1>1, <2>1 DEF DatagramInv, DatagramAges
  <2> QED
    BY <1>2, <2>1, <2>2 DEF ScheduleInv, ScheduleTypes
<1>4. ScheduleTypes'
  <2>1. now \in Times /\ stoppedAt \in Times /\ rtts \subseteq Times /\ diagnosed \subseteq Times
    BY DEF ScheduleInv, ScheduleTypes
  <2>2. now - m.ts \in Times
    BY <1>2, <1>3, <2>1, PingMonitorAssumption DEF Times
  <2>3. rtts' \subseteq Times /\ {now', stoppedAt'} \subseteq Times /\ diagnosed' \subseteq Times
    BY <1>1, <2>1, <2>2 DEF stopVars
  <2>4. {pingId', misses', strays', lastPong'} \subseteq Nat
    BY <1>1, <1>2 DEF senderTask
  <2>5. answeredIds' \subseteq 1 .. pingId' /\ \A q \in net' : q.id \in 1 .. pingId'
    BY <1>1, <1>3 DEF ScheduleInv, ScheduleTypes, senderTask
  <2> QED
    BY <2>3, <2>4, <2>5 DEF ScheduleTypes
<1>5. PingSchedule'
  <2>1. ASSUME NEW i \in answeredIds'
        PROVE  (i - 1) * PingPeriod <= now
    <3>1. i \in 1 .. pingId
      BY <1>1, <1>3 DEF ScheduleInv, ScheduleTypes
    <3>2. (i - 1) * PingPeriod <= (pingId - 1) * PingPeriod
      <4>1. i - 1 \in Int /\ pingId - 1 \in Int /\ i - 1 <= pingId - 1 /\ PingPeriod \in Nat
        BY <1>2, <3>1
      <4> QED
        BY <4>1, Multiples
    <3>3. (pingId - 1) * PingPeriod <= now
      BY DEF ScheduleInv, PingSchedule
    <3>4. (i - 1) * PingPeriod \in Int /\ (pingId - 1) * PingPeriod \in Int
      BY <1>2, <3>1
    <3> QED
      BY <1>2, <3>2, <3>3, <3>4
  <2> QED
    BY <1>1, <2>1 DEF ScheduleInv, PingSchedule, stopVars, senderTask
<1>6. WaitSchedule'
  <2>1. 0 * RecvTimeout = 0 /\ (0 + strays) * RecvTimeout \in Nat
    BY <1>2
  <2>2. now + 0 * RecvTimeout <= now
    BY <1>2, <2>1
  <2>3. listening' => /\ now + 0 * RecvTimeout + RecvTimeout <= timeoutAt'
                      /\ timeoutAt' <= now + (0 + strays) * RecvTimeout + RecvTimeout
    BY <1>1, <1>2, <2>1 DEF WaitAgain
  <2>4. ~(0 >= MissLimit)
    BY <1>2
  <2> QED
    BY <1>1, <2>2, <2>3, <2>4 DEF WaitSchedule
<1> QED
  BY <1>4, <1>5, <1>6 DEF ScheduleInv

(* A miss ends a wait that began as the schedule says.                      *)
LEMMA MissSchedule == TimerInv /\ ScheduleInv /\ Miss => ScheduleInv'
<1> SUFFICES ASSUME TimerInv, ScheduleInv, Miss
             PROVE  ScheduleInv'
  OBVIOUS
<1>1. /\ listening /\ timeoutAt = now /\ misses' = misses + 1 /\ WaitAgain
      /\ diagnosed' = IF misses' >= MissLimit THEN diagnosed \cup {now} ELSE diagnosed
      /\ UNCHANGED <<now, stopVars, senderTask, ema, net, strays, answeredIds, rtts, lastPong>>
  BY DEF Miss, Timeout
<1>2. /\ {now, lastPong, strays, misses, MissLimit, RecvTimeout} \subseteq Nat
      /\ RecvTimeout > 0 /\ running \in BOOLEAN
  BY PingMonitorAssumption DEF TimerInv, TimerTypes, ScheduleInv, ScheduleTypes
<1>3. /\ lastPong + misses * RecvTimeout + RecvTimeout <= now
      /\ now <= lastPong + (misses + strays) * RecvTimeout + RecvTimeout
  BY <1>1 DEF ScheduleInv, WaitSchedule
<1>4. ScheduleTypes'
  BY <1>1, <1>2 DEF ScheduleInv, ScheduleTypes, stopVars, senderTask
<1>5. PingSchedule'
  BY <1>1 DEF ScheduleInv, PingSchedule, stopVars, senderTask
<1>6. WaitSchedule'
  <2>1. /\ (misses + 1) * RecvTimeout = misses * RecvTimeout + RecvTimeout
        /\ ((misses + 1) + strays) * RecvTimeout = (misses + strays) * RecvTimeout + RecvTimeout
        /\ misses * RecvTimeout \in Nat /\ (misses + strays) * RecvTimeout \in Nat
    BY <1>2
  <2>2. lastPong + (misses + 1) * RecvTimeout <= now
    BY <1>2, <1>3, <2>1
  <2>3. listening' =>
          /\ lastPong + (misses + 1) * RecvTimeout + RecvTimeout <= timeoutAt'
          /\ timeoutAt' <= lastPong + ((misses + 1) + strays) * RecvTimeout + RecvTimeout
    BY <1>1, <1>2, <1>3, <2>1, <2>2 DEF WaitAgain
  <2>4. now > lastPong
    BY <1>2, <1>3, <2>1
  <2>5. misses' >= MissLimit => \E t \in diagnosed' : t > lastPong
    BY <1>1, <2>4
  <2> QED
    BY <1>1, <2>2, <2>3, <2>5 DEF WaitSchedule
<1> QED
  BY <1>4, <1>5, <1>6 DEF ScheduleInv

(* Steps that leave the tasks alone, or only let time pass.                 *)
LEMMA PassiveSchedule ==
  ASSUME TimerInv, ScheduleInv,
         now' \in Times, now' >= now, stoppedAt' \in Times, running' => running, pinging' => pinging,
         running' => pinging',
         \A m \in net' : \E q \in net : m.id = q.id,
         UNCHANGED <<pingAt, pingId, pongTask, strays, histories>>
  PROVE  ScheduleInv'
<1>1. {now, now', lastPong, pingId, misses, PingPeriod, RecvTimeout} \subseteq Nat
  BY PingMonitorAssumption DEF TimerInv, TimerTypes, ScheduleInv, ScheduleTypes, Times
<1>2. (pingId - 1) * PingPeriod \in Int /\ misses * RecvTimeout \in Nat
  BY <1>1
<1>3. ScheduleTypes'
  BY DEF ScheduleInv, ScheduleTypes, histories, pongTask
<1>4. PingSchedule'
  BY <1>1, <1>2 DEF ScheduleInv, PingSchedule, histories
<1>5. WaitSchedule'
  BY <1>1, <1>2 DEF ScheduleInv, WaitSchedule, histories, pongTask
<1> QED
  BY <1>3, <1>4, <1>5 DEF ScheduleInv

LEMMA NextSchedule == TimerInv /\ DatagramInv /\ ScheduleInv /\ [Next]_vars => ScheduleInv'
<1> SUFFICES ASSUME TimerInv, DatagramInv, ScheduleInv, [Next]_vars
             PROVE  ScheduleInv'
  OBVIOUS
<1>1. CASE SendPing
  BY <1>1, SendSchedule
<1>2. CASE Miss
  BY <1>2, MissSchedule
<1>3. ASSUME NEW m \in net, AcceptPong(m)
      PROVE  ScheduleInv'
  BY <1>3, AcceptSchedule
<1>4. now \in Times /\ stoppedAt \in Times /\ now \in Nat /\ MaxTime \in Nat
  BY PingMonitorAssumption DEF TimerInv, TimerTypes, ScheduleInv, ScheduleTypes
<1>5. ASSUME listening, WaitAgain, strays' = strays + 1,
             UNCHANGED <<now, stopVars, senderTask, misses, ema, histories>>,
             \A m \in net' : m \in net
      PROVE  ScheduleInv'
  <2>1. WaitSchedule'
    BY <1>5, WaitAgainSchedule DEF histories
  <2>2. ScheduleTypes'
    BY <1>5 DEF ScheduleInv, ScheduleTypes, stopVars, senderTask, histories
  <2>3. PingSchedule'
    BY <1>5 DEF ScheduleInv, PingSchedule, stopVars, senderTask, histories
  <2> QED
    BY <2>1, <2>2, <2>3 DEF ScheduleInv
<1>6. CASE Disregard
  BY <1>6, <1>5 DEF Disregard
<1>7. ASSUME NEW m \in net, RecvError(m)
      PROVE  ScheduleInv'
  BY <1>7, <1>5 DEF RecvError
<1>8. CASE EndPinging
  <2>1. running' = FALSE
    BY <1>8, Zenon DEF EndPinging, stopVars, TimerInv, TimerTypes
  <2> QED
    BY <1>8, <1>4, <2>1, PassiveSchedule DEF EndPinging, stopVars
<1>9. CASE Stop
  BY <1>9, <1>4, PassiveSchedule DEF Stop, senderTask
<1>10. running => pinging
  BY DEF ScheduleInv, PingSchedule
<1>11. CASE Tick
  <2>1. now' \in Times /\ now' >= now /\ UNCHANGED <<stopVars, senderTask, pongTask, net, strays, histories>>
    BY <1>11, <1>4 DEF Tick, Times
  <2> QED
    BY <2>1, <1>4, <1>10, PassiveSchedule DEF stopVars, senderTask
<1>12. ASSUME NEW m \in net, Answer(m)
      PROVE  ScheduleInv'
  <2>1. \A q \in net' : \E r \in net : q.id = r.id
    BY <1>12 DEF Answer
  <2> QED
    BY <1>12, <1>4, <1>10, <2>1, PassiveSchedule DEF Answer, stopVars, senderTask
<1>13. ASSUME NEW m \in net, Lose(m)
      PROVE  ScheduleInv'
  BY <1>13, <1>4, <1>10, PassiveSchedule DEF Lose, stopVars, senderTask
<1>14. CASE UNCHANGED vars
  BY <1>14, <1>4, <1>10, PassiveSchedule DEF vars, stopVars, senderTask
<1>15. ASSUME NEW m \in net, Duplicate(m)
      PROVE  ScheduleInv'
  <2>1. \A q \in net' : \E r \in net : q.id = r.id
    <3>1. net' = net \cup {[m EXCEPT !.copy = dups']}
      BY <1>15 DEF Duplicate
    <3>2. [m EXCEPT !.copy = dups'].id = m.id
      BY DEF DatagramInv, DatagramTypes
    <3> QED
      BY <3>1, <3>2
  <2> QED
    BY <1>15, <1>4, <1>10, <2>1, PassiveSchedule DEF Duplicate, stopVars, senderTask
<1> QED
  BY <1>1, <1>2, <1>3, <1>6, <1>7, <1>8, <1>9, <1>11, <1>12, <1>13, <1>14, <1>15 DEF Next

(* The schedule of pings and waits is kept, whatever the network does.      *)
THEOREM ScheduleKept == Spec => [](TimerInv /\ DatagramInv /\ AverageInv /\ ScheduleInv)
BY TimersKept, AverageKept, InitSchedule, NextSchedule, PTL DEF Spec

LEMMA SilenceFollows == TimerInv /\ ScheduleInv => SilenceReported
<1> SUFFICES ASSUME TimerInv, ScheduleInv, listening,
                    now > lastPong + (MissLimit + strays) * RecvTimeout
             PROVE  \E t \in diagnosed : t > lastPong
  BY DEF SilenceReported
<1>1. {now, timeoutAt, lastPong, misses, strays, MissLimit, RecvTimeout} \subseteq Nat
  BY PingMonitorAssumption DEF TimerInv, TimerTypes, ScheduleInv, ScheduleTypes
<1>2. now <= timeoutAt /\ timeoutAt <= lastPong + (misses + strays) * RecvTimeout + RecvTimeout
  BY DEF TimerInv, TimersAhead, ScheduleInv, WaitSchedule
<1>3. misses >= MissLimit
  <2> SUFFICES ASSUME misses < MissLimit
               PROVE  FALSE
    BY <1>1
  <2>1. (misses + strays + 1) * RecvTimeout <= (MissLimit + strays) * RecvTimeout
    <3>1. /\ misses + strays + 1 \in Int /\ MissLimit + strays \in Int
          /\ misses + strays + 1 <= MissLimit + strays /\ RecvTimeout \in Nat
      BY <1>1
    <3> QED
      BY <3>1, Multiples
  <2>2. (misses + strays + 1) * RecvTimeout = (misses + strays) * RecvTimeout + RecvTimeout
    BY <1>1
  <2>3. (misses + strays) * RecvTimeout \in Nat /\ (MissLimit + strays) * RecvTimeout \in Nat
    BY <1>1
  <2> QED
    BY <1>1, <1>2, <2>1, <2>2, <2>3
<1> QED
  BY <1>3 DEF ScheduleInv, WaitSchedule

(* A receiver that falls silent is reported MissLimit timeouts after its    *)
(* last pong, one more for each stray, whatever the periods are             *)
(* (PingClient::start: the timeout arm of the pong task).                   *)
THEOREM SilenceIsReported == Spec => []SilenceReported
BY ScheduleKept, SilenceFollows, PTL

-----------------------------------------------------------------------------
(* The periods of the code are such that a ping is sent during every wait.  *)
PingsWithinWaits == PingPeriod < RecvTimeout

(* A receiver that answers is never reported: in MissLimit waits after the  *)
(* last pong, MissLimit pings at least have been sent, none of which is     *)
(* answered.                                                                *)
LEMMA AlarmIsTrue ==
  ASSUME PingsWithinWaits, TimerInv, ScheduleInv, running, Miss, diagnosed' # diagnosed
  PROVE  \E i \in Ids : Unanswered(i) /\ SentAt(i) >= lastPong
<1>1. listening /\ timeoutAt = now /\ misses + 1 >= MissLimit
  BY DEF Miss, Timeout
<1>2. /\ {now, lastPong, misses, pingId} \subseteq Nat
      /\ {MissLimit, RecvTimeout, PingPeriod} \subseteq Nat \ {0}
      /\ now \in Times /\ MaxTime \in Nat
  BY PingMonitorAssumption DEF TimerInv, TimerTypes, ScheduleInv, ScheduleTypes
<1>3. now >= lastPong + MissLimit * RecvTimeout
  <2>1. lastPong + (misses + 1) * RecvTimeout <= now
    <3>1. lastPong + misses * RecvTimeout + RecvTimeout <= now
      BY <1>1 DEF ScheduleInv, WaitSchedule
    <3>2. (misses + 1) * RecvTimeout = misses * RecvTimeout + RecvTimeout /\ misses * RecvTimeout \in Nat
      BY <1>2
    <3> QED
      BY <1>2, <3>1, <3>2
  <2>2. MissLimit * RecvTimeout <= (misses + 1) * RecvTimeout
    <3>1. MissLimit \in Int /\ misses + 1 \in Int /\ MissLimit <= misses + 1 /\ RecvTimeout \in Nat
      BY <1>1, <1>2
    <3> QED
      BY <3>1, Multiples
  <2>3. MissLimit * RecvTimeout \in Nat /\ (misses + 1) * RecvTimeout \in Nat
    BY <1>2
  <2> QED
    BY <1>2, <2>1, <2>2, <2>3
<1>4. pingId * PingPeriod >= now
  <2>1. pinging /\ pingAt = pingId * PingPeriod /\ now <= pingAt
    BY DEF ScheduleInv, PingSchedule, TimerInv, TimersAhead
  <2> QED
    BY <2>1, <1>2
<1> DEFINE first == pingId - MissLimit + 1
<1>5. (first - 1) * PingPeriod > lastPong
  <2>1. (first - 1) * PingPeriod = pingId * PingPeriod - MissLimit * PingPeriod
    BY <1>2
  <2>2. MissLimit * RecvTimeout >= MissLimit * PingPeriod + MissLimit
    <3>1. /\ PingPeriod + 1 <= RecvTimeout /\ PingPeriod + 1 \in Int /\ RecvTimeout \in Int
          /\ MissLimit \in Nat
      BY <1>2 DEF PingsWithinWaits
    <3>2. (PingPeriod + 1) * MissLimit <= RecvTimeout * MissLimit
      BY <3>1, Multiples
    <3> QED
      BY <1>2, <3>2
  <2>3. {pingId * PingPeriod, MissLimit * PingPeriod, MissLimit * RecvTimeout} \subseteq Nat
    BY <1>2
  <2> QED
    BY <1>2, <1>3, <1>4, <2>1, <2>2, <2>3
<1>6. first \in Int /\ first > 1
  <2>1. first \in Int
    BY <1>2
  <2>2. ASSUME first <= 1
        PROVE  FALSE
    <3>1. first - 1 \in Int /\ 0 \in Int /\ first - 1 <= 0 /\ PingPeriod \in Nat
      BY <1>2, <2>1, <2>2
    <3>2. (first - 1) * PingPeriod <= 0 * PingPeriod
      BY <3>1, Multiples
    <3>3. 0 * PingPeriod = 0 /\ (first - 1) * PingPeriod \in Int
      BY <1>2, <3>1
    <3> QED
      BY <1>2, <1>5, <3>2, <3>3
  <2> QED
    BY <2>1, <2>2
<1>7. pingId - 1 <= now
  <2>1. (pingId - 1) * PingPeriod <= now
    BY DEF ScheduleInv, PingSchedule
  <2>2. (pingId - 1) * PingPeriod >= pingId - 1
    <3>1. pingId - 1 \in Nat /\ 1 \in Int /\ PingPeriod \in Int /\ 1 <= PingPeriod
      BY <1>2, <1>6
    <3>2. 1 * (pingId - 1) <= PingPeriod * (pingId - 1)
      BY <3>1, Multiples
    <3> QED
      BY <1>2, <3>2
  <2>3. (pingId - 1) * PingPeriod \in Int
    BY <1>2
  <2> QED
    BY <1>2, <2>1, <2>2, <2>3
<1>8. first \in Ids
  BY <1>2, <1>6, <1>7 DEF Ids, Times
<1>9. ASSUME NEW j \in first .. first + MissLimit - 1
      PROVE  j \in (1 .. pingId) \ answeredIds
  <2>1. j \in 1 .. pingId
    BY <1>2, <1>6
  <2>2. (j - 1) * PingPeriod >= (first - 1) * PingPeriod
    <3>1. first - 1 \in Int /\ j - 1 \in Int /\ first - 1 <= j - 1 /\ PingPeriod \in Nat
      BY <1>2, <1>6, <2>1
    <3> QED
      BY <3>1, Multiples
  <2>3. (j - 1) * PingPeriod \in Int /\ (first - 1) * PingPeriod \in Int
    BY <1>2, <1>6, <2>1
  <2>4. (j - 1) * PingPeriod > lastPong
    BY <1>2, <1>5, <2>2, <2>3
  <2>5. j \notin answeredIds
    BY <1>2, <2>3, <2>4 DEF ScheduleInv, PingSchedule
  <2> QED
    BY <2>1, <2>5
<1>10. SentAt(first) >= lastPong
  <2>1. (first - 1) * PingPeriod \in Int
    BY <1>2, <1>6
  <2> QED
    BY <1>2, <1>5, <2>1 DEF SentAt
<1> HIDE DEF first
<1> QED
  BY <1>8, <1>9, <1>10 DEF Unanswered

(* Only an alarm adds to the diagnoses.                                     *)
LEMMA OnlyMissDiagnoses ==
  ASSUME [Next]_vars, diagnosed' # diagnosed
  PROVE  Miss
<1>1. ASSUME NEW m \in net, Answer(m) \/ Lose(m) \/ Duplicate(m) \/ AcceptPong(m) \/ RecvError(m)
      PROVE  diagnosed' = diagnosed
  BY <1>1 DEF Answer, Lose, Duplicate, AcceptPong, RecvError, histories
<1>2. CASE SendPing \/ EndPinging \/ Disregard \/ Stop \/ Tick \/ UNCHANGED vars
  BY <1>2 DEF SendPing, EndPinging, Disregard, Stop, Tick, vars, histories
<1> QED
  BY <1>1, <1>2 DEF Next

(* With a ping period shorter than the timeout, as 2 s and 3 s are, the     *)
(* diagnostic is never logged of a receiver that answers (PingClient::start *)
(* while it runs).                                                          *)
THEOREM AlarmsAreTrue == ASSUME PingsWithinWaits PROVE Spec => NoFalseAlarm
<1>1. TimerInv /\ ScheduleInv /\ [Next]_vars
        => [running /\ diagnosed' # diagnosed => \E i \in Ids : Unanswered(i) /\ SentAt(i) >= lastPong]_vars
  BY AlarmIsTrue, OnlyMissDiagnoses
<1> QED
  BY <1>1, ScheduleKept, PTL DEF Spec, NoFalseAlarm

-----------------------------------------------------------------------------
(* The bounds of the types follow from the schedules: a ping takes at least *)
(* one instant and so does a miss.                                          *)
LEMMA TypesFollow == TimerInv /\ DatagramInv /\ AverageInv /\ ScheduleInv => TypeOK
<1> SUFFICES ASSUME TimerInv, DatagramInv, AverageInv, ScheduleInv
             PROVE  TypeOK
  OBVIOUS
<1>1. /\ {now, pingAt, timeoutAt, misses, pingId, lastPong, MaxTime} \subseteq Nat
      /\ {PingPeriod, RecvTimeout} \subseteq Nat \ {0}
      /\ now \in Times /\ stoppedAt \in Times
  BY PingMonitorAssumption DEF TimerInv, TimerTypes, ScheduleInv, ScheduleTypes
<1>2. /\ pingAt \in now .. now + PingPeriod \/ ~pinging
      /\ timeoutAt \in now .. now + RecvTimeout \/ ~listening
  BY <1>1 DEF TimerInv, TimerTypes, TimersAhead
<1>3. pingId \in Ids \cup {0}
  <2>1. CASE pingId = 0
    BY <2>1
  <2>2. CASE pingId # 0
    <3>1. pingId - 1 \in Nat /\ 1 \in Int /\ PingPeriod \in Int /\ 1 <= PingPeriod
      BY <1>1, <2>2
    <3>2. 1 * (pingId - 1) <= PingPeriod * (pingId - 1)
      BY <3>1, Multiples
    <3>3. (pingId - 1) * PingPeriod <= now
      BY DEF ScheduleInv, PingSchedule
    <3>4. PingPeriod * (pingId - 1) = (pingId - 1) * PingPeriod /\ (pingId - 1) * PingPeriod \in Int
      BY <1>1
    <3> QED
      BY <1>1, <2>2, <3>2, <3>3, <3>4 DEF Ids, Times
  <2> QED
    BY <2>1, <2>2
<1>4. misses \in 0 .. MaxTime
  <2>1. 1 * misses <= RecvTimeout * misses
    <3>1. misses \in Nat /\ 1 \in Int /\ RecvTimeout \in Int /\ 1 <= RecvTimeout
      BY <1>1
    <3> QED
      BY <3>1, Multiples
  <2>2. lastPong + misses * RecvTimeout <= now
    BY DEF ScheduleInv, WaitSchedule
  <2>3. RecvTimeout * misses = misses * RecvTimeout /\ misses * RecvTimeout \in Nat
    BY <1>1
  <2> QED
    BY <1>1, <2>1, <2>2, <2>3 DEF Times
<1>5. 1 .. pingId \subseteq Ids
  BY <1>1, <1>3 DEF Ids
<1>6. answeredIds \subseteq Ids
  BY <1>5 DEF ScheduleInv, ScheduleTypes
<1>7. net \subseteq [type : {"Ping", "Pong"}, id : Ids, ts : Times, sent : Times, copy : 0 .. dups]
  <2>1. ASSUME NEW m \in net
        PROVE  m \in [type : {"Ping", "Pong"}, id : Ids, ts : Times, sent : Times, copy : 0 .. dups]
    <3>1. m \in [type : {"Ping", "Pong"}, id : Int, ts : Nat, sent : Nat, copy : 0 .. dups]
      BY DEF DatagramInv, DatagramTypes
    <3>2. m.sent <= now /\ m.ts <= m.sent
      BY <3>1 DEF DatagramInv, DatagramAges
    <3>3. m.id \in Ids
      BY <1>5 DEF ScheduleInv, ScheduleTypes
    <3>4. m.ts \in Times /\ m.sent \in Times
      BY <1>1, <3>1, <3>2 DEF Times
    <3> QED
      BY <3>1, <3>3, <3>4
  <2> QED
    BY <2>1
<1>8. rtts \subseteq Times /\ diagnosed \subseteq Times
  BY DEF ScheduleInv, ScheduleTypes
<1>9. ema \in Times
  <2>1. ema \in Nat /\ (rtts = {} => ema = 0)
    BY DEF AverageInv
  <2>2. CASE rtts # {}
    <3>1. PICK b \in rtts : ema <= b
      BY <2>2 DEF AverageInv, Between
    <3> QED
      BY <1>1, <1>8, <2>1, <3>1 DEF Times
  <2> QED
    BY <1>1, <2>1, <2>2 DEF Times
<1>10. {running, pinging, listening} \subseteq BOOLEAN
  BY DEF TimerInv, TimerTypes
<1>11. dups \in 0 .. MaxDups
  BY DEF DatagramInv
<1> QED
  BY <1>1, <1>2, <1>3, <1>4, <1>6, <1>7, <1>8, <1>9, <1>10, <1>11 DEF TypeOK

(* Type correctness, the bounds of timers and counters included.            *)
THEOREM TypeCorrect == Spec => []TypeOK
BY ScheduleKept, TypesFollow, PTL
=============================================================================
