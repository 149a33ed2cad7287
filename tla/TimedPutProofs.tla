--------------------------- MODULE TimedPutProofs ---------------------------
(***************************************************************************)
(* Proofs about a PUT with clocks, for every latency below half a second,  *)
(* every number of losses, every configuration that waits, and every file, *)
(* disk, block size and range of block numbers.  Where datagrams are only  *)
(* lost, the two ends take turns: TurnsInv says what can be under way at   *)
(* whose turn, and ClocksInv how old it is, from which it follows that no  *)
(* timer is early.                                                         *)
(***************************************************************************)
EXTENDS TimedPut, TftpPutProofs

USE DEF Lesser, Greater

\* The time that both ends have settled on to wait for each other.
Grace == Settled.timeout * Second

Waiting == cl.pc \in ClientWaits
Sleeping == cl.pc \in Sleeps

\* How long the client's wait has lasted.
Waited == delay - left

Alive(s) == sess[s].pc \in {"spawned", "create", "recv"}
NobodyAlive == \A s \in Sessions : ~Alive(s)

-----------------------------------------------------------------------------
ClockTypes ==
    /\ delay \in Nat /\ left \in 0..delay /\ elapsed \in Nat
    /\ deadline \in [Sessions -> 0..Grace]
    /\ age \in [Ports -> Seq(0..Latency)]
    /\ \A p \in Ports : Len(age[p]) = Len(net[p])
    /\ lost \in [PacketTypes -> 0..faults]

\* Sockets are open as long as their owners are at work, and only an open socket
\* has a queue.
SocketsMatch ==
    /\ ListenPort \in open
    /\ ClientPort \in open <=> cl.pc \notin ClientDone
    /\ \A s \in Sessions : s \in open <=> sess[s].pc \in {"create", "recv"}
    /\ \A p \in Ports : net[p] # <<>> => p \in open

\* Before an attempt nothing is under way; the first one finds no session, and a
\* later one none that could answer.
RestInv ==
    /\ cl.pc \in {"start", "backoff", "pause"} => \A p \in Ports : net[p] = <<>>
    /\ cl.pc = "start" => NobodyAlive
    /\ Sleeping => \A s \in Sessions : sess[s].pc \notin {"spawned", "create"}
    /\ cl.pc # "await" =>
          net[ListenPort] = <<>> /\ \A s \in Sessions : sess[s].pc # "spawned"
    /\ cl.pc # "ack" => \A s \in Sessions : net[s] = <<>>

\* A datagram that the server has still to see is the only one.
AskedInv ==
    /\ net[ListenPort] # <<>> =>
          NobodyAlive /\ net[ClientPort] = <<>> /\ Len(net[ListenPort]) = 1
    /\ \A s \in Sessions :
          /\ sess[s].pc = "spawned" => net[ClientPort] = <<>>
          /\ net[s] # <<>> =>
                /\ net[ClientPort] = <<>> /\ Len(net[s]) = 1
                /\ net[s][1].type = "DATA" /\ net[s][1].block = cl.block
                /\ sess[s].expected = cl.block
          /\ Alive(s) /\ cl.pc = "read" => sess[s].expected = cl.block
          /\ Alive(s) /\ cl.pc = "await" => sess[s].expected = 1

\* What m, the i-th datagram under way to the client, may be.
Answer(m, i) ==
    \/ m.type = "ERROR" /\ NobodyAlive
    \/ i = 1 /\ cl.pc = "await" /\ m.type = "OACK"
    \/ /\ i = 1 /\ cl.pc = "ack" /\ m.type = "ACK" /\ m.block = cl.block
       /\ \A s \in Sessions : Alive(s) => sess[s].expected = NextBlock(cl.block)

TurnsInv ==
    /\ \A s, t \in Sessions : Alive(s) /\ Alive(t) => s = t
    /\ RestInv
    /\ AskedInv
    /\ \A i \in 1..Len(net[ClientPort]) : Answer(net[ClientPort][i], i)

-----------------------------------------------------------------------------
\* The client waits as long as it has asked for, and then as it has been granted.
GrantsInv ==
    /\ Asking => cl.timeout = cfg.timeout
    /\ Working => cl.timeout = Settled.timeout /\ cl.server \in Sessions

\* What is under way to the server is as old as the client's wait, and what is
\* under way to the client at most a latency younger.  A session's deadline starts
\* when it has received a datagram, and it is out before the client's next attempt.
AgesInv ==
    /\ Waiting =>
          /\ age[ListenPort] \in Seq(Waited..Latency)
          /\ age[ClientPort] \in Seq((Waited - Latency)..Latency)
    /\ \A s \in Sessions :
          /\ Waiting => age[s] \in Seq(Waited..Latency)
          /\ Waiting /\ sess[s].pc \in {"spawned", "create"} => Waited <= Latency

DeadlinesInv ==
    \A s \in Sessions : sess[s].pc = "recv" =>
        /\ Waiting => deadline[s] + Waited <= Grace + Latency
        /\ Waiting /\ net[s] # <<>> => Grace - deadline[s] <= Latency + Waited
        /\ Waiting => age[ClientPort] \in Seq((Grace - deadline[s])..Latency)
        /\ cl.pc = "read" => Grace - deadline[s] <= Latency
        /\ Sleeping => deadline[s] < left

ClocksInv == AgesInv /\ DeadlinesInv

\* What the attempts so far have cost.
BudgetInv ==
    /\ ~Waiting /\ ~Sleeping => delay = 0 /\ left = 0 /\ elapsed = 0
    /\ cl.pc \in {"start", "read"} => cl.attempt = 0
    /\ cl.pc = "read" => cfg.retries > 0
    /\ Waiting \/ Sleeping => cl.attempt < cfg.retries
    /\ Waiting => /\ delay = Factor(cl.attempt + 1) * Initial
                  /\ elapsed <= 2 * FactorSum(cl.attempt) * Initial + Waited
    /\ Sleeping => /\ cl.attempt > 0
                   /\ delay = Factor(cl.attempt) * Initial
                   /\ elapsed + left <= 2 * FactorSum(cl.attempt) * Initial

TimedInv ==
    /\ PutInv /\ ClockTypes /\ SocketsMatch /\ TurnsInv
    /\ GrantsInv /\ ClocksInv /\ BudgetInv

-----------------------------------------------------------------------------
(* Numbers *)

\* The server never grants more time than was asked for.
LEMMA GrantedInTime ==
    ASSUME NEW c \in Configs, NEW len \in FileLens
    PROVE  /\ SettledFor(c, len).timeout \in 1..MaxTimeout
           /\ SettledFor(c, len).timeout <= c.timeout
<1> DEFINE r == RequestOptions(c, len)
           n == apply_oack(defaults, r)
<1>1. /\ IsOptionSet(r) /\ "timeout" \in DOMAIN r /\ r["timeout"] = c.timeout
  BY ConfigTypes, LengthTypes, RequestCarriesConfig
<1>2. c.timeout \in 1..(U16 - 1) /\ c.timeout < U16
  BY ConfigTypes, WaitsAssumption, OptionsAssumption
<1>3. n.timeout = c.timeout
  BY <1>1, <1>2 DEF apply_oack, U16Option
<1>4. SettledFor(c, len).timeout =
          IF n.timeout \in 1..MaxTimeout THEN n.timeout ELSE DefaultTimeout
  BY DEF SettledFor, Granted, clamp_negotiation
<1> HIDE DEF r, n
<1> QED BY <1>2, <1>3, <1>4, OptionsAssumption

LEMMA GraceFacts ==
    ASSUME PutInv
    PROVE  /\ Grace \in Nat /\ Second \in Nat /\ Latency \in Nat
           /\ 2 * Latency < Second /\ Second <= Grace /\ Grace <= MaxTimeout * Second
           /\ Settled.timeout \in 1..MaxTimeout /\ Settled.timeout <= cfg.timeout
           /\ cfg.timeout \in 0..(U16 - 1) /\ cfg.retries \in Nat
           /\ MaxTimeout \in Nat /\ U16 \in Nat /\ MaxTimeout < U16
<1>1. cfg \in Configs /\ srcLen \in FileLens /\ Settled = SettledFor(cfg, srcLen)
  BY PutFacts
<1>2. /\ Settled.timeout \in 1..MaxTimeout /\ Settled.timeout <= cfg.timeout
      /\ cfg.timeout \in 0..(U16 - 1) /\ cfg.retries \in Nat
  BY <1>1, GrantedInTime, ConfigTypes
<1>3. /\ Second \in Nat /\ Latency \in Nat /\ 2 * Latency < Second
      /\ MaxTimeout \in Nat /\ U16 \in Nat /\ MaxTimeout < U16
  BY TimedPutAssumption, OptionsAssumption
<1> DEFINE t == Settled.timeout
<1>4. t \in Nat /\ 1 <= t /\ t <= MaxTimeout
  BY <1>2, <1>3
<1> HIDE DEF t
<1>5. t * Second \in Nat /\ 1 * Second <= t * Second /\ t * Second <= MaxTimeout * Second
  BY <1>3, <1>4, ProductMonotonic, ProductIsNat
<1>6. Grace = t * Second
  BY DEF Grace, t
<1> QED BY <1>2, <1>3, <1>5, <1>6

\* Every attempt waits for at least what the server has granted.
LEMMA WaitFacts ==
    ASSUME PutInv, GrantsInv, Asking \/ Working
    PROVE  /\ Initial \in Nat /\ Grace <= Initial /\ Initial <= U16 * Second
           /\ cl.timeout \in Nat
<1>1. /\ cl.timeout \in Nat /\ Settled.timeout \in Nat /\ cl.timeout <= U16
      /\ Settled.timeout <= cl.timeout
  BY GraceFacts DEF GrantsInv
<1>2. Second \in Nat /\ U16 \in Nat
  BY GraceFacts
<1> DEFINE a == Settled.timeout
           b == cl.timeout
<1>3. a \in Nat /\ b \in Nat /\ a <= b /\ b <= U16
  BY <1>1
<1> HIDE DEF a, b
<1>4. b * Second \in Nat /\ a * Second <= b * Second /\ b * Second <= U16 * Second
  BY <1>2, <1>3, ProductMonotonic, ProductIsNat
<1> QED BY <1>1, <1>4 DEF Initial, Grace, a, b

\* The sum grows by what the next attempt waits.
LEMMA FactorFacts ==
    ASSUME NEW k \in Nat
    PROVE  /\ Factor(k) \in {1, 2, 4, 8} /\ FactorSum(k) \in Nat
           /\ FactorSum(k + 1) = FactorSum(k) + Factor(k + 1)
           /\ k > 0 => Factor(k + 1) = Lesser(2 * Factor(k), 8)
BY DEF Factor, FactorSum

LEMMA FactorsGrow ==
    ASSUME NEW j \in Nat, NEW k \in Nat, j <= k
    PROVE  FactorSum(j) <= FactorSum(k)
BY DEF FactorSum

LEMMA DelayFacts ==
    ASSUME TimedInv, Waiting \/ Sleeping
    PROVE  /\ delay \in Nat /\ Grace <= delay /\ 2 * Latency < delay
           /\ Initial \in Nat /\ Initial <= delay /\ delay <= 8 * Initial
           /\ cl.attempt \in Nat
<1>1. Asking \/ Working
  BY DEF Waiting, Sleeping, ClientWaits, Sleeps, Asking, Working
<1>2. Initial \in Nat /\ Grace <= Initial
  BY <1>1, WaitFacts DEF TimedInv
<1>3. cl.attempt \in Nat
  BY DEF TimedInv, PutInv, ClientInv, ClientStates
<1>4. PICK k \in Nat : delay = Factor(k) * Initial
  <2>1. cl.attempt + 1 \in Nat
    BY <1>3
  <2> QED BY <1>3, <2>1 DEF TimedInv, BudgetInv
<1>5. Factor(k) \in {1, 2, 4, 8}
  BY FactorFacts
<1>6. Grace \in Nat /\ Latency \in Nat /\ 2 * Latency < Grace
  BY GraceFacts DEF TimedInv
<1> QED BY <1>2, <1>3, <1>4, <1>5, <1>6

-----------------------------------------------------------------------------
(* No timer is early *)

\* A datagram that has been waiting is not older than the latency.
LEMMA OldestIsYoung ==
    ASSUME PutInv, ClockTypes, NEW p \in Ports, net[p] # <<>>,
           NEW x \in Int, age[p] \in Seq(x..Latency)
    PROVE  x <= Latency
<1>1. Len(age[p]) # 0 /\ Latency \in Nat
  BY GraceFacts DEF ClockTypes, PutInv, QueuesInv
<1>2. age[p][1] \in x..Latency
  BY <1>1
<1> QED BY <1>1, <1>2

LEMMA ClientTimerIsDue ==
    ASSUME TimedInv, Waiting, left = 0
    PROVE  /\ ClientTimerDue /\ \A p \in Ports : net[p] = <<>>
           /\ Waited = delay /\ delay \in Nat
<1>1. /\ Waited = delay /\ delay \in Nat /\ Latency \in Nat /\ 2 * Latency < delay
      /\ Waited \in Int /\ Waited - Latency \in Int
  BY DelayFacts, GraceFacts DEF TimedInv, Waited
<1>2. net[ListenPort] = <<>> /\ net[ClientPort] = <<>>
  <2>1. /\ age[ListenPort] \in Seq(Waited..Latency)
        /\ age[ClientPort] \in Seq((Waited - Latency)..Latency)
    BY DEF TimedInv, ClocksInv, AgesInv
  <2> QED BY <1>1, <2>1, OldestIsYoung, PortsAreDistinct DEF TimedInv
<1>3. ASSUME NEW s \in Sessions
      PROVE  net[s] = <<>> /\ sess[s].pc \notin {"spawned", "create"}
  <2>1. /\ age[s] \in Seq(Waited..Latency)
        /\ sess[s].pc \in {"spawned", "create"} => Waited <= Latency
    BY DEF TimedInv, ClocksInv, AgesInv
  <2> QED BY <1>1, <2>1, OldestIsYoung, PortsAreDistinct DEF TimedInv
<1>4. \A p \in Ports : net[p] = <<>>
  BY <1>2, <1>3, NetworkAssumption DEF Ports, Sessions, ListenPort, ClientPort
<1> QED BY <1>1, <1>2, <1>3, <1>4 DEF ClientTimerDue, SessionIdle

LEMMA SessionTimerIsDue ==
    ASSUME TimedInv, NEW s \in Sessions, sess[s].pc = "recv", deadline[s] = 0
    PROVE  SessionTimerDue(s)
<1>1. /\ Grace \in Nat /\ Latency \in Nat /\ 2 * Latency < Grace /\ Latency < Grace
      /\ Grace - deadline[s] = Grace /\ Waited \in Int
  BY GraceFacts DEF TimedInv, ClockTypes, Waited
<1>2. Alive(s) /\ cl \in ClientStates
  BY DEF Alive, TimedInv, PutInv, ClientInv
<1>3. CASE Sleeping
  BY <1>3 DEF SessionTimerDue, TimedInv, TurnsInv, RestInv, Sleeping, Sleeps
<1>4. CASE Waiting
  <2>1. net[ClientPort] = <<>>
    <3>1. age[ClientPort] \in Seq(Grace..Latency)
      BY <1>1, <1>4 DEF TimedInv, ClocksInv, DeadlinesInv
    <3> QED BY <1>1, <3>1, OldestIsYoung, PortsAreDistinct DEF TimedInv
  <2>2. net[s] = <<>>
    <3>1. SUFFICES ASSUME net[s] # <<>> PROVE FALSE
      OBVIOUS
    <3>2. Grace <= Latency + Waited
      BY <1>1, <1>4, <3>1 DEF TimedInv, ClocksInv, DeadlinesInv
    <3>3. Waited <= Latency
      <4>1. age[s] \in Seq(Waited..Latency)
        BY <1>4 DEF TimedInv, ClocksInv, AgesInv
      <4> QED BY <1>1, <3>1, <4>1, OldestIsYoung, PortsAreDistinct DEF TimedInv
    <3> QED BY <1>1, <3>2, <3>3
  <2> QED BY <1>4, <2>1, <2>2 DEF SessionTimerDue, Waiting, ClientWaits
<1>5. CASE cl.pc = "read"
  BY <1>1, <1>5 DEF TimedInv, ClocksInv, DeadlinesInv
<1>6. CASE cl.pc = "start"
  BY <1>2, <1>6 DEF TimedInv, TurnsInv, RestInv, NobodyAlive
<1>7. CASE cl.pc \in ClientDone
  <2>1. net[ClientPort] = <<>>
    BY <1>7, PortsAreDistinct DEF TimedInv, SocketsMatch
  <2>2. net[s] = <<>>
    BY <1>7 DEF TimedInv, TurnsInv, RestInv, ClientDone, ClientFailed
  <2> QED BY <1>7, <2>1, <2>2 DEF SessionTimerDue, ClientDone, ClientFailed
<1> QED
  BY <1>2, <1>3, <1>4, <1>5, <1>6, <1>7
  DEF ClientStates, Sleeping, Sleeps, Waiting, ClientWaits

\* So every step with clocks is a step without.
LEMMA TimedStep ==
    ASSUME TimedInv, [TimedNext]_timedVars
    PROVE  [Next]_vars
<1>1. CASE TimedClient
  BY <1>1 DEF TimedClient, Next
<1>2. CASE TimedClientTimer
  <2>1. Waiting
    BY <1>2 DEF TimedClientTimer, ClientTimeout, Waiting, ClientWaits
  <2>2. ClientTimerDue
    BY <1>2, <2>1, ClientTimerIsDue DEF TimedClientTimer
  <2> QED BY <1>2, <2>2 DEF TimedClientTimer, ClientTimer, TimerFires, Next
<1>3. CASE TimedListener
  BY <1>3 DEF TimedListener, Next
<1>4. ASSUME NEW s \in Sessions, TimedSession(s) \/ TimedWriter(s)
      PROVE  Next
  BY <1>4 DEF TimedSession, TimedWriter, Next
<1>5. ASSUME NEW s \in Sessions, TimedSessionTimer(s)
      PROVE  Next
  <2>1. SessionTimerDue(s)
    BY <1>5, SessionTimerIsDue DEF TimedSessionTimer, SessionTimeout
  <2> QED BY <1>5, <2>1 DEF TimedSessionTimer, SessionTimer, TimerFires, Next
<1>6. CASE TimedNetwork
  BY <1>6 DEF TimedNetwork, Network, NetworkFault, Next
<1>7. CASE Tick \/ UNCHANGED timedVars
  BY <1>7 DEF Tick, timedVars
<1> QED BY <1>1, <1>2, <1>3, <1>4, <1>5, <1>6, <1>7 DEF TimedNext

-----------------------------------------------------------------------------
(* What a step does to a queue, and to the ages in it *)

Rests(p) == net'[p] = net[p]
Shrinks(p) == net'[p] = <<>> \/ (net[p] # <<>> /\ net'[p] = Tail(net[p]))
Grows(p) == \E m : net'[p] = Append(net[p], m)

\* What is left in a queue is as old as it was.
LEMMA AgesFollow ==
    ASSUME PutInv, ClockTypes, QueueClock, NEW p \in Ports, Rests(p) \/ Shrinks(p)
    PROVE  /\ Len(age'[p]) = Len(net'[p])
           /\ \A x \in Int : age[p] \in Seq(x..Latency) => age'[p] \in Seq(x..Latency)
<1> DEFINE q == net[p]
           a == age[p]
<1>1. /\ q \in Seq(HonestPackets(cfg, srcLen, Asking)) /\ a \in Seq(0..Latency)
      /\ Len(a) = Len(q) /\ Len(q) \in Nat
  BY LenProperties DEF PutInv, QueuesInv, ClockTypes
<1>2. age'[p] = CASE net'[p] = <<>> -> <<>>
                  [] net'[p] # <<>> /\ Len(net'[p]) < Len(q) -> Tail(a)
                  [] Len(net'[p]) > Len(q) -> Append(a, 0)
                  [] OTHER -> a
  BY DEF QueueClock
<1> HIDE DEF q, a
<1>3. CASE net'[p] = <<>>
  <2>1. age'[p] = <<>>
    BY <1>2, <1>3
  <2> QED BY <1>3, <2>1
<1>4. CASE net'[p] # <<>> /\ net'[p] = q
  <2>1. age'[p] = a
    BY <1>1, <1>2, <1>4
  <2> QED BY <1>1, <1>4, <2>1 DEF a
<1>5. CASE net'[p] # <<>> /\ q # <<>> /\ net'[p] = Tail(q)
  <2>1. Len(Tail(q)) = Len(q) - 1 /\ Len(q) > 0
    BY <1>1, <1>5
  <2>2. age'[p] = Tail(a)
    BY <1>1, <1>2, <1>5, <2>1
  <2>3. a # <<>>
    BY <1>1, <2>1
  <2>4. Len(Tail(a)) = Len(a) - 1
    BY <1>1, <2>3
  <2>5. \A x \in Int : a \in Seq(x..Latency) => Tail(a) \in Seq(x..Latency)
    BY <2>3
  <2> QED BY <1>1, <1>5, <2>1, <2>2, <2>4, <2>5 DEF a
<1> QED BY <1>3, <1>4, <1>5 DEF Rests, Shrinks, q

\* What is sent is new.
LEMMA AgesStart ==
    ASSUME PutInv, ClockTypes, QueueClock, NEW p \in Ports, Grows(p)
    PROVE  /\ Len(age'[p]) = Len(net'[p])
           /\ \A x \in Int : x <= 0 /\ age[p] \in Seq(x..Latency) =>
                                 age'[p] \in Seq(x..Latency)
<1> DEFINE q == net[p]
           a == age[p]
<1>0. PICK m : net'[p] = Append(q, m)
  BY DEF Grows
<1>1. /\ q \in Seq(HonestPackets(cfg, srcLen, Asking)) /\ a \in Seq(0..Latency)
      /\ Len(a) = Len(q) /\ Len(q) \in Nat /\ Latency \in Nat
  BY LenProperties, GraceFacts DEF PutInv, QueuesInv, ClockTypes
<1>2. age'[p] = CASE net'[p] = <<>> -> <<>>
                  [] net'[p] # <<>> /\ Len(net'[p]) < Len(q) -> Tail(a)
                  [] Len(net'[p]) > Len(q) -> Append(a, 0)
                  [] OTHER -> a
  BY DEF QueueClock
<1> HIDE DEF q, a
<1>3. Len(Append(q, m)) = Len(q) + 1 /\ Append(q, m) # <<>>
  <2>1. q \in Seq(HonestPackets(cfg, srcLen, Asking) \cup {m})
    BY <1>1, SeqMonotonic
  <2> QED BY <2>1, AppendProperties, EmptySeq
<1>4. age'[p] = Append(a, 0)
  BY <1>0, <1>1, <1>2, <1>3
<1>5. Len(Append(a, 0)) = Len(a) + 1
  BY <1>1
<1>6. ASSUME NEW x \in Int, x <= 0, a \in Seq(x..Latency)
      PROVE  Append(a, 0) \in Seq(x..Latency)
  BY <1>1, <1>6
<1> QED BY <1>0, <1>1, <1>3, <1>4, <1>5, <1>6 DEF a

LEMMA QueuesAge ==
    ASSUME PutInv, ClockTypes, QueueClock,
           \A p \in Ports : Rests(p) \/ Shrinks(p) \/ Grows(p)
    PROVE  /\ age' \in [Ports -> Seq(0..Latency)]
           /\ \A p \in Ports : Len(age'[p]) = Len(net'[p])
<1>1. ASSUME NEW p \in Ports
      PROVE  age'[p] \in Seq(0..Latency) /\ Len(age'[p]) = Len(net'[p])
  <2>1. age[p] \in Seq(0..Latency) /\ 0 \in Int /\ 0 <= 0
    BY DEF ClockTypes
  <2>2. CASE Rests(p) \/ Shrinks(p)
    BY <2>1, <2>2, AgesFollow
  <2>3. CASE Grows(p)
    BY <2>1, <2>3, AgesStart
  <2> QED BY <2>2, <2>3
<1>2. age' = [p \in Ports |-> age'[p]]
  BY DEF QueueClock
<1> QED BY <1>1, <1>2

LEMMA AgesAtLeast ==
    ASSUME NEW x \in Int, NEW y \in Int, y <= x, NEW a \in Seq(x..Latency)
    PROVE  a \in Seq(y..Latency)
<1>1. x..Latency \subseteq y..Latency
  BY TimedPutAssumption
<1> QED BY <1>1, SeqMonotonic

LEMMA PortKinds ==
    ASSUME NEW p \in Ports
    PROVE  p = ListenPort \/ p = ClientPort \/ p \in Sessions
BY NetworkAssumption DEF Ports, Sessions, ListenPort, ClientPort

-----------------------------------------------------------------------------
(* The client's steps *)

\* What every step must keep.
TimeKept ==
    ClockTypes' /\ SocketsMatch' /\ TurnsInv' /\ GrantsInv' /\ ClocksInv' /\ BudgetInv'

\* What no step of the client changes.
ClientAlone ==
    /\ ClientClock /\ QueueClock
    /\ UNCHANGED <<cfg, srcLen, sess, deadline, lost, faults>>

LEMMA ClientAloneFacts ==
    ASSUME TimedInv, ClientAlone
    PROVE  /\ Settled' = Settled /\ Grace' = Grace
           /\ \A s \in Sessions : Alive(s)' <=> Alive(s)
           /\ NobodyAlive' <=> NobodyAlive
           /\ cl \in ClientStates /\ net \in [Ports -> Seq(HonestPackets(cfg, srcLen, Asking))]
           /\ open \subseteq Ports
BY DEF ClientAlone, Settled, SettledFor, Grace, Alive, NobodyAlive, TimedInv, PutInv,
       ClientInv, QueuesInv, SocketsInv

\* The types of the clocks after a step of the client.
LEMMA ClientClockTypes ==
    ASSUME TimedInv, ClientAlone, delay' \in Nat, left' \in 0..delay', elapsed' \in Nat,
           \A p \in Ports : Rests(p) \/ Shrinks(p) \/ Grows(p)
    PROVE  ClockTypes'
<1>1. age' \in [Ports -> Seq(0..Latency)] /\ \A p \in Ports : Len(age'[p]) = Len(net'[p])
  BY QueuesAge DEF TimedInv, ClientAlone
<1>2. Grace' = Grace
  BY ClientAloneFacts
<1> QED BY <1>1, <1>2 DEF ClockTypes, TimedInv, ClientAlone

\* put returns when nothing is left under way but to itself.
LEMMA ClientLeaves ==
    ASSUME TimedInv, ClientAlone, NEW q, q = net \/ q = Received(net, ClientPort),
           NEW result \in ClientDone, Return(q, result),
           cl.pc \notin ClientDone, net[ListenPort] = <<>>,
           \A s \in Sessions : net[s] = <<>> /\ sess[s].pc # "spawned"
    PROVE  TimeKept
<1>1. /\ Settled' = Settled /\ Grace' = Grace
      /\ \A s \in Sessions : Alive(s)' <=> Alive(s)
      /\ cl \in ClientStates /\ net \in [Ports -> Seq(HonestPackets(cfg, srcLen, Asking))]
  BY ClientAloneFacts
<1>2. cl'.pc = result /\ open' = open \ {ClientPort}
  BY <1>1 DEF Return, ClientStates
<1>3. \A p \in Ports : net'[p] = <<>>
  <2> TAKE p \in Ports
  <2>1. CASE p = ClientPort
    BY <1>1, <2>1 DEF Return, Closed, Received
  <2>2. CASE p # ClientPort
    BY <1>1, <2>2, PortKinds DEF Return, Closed, Received
  <2> QED BY <2>1, <2>2
<1>4. ~Waiting' /\ ~Sleeping' /\ ~Asking' /\ ~Working'
  BY <1>2 DEF Waiting, Sleeping, ClientWaits, Sleeps, Asking, Working, ClientDone,
              ClientFailed
<1>5. cl'.pc \notin {"start", "backoff", "pause", "await", "ack", "read"}
  BY <1>2 DEF ClientDone, ClientFailed
<1>6. delay' = 0 /\ left' = 0 /\ elapsed' = 0
  BY <1>4 DEF ClientAlone, ClientClock, AttemptBegins, AttemptIsOver, Waiting, Sleeping
<1>7. ClockTypes'
  BY <1>3, <1>6, ClientClockTypes DEF Shrinks
<1>8. SocketsMatch'
  BY <1>2, <1>3, PortsAreDistinct DEF SocketsMatch, TimedInv, ClientAlone
<1>9. TurnsInv'
  <2>1. net'[ListenPort] = <<>> /\ net'[ClientPort] = <<>> /\ \A s \in Sessions : net'[s] = <<>>
    BY <1>3, PortsAreDistinct
  <2>2. RestInv'
    BY <1>4, <1>5, <2>1 DEF RestInv, ClientAlone
  <2>3. AskedInv'
    BY <1>5, <2>1 DEF AskedInv, ClientAlone
  <2>4. 1..Len(net'[ClientPort]) = {}
    BY <2>1
  <2> QED BY <1>1, <2>2, <2>3, <2>4 DEF TurnsInv, TimedInv
<1>10. ClocksInv'
  BY <1>4, <1>5 DEF ClocksInv, AgesInv, DeadlinesInv
<1>11. GrantsInv' /\ BudgetInv'
  BY <1>4, <1>5, <1>6 DEF GrantsInv, BudgetInv
<1> QED BY <1>7, <1>8, <1>9, <1>10, <1>11 DEF TimeKept

\* By the time of a next attempt no session is left from the last one.
LEMMA NobodyLeft ==
    ASSUME TimedInv, cl.pc = "start" \/ (Sleeping /\ left = 0)
    PROVE  NobodyAlive /\ \A p \in Ports : net[p] = <<>>
<1>1. CASE cl.pc = "start"
  BY <1>1 DEF TimedInv, TurnsInv, RestInv
<1>2. CASE Sleeping /\ left = 0
  <2>1. ASSUME NEW s \in Sessions PROVE ~Alive(s)
    <3>1. sess[s].pc \notin {"spawned", "create"}
      BY <1>2 DEF TimedInv, TurnsInv, RestInv
    <3>2. sess[s].pc = "recv" => deadline[s] < left /\ deadline[s] \in 0..Grace
      BY <1>2 DEF TimedInv, ClocksInv, DeadlinesInv, ClockTypes
    <3>3. Grace \in Nat
      BY GraceFacts DEF TimedInv
    <3> QED BY <1>2, <3>1, <3>2, <3>3 DEF Alive
  <2>2. \A p \in Ports : net[p] = <<>>
    BY <1>2 DEF TimedInv, TurnsInv, RestInv, Sleeping, Sleeps
  <2> QED BY <2>1, <2>2 DEF NobodyAlive
<1> QED BY <1>1, <1>2

\* An attempt begins: its wait is the next delay.
LEMMA AttemptStarts ==
    ASSUME TimedInv, ClientAlone,
           cl.pc \in {"start", "read"} \/ (Sleeping /\ left = 0),
           cl'.pc \in ClientWaits, cl'.attempt = cl.attempt, cl'.timeout = cl.timeout,
           cl.attempt < cfg.retries
    PROVE  /\ Waiting' /\ Waited' = 0
           /\ delay' \in Nat /\ left' \in 0..delay' /\ elapsed' \in Nat
           /\ BudgetInv'
<1>1. cl.pc \notin ClientWaits /\ cl.attempt \in Nat /\ cfg.retries \in Nat
  BY GraceFacts DEF ClientWaits, Sleeping, Sleeps, TimedInv, PutInv, ClientInv, ClientStates
<1>2. /\ delay' = IF cl.pc \in Sleeps THEN NextDelay ELSE Initial
      /\ left' = delay'
      /\ elapsed' = IF cl.pc \in Sleeps THEN elapsed ELSE 0
  BY <1>1 DEF ClientAlone, ClientClock, AttemptBegins, AttemptIsOver
<1>3. Initial' = Initial
  BY DEF Initial
<1>4. Initial \in Nat
  BY WaitFacts DEF TimedInv, Asking, Working, Sleeping, Sleeps
<1>5. /\ delay' \in Nat /\ delay' = Factor(cl.attempt + 1) * Initial
      /\ elapsed' \in Nat /\ elapsed' <= 2 * FactorSum(cl.attempt) * Initial
  <2>1. CASE cl.pc \in {"start", "read"}
    <3>1. cl.attempt = 0 /\ delay' = Initial /\ elapsed' = 0
      BY <1>2, <2>1 DEF Sleeps, TimedInv, BudgetInv
    <3>2. Factor(1) = 1 /\ FactorSum(0) = 0
      BY DEF Factor, FactorSum
    <3> QED BY <1>4, <3>1, <3>2
  <2>2. CASE Sleeping /\ left = 0
    <3>1. /\ delay' = Lesser(2 * delay, 8 * Initial) /\ elapsed' = elapsed
          /\ cl.attempt > 0 /\ delay = Factor(cl.attempt) * Initial
          /\ elapsed <= 2 * FactorSum(cl.attempt) * Initial /\ elapsed \in Nat
      BY <1>2, <2>2 DEF Sleeping, NextDelay, TimedInv, BudgetInv, ClockTypes
    <3>2. /\ Factor(cl.attempt) \in {1, 2, 4, 8}
          /\ Factor(cl.attempt + 1) = Lesser(2 * Factor(cl.attempt), 8)
      BY <1>1, <3>1, FactorFacts
    <3>3. delay' = Factor(cl.attempt + 1) * Initial /\ delay' \in Nat
      BY <1>4, <3>1, <3>2
    <3> QED BY <3>1, <3>3
  <2> QED BY <2>1, <2>2
<1>6. Waited' = 0 /\ left' \in 0..delay'
  BY <1>2, <1>5 DEF Waited
<1>7. Waiting' /\ ~Sleeping' /\ cl'.pc \notin {"start", "read"}
  BY DEF Waiting, Sleeping, ClientWaits, Sleeps
<1>8. elapsed' <= 2 * FactorSum(cl.attempt) * Initial + 0
  BY <1>1, <1>4, <1>5, FactorFacts
<1>9. /\ cl'.attempt < cfg'.retries /\ delay' = Factor(cl'.attempt + 1) * Initial'
      /\ elapsed' <= 2 * FactorSum(cl'.attempt) * Initial' + Waited'
  BY <1>3, <1>5, <1>6, <1>8 DEF ClientAlone
<1> QED BY <1>5, <1>6, <1>7, <1>9 DEF BudgetInv

\* A request goes out when nobody is at work.
LEMMA ClientAsks ==
    ASSUME TimedInv, ClientAlone, SendRequest, cl.pc \in Sleeps => left = 0
    PROVE  TimeKept
<1> DEFINE m == Wrq(ClientPort, RequestOptions(cfg, srcLen))
<1>1. /\ Settled' = Settled /\ Grace' = Grace
      /\ \A s \in Sessions : Alive(s)' <=> Alive(s)
      /\ NobodyAlive' <=> NobodyAlive
      /\ cl \in ClientStates /\ net \in [Ports -> Seq(HonestPackets(cfg, srcLen, Asking))]
  BY ClientAloneFacts
<1>2. /\ cl.pc \in {"start", "backoff"} /\ cl.attempt < cfg.retries
      /\ cl'.pc = "await" /\ cl'.attempt = cl.attempt /\ cl'.timeout = cl.timeout
      /\ UNCHANGED open
  BY <1>1 DEF SendRequest, ClientStates
<1>3. cl.pc = "start" \/ (Sleeping /\ left = 0)
  BY <1>2 DEF Sleeping, Sleeps
<1>4. NobodyAlive /\ \A p \in Ports : net[p] = <<>>
  BY <1>3, NobodyLeft
<1>5. /\ Waiting' /\ Waited' = 0
      /\ delay' \in Nat /\ left' \in 0..delay' /\ elapsed' \in Nat
      /\ BudgetInv'
  BY <1>2, <1>3, AttemptStarts DEF ClientWaits
<1>6. /\ net'[ListenPort] = Append(net[ListenPort], m)
      /\ \A p \in Ports : p # ListenPort => net'[p] = net[p]
  <2>1. ListenPort \in open /\ net' = Sent(net, ListenPort, m)
    BY DEF TimedInv, SocketsMatch, SendRequest
  <2> QED BY <1>1, <2>1, PortsAreDistinct DEF Sent
<1> HIDE DEF m
<1>7. net'[ListenPort] = <<m>>
  <2>1. net[ListenPort] = <<>>
    BY <1>4, PortsAreDistinct
  <2> QED BY <1>6, <2>1
<1>8. /\ net'[ClientPort] = <<>> /\ \A s \in Sessions : net'[s] = <<>>
      /\ Len(net'[ListenPort]) = 1
  BY <1>4, <1>6, <1>7, PortsAreDistinct
<1>9. ClockTypes'
  BY <1>5, <1>6, ClientClockTypes DEF Rests, Grows
<1>10. SocketsMatch'
  BY <1>2, <1>4, <1>6, PortKinds DEF SocketsMatch, TimedInv, ClientAlone, ClientDone,
                                     ClientFailed
<1>11. TurnsInv'
  <2>1. RestInv'
    BY <1>2, <1>8 DEF RestInv, Sleeping, Sleeps
  <2>2. AskedInv'
    BY <1>1, <1>2, <1>4, <1>8 DEF AskedInv, NobodyAlive, Alive
  <2>3. 1..Len(net'[ClientPort]) = {}
    BY <1>8
  <2> QED BY <1>1, <2>1, <2>2, <2>3 DEF TurnsInv, TimedInv
<1>12. GrantsInv'
  <2>1. Asking /\ Asking' /\ ~Working'
    BY <1>2 DEF Asking, Working
  <2> QED BY <1>2, <2>1 DEF GrantsInv, TimedInv, ClientAlone
<1>13. ClocksInv'
  <2>1. \A s \in Sessions : sess'[s].pc \notin {"spawned", "create", "recv"}
    BY <1>1, <1>4 DEF NobodyAlive, Alive, ClientAlone
  <2>2. Latency \in Nat /\ 0 \in Int
    BY GraceFacts DEF TimedInv
  <2>3. age' \in [Ports -> Seq(0..Latency)]
    BY <1>9 DEF ClockTypes
  <2>4. age'[ClientPort] \in Seq((0 - Latency)..Latency)
    <3>1. age'[ClientPort] \in Seq(0..Latency)
      BY <2>3, PortsAreDistinct
    <3>2. 0 - Latency \in Int /\ 0 - Latency <= 0
      BY <2>2
    <3> QED BY <2>2, <3>1, <3>2, AgesAtLeast
  <2>5. /\ age'[ListenPort] \in Seq(0..Latency)
        /\ \A s \in Sessions : age'[s] \in Seq(0..Latency)
    BY <2>3, PortsAreDistinct
  <2>6. AgesInv'
    BY <1>5, <2>1, <2>4, <2>5 DEF AgesInv
  <2> QED BY <2>1, <2>6 DEF ClocksInv, DeadlinesInv
<1> QED BY <1>5, <1>9, <1>10, <1>11, <1>12, <1>13 DEF TimeKept

\* The datagrams on their way to a client that reads or sleeps are ERRORs of
\* sessions that have ended.
LEMMA ReadersQueue ==
    ASSUME TimedInv, cl.pc \notin ClientWaits
    PROVE  /\ \A i \in 1..Len(net[ClientPort]) :
                  net[ClientPort][i].type = "ERROR" /\ NobodyAlive
           /\ ~NobodyAlive => net[ClientPort] = <<>>
<1>1. \A i \in 1..Len(net[ClientPort]) :
          net[ClientPort][i].type = "ERROR" /\ NobodyAlive
  BY DEF TimedInv, TurnsInv, Answer, ClientWaits
<1>2. net[ClientPort] # <<>> => 1 \in 1..Len(net[ClientPort])
  BY PortsAreDistinct, LenProperties, EmptySeq DEF TimedInv, PutInv, QueuesInv
<1> QED BY <1>1, <1>2

\* A block goes out to a session that awaits it, or to nobody.
LEMMA ClientSends ==
    ASSUME TimedInv, ClientAlone, SendBlock, cl.pc \in Sleeps => left = 0
    PROVE  TimeKept
<1> DEFINE m == Data(ClientPort, cl.block, cl.rpos, BlockLen)
<1>1. /\ Settled' = Settled /\ Grace' = Grace
      /\ \A s \in Sessions : Alive(s)' <=> Alive(s)
      /\ NobodyAlive' <=> NobodyAlive
      /\ cl \in ClientStates /\ net \in [Ports -> Seq(HonestPackets(cfg, srcLen, Asking))]
  BY ClientAloneFacts
<1>2. /\ cl.pc \in {"read", "pause"} /\ UNCHANGED open
      /\ cl'.pc = "ack" /\ cl'.attempt = cl.attempt /\ cl'.timeout = cl.timeout
      /\ cl'.block = cl.block /\ cl'.server = cl.server
  BY <1>1 DEF SendBlock, ClientStates
<1>3. cl.pc = "pause" => NobodyAlive /\ net[ClientPort] = <<>>
  BY NobodyLeft, PortsAreDistinct DEF Sleeping, Sleeps
<1>4. cl.attempt < cfg.retries
  BY <1>2 DEF TimedInv, BudgetInv, Sleeping, Sleeps
<1>5. /\ Waiting' /\ Waited' = 0
      /\ delay' \in Nat /\ left' \in 0..delay' /\ elapsed' \in Nat
      /\ BudgetInv'
  BY <1>2, <1>4, AttemptStarts DEF ClientWaits, Sleeping, Sleeps
<1>6. Working /\ cl.server \in Sessions /\ cl.timeout = Settled.timeout
  BY <1>2 DEF Working, TimedInv, GrantsInv
<1>7. /\ net[ListenPort] = <<>>
      /\ \A s \in Sessions : net[s] = <<>> /\ sess[s].pc # "spawned"
  BY <1>2 DEF TimedInv, TurnsInv, RestInv
<1>8. net' = Sent(net, cl.server, m)
  BY DEF SendBlock
<1>9. m.type = "DATA" /\ m.block = cl.block
  BY DEF Data
<1> HIDE DEF m
<1>10. \A p \in Ports : \/ net'[p] = net[p]
                        \/ /\ p = cl.server /\ p \in open
                           /\ net'[p] = Append(net[p], m)
  BY <1>1, <1>6, <1>8, PortsAreDistinct DEF Sent
<1>11. net'[ListenPort] = <<>> /\ net'[ClientPort] = net[ClientPort]
  BY <1>6, <1>7, <1>10, PortsAreDistinct
<1>12. ASSUME NEW s \in Sessions, net'[s] # <<>>
       PROVE  /\ sess[s].pc \in {"create", "recv"} /\ cl.pc = "read"
              /\ net[ClientPort] = <<>> /\ net'[s] = <<m>>
  <2>1. net[s] = <<>> /\ s \in Ports
    BY <1>7, PortsAreDistinct
  <2>2. s \in open /\ net'[s] = Append(net[s], m)
    BY <1>10, <1>12, <2>1
  <2>3. sess[s].pc \in {"create", "recv"} /\ Alive(s)
    BY <2>2 DEF TimedInv, SocketsMatch, Alive
  <2>4. cl.pc = "read" /\ net[ClientPort] = <<>>
    BY <1>2, <1>3, <2>3, ReadersQueue DEF NobodyAlive, ClientWaits
  <2> QED BY <2>1, <2>2, <2>3, <2>4
<1>13. ClockTypes'
  BY <1>5, <1>10, ClientClockTypes DEF Rests, Grows
<1>14. SocketsMatch'
  BY <1>2, <1>10 DEF SocketsMatch, TimedInv, ClientAlone, ClientDone, ClientFailed
<1>15. TurnsInv'
  <2>1. RestInv'
    BY <1>2, <1>7, <1>11 DEF RestInv, Sleeping, Sleeps, ClientAlone
  <2>2. AskedInv'
    <3>1. ASSUME NEW s \in Sessions, net'[s] # <<>>
          PROVE  /\ net'[ClientPort] = <<>> /\ Len(net'[s]) = 1
                 /\ net'[s][1].type = "DATA" /\ net'[s][1].block = cl'.block
                 /\ sess'[s].expected = cl'.block
      <4>1. sess[s].expected = cl.block
        BY <1>12, <3>1 DEF TimedInv, TurnsInv, AskedInv, Alive
      <4>2. net'[s] = <<m>> /\ net'[ClientPort] = <<>>
        BY <1>11, <1>12, <3>1
      <4>3. Len(net'[s]) = 1 /\ net'[s][1] = m
        BY <4>2
      <4>4. sess'[s].expected = cl'.block
        BY <1>2, <4>1 DEF ClientAlone
      <4> QED BY <1>2, <1>9, <4>2, <4>3, <4>4
    <3> QED BY <1>2, <1>7, <1>11, <3>1 DEF AskedInv, ClientAlone
  <2>3. ASSUME NEW i \in 1..Len(net'[ClientPort])
        PROVE  Answer(net[ClientPort][i], i)'
    BY <1>1, <1>2, <1>11, <2>3, ReadersQueue DEF Answer, ClientWaits
  <2> QED BY <1>1, <2>1, <2>2, <2>3 DEF TurnsInv, TimedInv
<1>16. GrantsInv'
  BY <1>1, <1>2, <1>6 DEF GrantsInv, Asking
<1>17. ClocksInv'
  <2>1. Latency \in Nat /\ 0 - Latency \in Int /\ 0 - Latency <= 0 /\ Grace \in Nat
    BY GraceFacts DEF TimedInv
  <2>2. /\ \A p \in Ports : age'[p] \in Seq(0..Latency)
        /\ \A p \in Ports : Len(age'[p]) = Len(net'[p])
    BY <1>13 DEF ClockTypes
  <2>3. age'[ClientPort] \in Seq((0 - Latency)..Latency)
    BY <2>1, <2>2, AgesAtLeast, PortsAreDistinct
  <2>4. AgesInv'
    BY <1>5, <2>1, <2>2, <2>3, PortsAreDistinct DEF AgesInv
  <2>5. ASSUME NEW s \in Sessions, sess[s].pc = "recv"
        PROVE  /\ deadline[s] <= Grace + Latency
               /\ net'[s] # <<>> => Grace - deadline[s] <= Latency
               /\ age'[ClientPort] \in Seq((Grace - deadline[s])..Latency)
    <3>1. deadline[s] \in 0..Grace
      BY DEF TimedInv, ClockTypes
    <3>2. ~NobodyAlive
      BY <2>5 DEF NobodyAlive, Alive
    <3>3. net'[ClientPort] = <<>>
      BY <1>2, <1>11, <3>2, ReadersQueue DEF ClientWaits
    <3>4. age'[ClientPort] = <<>>
      <4>1. age'[ClientPort] \in Seq(0..Latency) /\ Len(age'[ClientPort]) = 0
        BY <2>2, <3>3, PortsAreDistinct
      <4> QED BY <4>1
    <3>5. net'[s] # <<>> => Grace - deadline[s] <= Latency
      BY <1>12, <2>5 DEF TimedInv, ClocksInv, DeadlinesInv
    <3> QED BY <2>1, <3>1, <3>4, <3>5
  <2>6. \A s \in Sessions : deadline[s] \in 0..Grace
    BY DEF TimedInv, ClockTypes
  <2>7. DeadlinesInv'
    BY <1>1, <1>2, <1>5, <2>1, <2>5, <2>6
    DEF DeadlinesInv, ClientAlone, Sleeping, Sleeps
  <2> QED BY <2>4, <2>7 DEF ClocksInv
<1> QED BY <1>5, <1>13, <1>14, <1>15, <1>16, <1>17 DEF TimeKept

\* What the client finds when a datagram has come.
LEMMA FirstAnswer ==
    ASSUME TimedInv, net[ClientPort] # <<>>
    PROVE  /\ Answer(Head(net[ClientPort]), 1)
           /\ \A i \in 1..Len(Tail(net[ClientPort])) :
                  Tail(net[ClientPort])[i].type = "ERROR" /\ NobodyAlive
           /\ Head(net[ClientPort]) \in HonestPackets(cfg, srcLen, Asking)
           /\ net[ListenPort] = <<>>
           /\ \A s \in Sessions : net[s] = <<>> /\ sess[s].pc # "spawned"
<1> DEFINE q == net[ClientPort]
<1>1. q \in Seq(HonestPackets(cfg, srcLen, Asking)) /\ q # <<>>
  BY PortsAreDistinct DEF TimedInv, PutInv, QueuesInv
<1>2. \A i \in 1..Len(q) : Answer(q[i], i)
  BY DEF TimedInv, TurnsInv
<1> HIDE DEF q
<1>3. /\ Len(q) \in Nat /\ 1 \in 1..Len(q) /\ Head(q) = q[1]
      /\ q[1] \in HonestPackets(cfg, srcLen, Asking)
      /\ Len(Tail(q)) = Len(q) - 1 /\ \A i \in 1..Len(Tail(q)) : Tail(q)[i] = q[i + 1]
  BY <1>1, LenProperties, HeadTailProperties, EmptySeq, ElementOfSeq
<1>4. Answer(Head(q), 1)
  BY <1>2, <1>3
<1>5. ASSUME NEW i \in 1..Len(Tail(q))
      PROVE  Tail(q)[i].type = "ERROR" /\ NobodyAlive
  <2>1. i + 1 \in 1..Len(q) /\ i + 1 # 1 /\ Tail(q)[i] = q[i + 1]
    BY <1>3
  <2> QED BY <1>2, <2>1 DEF Answer
<1>6. /\ net[ListenPort] = <<>>
      /\ \A s \in Sessions : net[s] = <<>> /\ sess[s].pc # "spawned"
  BY <1>1 DEF TimedInv, TurnsInv, AskedInv, q
<1> QED BY <1>3, <1>4, <1>5, <1>6 DEF q

\* The client takes the answer that it has been waiting for, and goes on reading.
LEMMA ClientReads ==
    ASSUME TimedInv, ClientAlone, Waiting, net[ClientPort] # <<>>,
           net' = Received(net, ClientPort), UNCHANGED open,
           cl'.pc = "read", cl'.attempt = 0, cl'.server \in Sessions,
           cl'.timeout = Settled.timeout,
           \A s \in Sessions : Alive(s) => sess[s].expected = cl'.block
    PROVE  TimeKept
<1>1. /\ Settled' = Settled /\ Grace' = Grace
      /\ \A s \in Sessions : Alive(s)' <=> Alive(s)
      /\ NobodyAlive' <=> NobodyAlive
      /\ net \in [Ports -> Seq(HonestPackets(cfg, srcLen, Asking))]
  BY ClientAloneFacts
<1>2. /\ net[ListenPort] = <<>>
      /\ \A s \in Sessions : net[s] = <<>> /\ sess[s].pc # "spawned"
      /\ \A i \in 1..Len(Tail(net[ClientPort])) :
             Tail(net[ClientPort])[i].type = "ERROR" /\ NobodyAlive
  BY FirstAnswer
<1>3. /\ net'[ClientPort] = Tail(net[ClientPort])
      /\ \A p \in Ports : p # ClientPort => net'[p] = net[p]
  BY <1>1, PortsAreDistinct DEF Received
<1>4. ~Waiting' /\ ~Sleeping' /\ ~Asking' /\ Working'
  BY DEF Waiting, Sleeping, ClientWaits, Sleeps, Asking, Working
<1>5. delay' = 0 /\ left' = 0 /\ elapsed' = 0
  BY <1>4 DEF ClientAlone, ClientClock, AttemptBegins, AttemptIsOver, Waiting, Sleeping
<1>6. ClockTypes'
  BY <1>3, <1>5, ClientClockTypes DEF Rests, Shrinks
<1>7. SocketsMatch'
  <2>1. cl.pc \notin ClientDone /\ cl'.pc \notin ClientDone
    BY DEF Waiting, ClientWaits, ClientDone, ClientFailed
  <2>2. \A p \in Ports : net'[p] # <<>> => p \in open
    BY <1>3 DEF TimedInv, SocketsMatch
  <2> QED BY <2>1, <2>2 DEF SocketsMatch, TimedInv, ClientAlone
<1>8. TurnsInv'
  <2>1. net'[ListenPort] = <<>> /\ \A s \in Sessions : net'[s] = <<>>
    BY <1>2, <1>3, PortsAreDistinct
  <2>2. RestInv'
    BY <1>2, <1>4, <2>1 DEF RestInv, ClientAlone
  <2>3. AskedInv'
    BY <1>1, <1>2, <2>1 DEF AskedInv, ClientAlone
  <2>4. ASSUME NEW i \in 1..Len(net'[ClientPort])
        PROVE  Answer(net[ClientPort][i], i)'
    BY <1>1, <1>2, <1>3, <2>4 DEF Answer
  <2> QED BY <1>1, <2>2, <2>3, <2>4 DEF TurnsInv, TimedInv
<1>9. GrantsInv'
  BY <1>1, <1>4 DEF GrantsInv
<1>10. ClocksInv'
  <2>1. AgesInv'
    BY <1>4 DEF AgesInv
  <2>2. ASSUME NEW s \in Sessions, sess[s].pc = "recv"
        PROVE  Grace - deadline[s] <= Latency
    <3>1. age[ClientPort] \in Seq((Grace - deadline[s])..Latency)
      BY <2>2 DEF TimedInv, ClocksInv, DeadlinesInv
    <3>2. Grace - deadline[s] \in Int
      BY GraceFacts DEF TimedInv, ClockTypes
    <3> QED BY <3>1, <3>2, OldestIsYoung, PortsAreDistinct DEF TimedInv
  <2>3. DeadlinesInv'
    BY <1>1, <1>4, <2>2 DEF DeadlinesInv, ClientAlone
  <2> QED BY <2>1, <2>3 DEF ClocksInv
<1>11. BudgetInv'
  <2>1. cfg.retries > 0
    <3>1. cl.attempt \in Nat /\ cfg.retries \in Nat
      BY GraceFacts DEF TimedInv, PutInv, ClientInv, ClientStates
    <3>2. cl.attempt < cfg.retries
      BY DEF TimedInv, BudgetInv
    <3> QED BY <3>1, <3>2
  <2> QED BY <1>4, <1>5, <2>1 DEF BudgetInv, ClientAlone
<1> QED BY <1>6, <1>7, <1>8, <1>9, <1>10, <1>11 DEF TimeKept

\* An attempt is over, and another one follows.
LEMMA ClientSleeps ==
    ASSUME TimedInv, ClientAlone, Waiting, left = 0, UNCHANGED <<net, open>>,
           NEW again, cl' = [cl EXCEPT !.pc = again, !.attempt = @ + 1],
           cl.attempt + 1 < cfg.retries,
           \/ cl.pc = "await" /\ again = "backoff"
           \/ cl.pc = "ack" /\ again = "pause"
    PROVE  TimeKept
<1>1. /\ Settled' = Settled /\ Grace' = Grace
      /\ \A s \in Sessions : Alive(s)' <=> Alive(s)
      /\ cl \in ClientStates
  BY ClientAloneFacts
<1>2. /\ cl'.pc = again /\ cl'.attempt = cl.attempt + 1 /\ cl'.timeout = cl.timeout
      /\ cl'.server = cl.server /\ cl.attempt \in Nat
  BY <1>1 DEF ClientStates
<1>3. /\ ClientTimerDue /\ \A p \in Ports : net[p] = <<>>
      /\ Waited = delay /\ delay \in Nat
  BY ClientTimerIsDue
<1>4. /\ 2 * Latency < delay /\ Latency \in Nat /\ Grace \in Nat /\ Grace <= delay
      /\ Initial \in Nat
  BY DelayFacts, GraceFacts DEF TimedInv
<1>5. ~Waiting' /\ Sleeping' /\ (Asking' <=> Asking) /\ (Working' <=> Working)
  BY <1>2 DEF Waiting, Sleeping, ClientWaits, Sleeps, Asking, Working
<1>6. delay' = delay /\ left' = delay /\ elapsed' = elapsed
  BY <1>5 DEF ClientAlone, ClientClock, AttemptBegins, AttemptIsOver, Waiting, Sleeping,
              Sleep
<1>7. ClockTypes'
  <2>1. elapsed' \in Nat /\ delay' \in Nat /\ left' \in 0..delay'
    BY <1>3, <1>6 DEF TimedInv, ClockTypes
  <2> QED BY <2>1, ClientClockTypes DEF Rests
<1>8. SocketsMatch'
  BY <1>2, <1>3 DEF SocketsMatch, TimedInv, ClientAlone, ClientDone, ClientFailed
<1>9. TurnsInv'
  <2>1. net'[ListenPort] = <<>> /\ net'[ClientPort] = <<>> /\ \A s \in Sessions : net'[s] = <<>>
    BY <1>3, PortsAreDistinct
  <2>2. \A s \in Sessions : sess'[s].pc \notin {"spawned", "create"}
    BY <1>3 DEF ClientTimerDue, SessionIdle, ClientAlone
  <2>3. RestInv'
    BY <1>2, <1>3, <2>1, <2>2 DEF RestInv
  <2>4. AskedInv'
    BY <1>2, <2>1, <2>2 DEF AskedInv
  <2>5. 1..Len(net'[ClientPort]) = {}
    BY <2>1
  <2> QED BY <1>1, <2>3, <2>4, <2>5 DEF TurnsInv, TimedInv
<1>10. GrantsInv'
  BY <1>1, <1>2, <1>5 DEF GrantsInv, TimedInv, ClientAlone
<1>11. ClocksInv'
  <2>1. AgesInv'
    BY <1>5 DEF AgesInv
  <2>2. ASSUME NEW s \in Sessions, sess[s].pc = "recv"
        PROVE  deadline[s] < left'
    <3>1. deadline[s] + Waited <= Grace + Latency /\ deadline[s] \in 0..Grace
      BY <2>2 DEF TimedInv, ClocksInv, DeadlinesInv, ClockTypes
    <3> QED BY <1>3, <1>4, <1>6, <3>1
  <2>3. cl'.pc # "read"
    BY <1>2
  <2>4. DeadlinesInv'
    BY <1>5, <2>2, <2>3 DEF DeadlinesInv, ClientAlone
  <2> QED BY <2>1, <2>4 DEF ClocksInv
<1>12. BudgetInv'
  <2> DEFINE a == cl.attempt
             x == FactorSum(a)
             y == Factor(a + 1)
             z == FactorSum(a + 1)
  <2>1. /\ delay = y * Initial /\ elapsed <= 2 * x * Initial + delay /\ elapsed \in Nat
        /\ Initial' = Initial
    BY <1>2, <1>3 DEF TimedInv, BudgetInv, ClockTypes, Initial
  <2>2. a \in Nat /\ x \in Nat /\ y \in {1, 2, 4, 8} /\ z = x + y
    <3>1. a + 1 \in Nat
      BY <1>2
    <3> QED BY <1>2, <3>1, FactorFacts
  <2> HIDE DEF x, y, z
  <2> DEFINE u == 2 * x * Initial
             v == y * Initial
             w == 2 * z * Initial
  <2>3. u \in Nat /\ v \in Nat /\ w = u + 2 * v
    BY <1>4, <2>2
  <2>4. elapsed + delay <= w
    <3>1. delay = v /\ elapsed <= u + delay /\ elapsed \in Nat
      BY <2>1
    <3> HIDE DEF u, v, w
    <3> QED BY <2>3, <3>1
  <2>5. /\ cl'.attempt > 0 /\ delay' = Factor(cl'.attempt) * Initial'
        /\ elapsed' + left' <= 2 * FactorSum(cl'.attempt) * Initial'
        /\ cl'.attempt < cfg'.retries
    BY <1>2, <1>6, <2>1, <2>2, <2>4 DEF y, z, ClientAlone
  <2>6. cl'.pc \notin {"start", "read"}
    BY <1>2
  <2> QED BY <1>5, <2>5, <2>6 DEF BudgetInv
<1> QED BY <1>7, <1>8, <1>9, <1>10, <1>11, <1>12 DEF TimeKept

\* A datagram has come: a client that still waits for it has got its answer.
LEMMA ClientHears ==
    ASSUME TimedInv, ClientAlone, ClientReceive
    PROVE  TimeKept
<1> DEFINE m == Head(net[ClientPort])
           q == Received(net, ClientPort)
           neg == apply_oack(InitialNegotiation(cfg), m.options)
<1>1. /\ net[ClientPort] # <<>>
      /\ ReceiveReply(m) \/ ReceiveAck(m) \/ ReceiveError(m) \/ ReceiveUnexpected(m)
  BY DEF ClientReceive
<1>2. /\ Answer(m, 1) /\ m \in HonestPackets(cfg, srcLen, Asking)
      /\ net[ListenPort] = <<>>
      /\ \A s \in Sessions : net[s] = <<>> /\ sess[s].pc # "spawned"
  BY <1>1, FirstAnswer
<1>3. /\ m.type # "DATA" /\ m.type # "WRQ" => m.from \in Sessions
      /\ m.type = "OACK" => m.options = OackOptions(SettledFor(cfg, srcLen), NoSize)
  BY <1>2, PacketFields
<1>4. m.type = "OACK" => neg.timeout = Settled.timeout
  BY <1>3, PutFacts, AdoptsSettled DEF TimedInv
<1>5. cl \in ClientStates /\ cl.block \in Blocks /\ BlockMod \in Nat /\ BlockMod > 2
  BY PutFacts DEF TimedInv, PutInv, ClientInv, ClientStates
<1> HIDE DEF m, q, neg
<1>6. ASSUME NEW result \in ClientDone, Return(q, result), cl.pc \notin ClientDone
      PROVE  TimeKept
  <2>1. q = Received(net, ClientPort)
    BY DEF q
  <2> QED BY <1>2, <1>6, <2>1, ClientLeaves
<1>7. CASE ReceiveReply(m)
  <2>1. cl.pc = "await" /\ m.type \in {"OACK", "ERROR"}
    BY <1>2, <1>7 DEF ReceiveReply, Answer
  <2>2. CASE m.type = "OACK"
    <3>1. /\ cl' = [cl EXCEPT !.pc = "read", !.attempt = 0, !.server = m.from,
                              !.blksize = neg.blksize, !.timeout = neg.timeout]
          /\ net' = q /\ UNCHANGED open
      BY <1>7, <2>2 DEF ReceiveReply, q, neg
    <3>2. /\ cl'.pc = "read" /\ cl'.attempt = 0 /\ cl'.server \in Sessions
          /\ cl'.timeout = Settled.timeout /\ cl'.block = cl.block
      BY <1>3, <1>4, <1>5, <2>2, <3>1 DEF ClientStates
    <3>3. cl.block = 1 /\ \A s \in Sessions : Alive(s) => sess[s].expected = 1
      BY <2>1 DEF TimedInv, TurnsInv, AskedInv, PutInv, ClientInv, Asking
    <3>4. Waiting
      BY <2>1 DEF Waiting, ClientWaits
    <3> QED BY <1>1, <3>1, <3>2, <3>3, <3>4, ClientReads DEF q
  <2>3. CASE m.type = "ERROR"
    <3>1. Return(q, "remote")
      BY <1>7, <2>3 DEF ReceiveReply, q
    <3> QED BY <1>6, <2>1, <3>1 DEF ClientDone, ClientFailed
  <2> QED BY <2>1, <2>2, <2>3
<1>8. CASE ReceiveAck(m)
  <2>1. cl.pc = "ack" /\ m.type = "ACK"
    BY <1>8 DEF ReceiveAck, Awaited
  <2>2. \A s \in Sessions : Alive(s) => sess[s].expected = NextBlock(cl.block)
    BY <1>2, <2>1 DEF Answer
  <2>3. CASE \E result \in {"ok", "protocol"} : Return(q, result)
    BY <1>6, <2>1, <2>3 DEF ClientDone, ClientFailed
  <2>4. CASE /\ ~WrapsAfter(cl.block)
             /\ cl' = [cl EXCEPT !.pc = "read", !.attempt = 0, !.server = m.from,
                                 !.block = @ + 1, !.rpos = @ + BlockLen]
             /\ net' = q /\ UNCHANGED open
    <3>1. /\ cl'.pc = "read" /\ cl'.attempt = 0 /\ cl'.server \in Sessions
          /\ cl'.timeout = cl.timeout /\ cl'.block = cl.block + 1
      BY <1>3, <1>5, <2>1, <2>4 DEF ClientStates
    <3>2. NextBlock(cl.block) = cl.block + 1
      BY <1>5, <2>4 DEF NextBlock, WrapsAfter, Blocks
    <3>3. Working /\ Waiting /\ cl.timeout = Settled.timeout
      BY <2>1 DEF Working, Waiting, ClientWaits, TimedInv, GrantsInv
    <3> QED BY <1>1, <2>2, <2>4, <3>1, <3>2, <3>3, ClientReads DEF q
  <2> QED BY <1>8, <2>3, <2>4 DEF ReceiveAck, q
<1>9. CASE ReceiveError(m)
  <2>1. cl.pc = "ack" /\ Return(q, "remote")
    BY <1>9 DEF ReceiveError, q
  <2> QED BY <1>6, <2>1 DEF ClientDone, ClientFailed
<1>10. ~ReceiveUnexpected(m)
  BY <1>2 DEF ReceiveUnexpected, Awaited, Answer
<1> QED BY <1>1, <1>7, <1>8, <1>9, <1>10

LEMMA ClientKeepsTime ==
    ASSUME TimedInv, TimedClient \/ TimedClientTimer
    PROVE  TimeKept
<1>1. ClientAlone
  BY DEF TimedClient, TimedClientTimer, Client, ClientStep, ClientTimeout, serverVars,
         ClientAlone
<1>2. CASE TimedClient
  <2>1. /\ SendRequest \/ NoAttempt \/ EndOfFile \/ SendBlock \/ ClientReceive
        /\ cl.pc \in Sleeps => left = 0
    BY <1>2 DEF TimedClient, Client, ClientStep
  <2>2. CASE NoAttempt \/ EndOfFile
    <3>1. /\ cl.pc \in {"start", "read"}
          /\ Return(net, "timeout") \/ Return(net, "ok")
      BY <2>2 DEF NoAttempt, EndOfFile
    <3>2. /\ net[ListenPort] = <<>>
          /\ \A s \in Sessions : net[s] = <<>> /\ sess[s].pc # "spawned"
      BY <3>1 DEF TimedInv, TurnsInv, RestInv
    <3> QED BY <1>1, <3>1, <3>2, ClientLeaves DEF ClientDone, ClientFailed
  <2> QED BY <1>1, <2>1, <2>2, ClientAsks, ClientSends, ClientHears
<1>3. CASE TimedClientTimer
  <2>1. /\ left = 0
        /\ \/ cl.pc = "await" /\ AttemptFails(net, "backoff")
           \/ cl.pc = "ack" /\ AttemptFails(net, "pause")
    BY <1>3 DEF TimedClientTimer, ClientTimeout
  <2>2. Waiting
    BY <2>1 DEF Waiting, ClientWaits
  <2>3. CASE Return(net, "protocol")
    <3>1. /\ net[ListenPort] = <<>>
          /\ \A s \in Sessions : net[s] = <<>> /\ sess[s].pc # "spawned"
      BY <2>1, <2>2, ClientTimerIsDue, PortsAreDistinct DEF ClientTimerDue, SessionIdle
    <3> QED BY <1>1, <2>1, <2>3, <3>1, ClientLeaves DEF ClientDone, ClientFailed
  <2>4. ASSUME NEW again, cl.attempt + 1 < cfg.retries,
               cl' = [cl EXCEPT !.pc = again, !.attempt = @ + 1],
               UNCHANGED <<net, open>>,
               \/ cl.pc = "await" /\ again = "backoff"
               \/ cl.pc = "ack" /\ again = "pause"
        PROVE  TimeKept
    BY <1>1, <2>1, <2>2, <2>4, ClientSleeps
  <2> QED BY <2>1, <2>3, <2>4 DEF AttemptFails
<1> QED BY <1>2, <1>3

-----------------------------------------------------------------------------
(* The steps of the server *)

\* What no step of the server changes.
ServerAlone == QueueClock /\ UNCHANGED <<putVars, clientClocks, lost, faults>>

LEMMA ServerAloneFacts ==
    ASSUME TimedInv, ServerAlone
    PROVE  /\ Settled' = Settled /\ Grace' = Grace /\ UNCHANGED <<cfg, srcLen, cl>>
           /\ Waiting' = Waiting /\ Sleeping' = Sleeping /\ Waited' = Waited
           /\ Asking' = Asking /\ Working' = Working /\ Initial' = Initial
           /\ GrantsInv' /\ BudgetInv'
           /\ sess \in [Sessions -> SessionStates] /\ open \subseteq Ports
           /\ net \in [Ports -> Seq(HonestPackets(cfg, srcLen, Asking))]
BY DEF ServerAlone, putVars, clientClocks, Settled, SettledFor, Grace, Waiting, Sleeping,
       Waited, Asking, Working, Initial, GrantsInv, BudgetInv, TimedInv, PutInv, ServerInv,
       SocketsInv, QueuesInv

\* Nobody but the client and the one session at work has anything under way.
LEMMA OnlyAtWork ==
    ASSUME TimedInv, NEW s \in Sessions, Alive(s)
    PROVE  /\ \A r \in Sessions : r # s => ~Alive(r) /\ net[r] = <<>>
           /\ net[ListenPort] = <<>> /\ cl.pc # "start"
           /\ sess[s].neg = Settled
<1>1. \A r \in Sessions : r # s => ~Alive(r)
  BY DEF TimedInv, TurnsInv
<1>2. \A r \in Sessions : ~Alive(r) => net[r] = <<>>
  BY PortsAreDistinct DEF TimedInv, SocketsMatch, Alive
<1>3. net[ListenPort] = <<>> /\ cl.pc # "start"
  BY DEF TimedInv, TurnsInv, AskedInv, RestInv, NobodyAlive
<1>4. sess[s].neg = Settled
  BY DEF Alive, TimedInv, PutInv, ServerInv, InStep
<1> QED BY <1>1, <1>2, <1>3, <1>4

\* The client has not been waiting for long.
Early == ~Sleeping /\ (Waiting => Waited <= Latency)

LEMMA EarlyWhenAsked ==
    ASSUME TimedInv, NEW s \in Sessions,
           sess[s].pc \in {"spawned", "create"} \/ net[s] # <<>>
    PROVE  Early
<1>1. CASE sess[s].pc \in {"spawned", "create"}
  BY <1>1 DEF Early, TimedInv, ClocksInv, AgesInv, TurnsInv, RestInv
<1>2. CASE net[s] # <<>>
  <2>1. cl.pc = "ack" /\ ~Sleeping
    BY <1>2 DEF TimedInv, TurnsInv, RestInv, Sleeping, Sleeps
  <2>2. Waiting
    BY <2>1 DEF Waiting, ClientWaits
  <2>3. age[s] \in Seq(Waited..Latency)
    BY <2>2 DEF TimedInv, ClocksInv, AgesInv
  <2>4. Waited \in Int
    BY DEF Waited, TimedInv, ClockTypes
  <2> QED BY <1>2, <2>1, <2>3, <2>4, OldestIsYoung, PortsAreDistinct DEF Early, TimedInv
<1> QED BY <1>1, <1>2

\* What session s sends to the client is what that may get.
Replies(t, s) ==
    \/ Rests(ClientPort)
    \/ /\ ClientPort \in open
       /\ \E m : /\ net'[ClientPort] = Append(net[ClientPort], m)
                 /\ \/ m.type = "ERROR" /\ t.pc \in SessionDone
                    \/ cl.pc = "await" /\ m.type = "OACK" /\ net[ClientPort] = <<>>
                    \/ /\ cl.pc = "ack" /\ m.type = "ACK" /\ net[ClientPort] = <<>>
                       /\ m.block = cl.block
                       /\ Alive(s)' => t.expected = NextBlock(cl.block)

\* The session at work goes over to state t, which is an end or comes early in
\* the client's wait.
LEMMA SessionActs ==
    ASSUME TimedInv, ServerAlone, NEW s \in Sessions, Alive(s), SessionClock(s),
           NEW t \in SessionStates, sess' = [sess EXCEPT ![s] = t],
           \/ /\ t.pc \in SessionDone /\ open' = open \ {s} /\ net'[s] = <<>>
           \/ /\ t.pc \in {"create", "recv"} /\ open' = open \cup {s}
              /\ Early /\ (t.pc = "recv" => Rearmed(s)),
           Rests(ClientPort) \/ Early,
           \A p \in Ports : p # s /\ p # ClientPort => Rests(p),
           Rests(s) \/ Shrinks(s), net'[s] # <<>> => Rests(ClientPort) /\ Rests(s),
           \/ t.expected = sess[s].expected
           \/ cl.pc = "ack" /\ net[ClientPort] = <<>> /\ net'[s] = <<>>,
           Replies(t, s)
    PROVE  TimeKept
<1>1. /\ Settled' = Settled /\ Grace' = Grace /\ UNCHANGED <<cfg, srcLen, cl>>
      /\ Waiting' = Waiting /\ Sleeping' = Sleeping /\ Waited' = Waited
      /\ GrantsInv' /\ BudgetInv'
      /\ sess \in [Sessions -> SessionStates] /\ open \subseteq Ports
      /\ net \in [Ports -> Seq(HonestPackets(cfg, srcLen, Asking))]
  BY ServerAloneFacts
<1>2. /\ \A r \in Sessions : r # s => ~Alive(r) /\ net[r] = <<>>
      /\ net[ListenPort] = <<>> /\ cl.pc # "start"
      /\ sess[s].neg = Settled
  BY OnlyAtWork
<1>3. sess'[s] = t /\ \A r \in Sessions : r # s => sess'[r] = sess[r]
  BY <1>1
<1>4. /\ \A r \in Sessions : r # s => ~Alive(r)' /\ net'[r] = <<>>
      /\ net'[ListenPort] = <<>>
      /\ Alive(s)' <=> t.pc \notin SessionDone
  BY <1>2, <1>3, PortsAreDistinct DEF Alive, Rests, SessionDone
<1>5. NobodyAlive' <=> t.pc \in SessionDone
  BY <1>4 DEF NobodyAlive
<1>6. \A p \in Ports : Rests(p) \/ Shrinks(p) \/ Grows(p)
  BY DEF Replies, Grows
<1>7. ASSUME t.pc \notin SessionDone
      PROVE  /\ t.pc \in {"create", "recv"} /\ open' = open \cup {s} /\ Early
             /\ t.pc = "recv" => deadline'[s] = Grace
  <2>1. /\ t.pc \in {"create", "recv"} /\ open' = open \cup {s} /\ Early
        /\ t.pc = "recv" => Rearmed(s)
    BY <1>7
  <2>2. ASSUME Rearmed(s) PROVE deadline'[s] = Grace
    BY <1>2, <2>2 DEF SessionClock, Grace, TimedInv, ClockTypes
  <2> QED BY <2>1, <2>2
<1>8. ClockTypes'
  <2>1. /\ age' \in [Ports -> Seq(0..Latency)]
        /\ \A p \in Ports : Len(age'[p]) = Len(net'[p])
    BY <1>6, QueuesAge DEF TimedInv, ServerAlone
  <2>2. deadline' \in [Sessions -> 0..Grace]
    <3>1. deadline \in [Sessions -> 0..Grace] /\ Grace \in Nat
      BY GraceFacts DEF TimedInv, ClockTypes
    <3>2. sess[s].neg.timeout * Second = Grace
      BY <1>2 DEF Grace
    <3> QED BY <3>1, <3>2 DEF SessionClock
  <2> QED BY <1>1, <2>1, <2>2 DEF ClockTypes, TimedInv, ServerAlone, clientClocks
<1>9. SocketsMatch'
  <2>1. s \in open' <=> t.pc \notin SessionDone
    BY DEF SessionDone
  <2>2. \A p \in Ports : p # s => (p \in open' <=> p \in open)
    BY <1>7
  <2>3. ASSUME NEW p \in Ports, net'[p] # <<>> PROVE p \in open'
    <3>1. CASE p = s
      BY <2>1, <2>3, <3>1
    <3>2. CASE p # s
      <4>1. p \in open
        BY <2>3, <3>2 DEF Replies, Rests, TimedInv, SocketsMatch
      <4> QED BY <2>2, <3>2, <4>1
    <3> QED BY <3>1, <3>2
  <2>4. \A r \in Sessions : r \in open' <=> sess'[r].pc \in {"create", "recv"}
    BY <1>3, <1>7, <2>1, <2>2, PortsAreDistinct DEF TimedInv, SocketsMatch, SessionDone
  <2>5. /\ ListenPort \in open'
        /\ ClientPort \in open' <=> cl'.pc \notin ClientDone
    BY <1>1, <2>2, PortsAreDistinct DEF TimedInv, SocketsMatch
  <2> QED BY <2>3, <2>4, <2>5 DEF SocketsMatch
<1>10. cl.pc # "ack" => net'[s] = <<>>
  BY DEF Rests, Shrinks, TimedInv, TurnsInv, RestInv
<1>11. TurnsInv'
  <2>1. RestInv'
    <3>1. ASSUME cl.pc \in {"backoff", "pause"}
          PROVE  (\A p \in Ports : net'[p] = <<>>) /\ t.pc \in SessionDone
      <4>1. \A p \in Ports : net[p] = <<>>
        BY <3>1 DEF TimedInv, TurnsInv, RestInv
      <4>2. ~Early /\ t.pc \in SessionDone
        BY <1>7, <3>1 DEF Early, Sleeping, Sleeps
      <4> QED BY <4>1, <4>2 DEF Rests, Shrinks
    <3>2. t.pc # "spawned"
      BY <1>7 DEF SessionDone
    <3>3. \A r \in Sessions : sess'[r].pc # "spawned"
      BY <1>3, <1>4, <3>2 DEF Alive
    <3>4. Sleeping => \A r \in Sessions : sess'[r].pc \notin {"spawned", "create"}
      BY <1>4, <1>5, <3>1 DEF Sleeping, Sleeps, NobodyAlive, Alive
    <3> QED BY <1>1, <1>2, <1>4, <1>10, <3>1, <3>3, <3>4 DEF RestInv
  <2>2. AskedInv'
    <3>1. ASSUME NEW r \in Sessions, net'[r] # <<>>
          PROVE  /\ net'[ClientPort] = <<>> /\ Len(net'[r]) = 1
                 /\ net'[r][1].type = "DATA" /\ net'[r][1].block = cl.block
                 /\ sess'[r].expected = cl.block
      <4>1. r = s /\ Rests(ClientPort) /\ Rests(s) /\ t.expected = sess[s].expected
        BY <1>4, <3>1
      <4> QED BY <1>3, <3>1, <4>1 DEF Rests, TimedInv, TurnsInv, AskedInv
    <3>2. ASSUME NEW r \in Sessions, Alive(r)', cl.pc \in {"read", "await"}
          PROVE  r = s /\ Alive(s) /\ sess'[r].expected = sess[r].expected
      BY <1>3, <1>4, <3>2
    <3>3. \A r \in Sessions : sess'[r].pc # "spawned"
      BY <1>3, <1>4, <1>7 DEF Alive, SessionDone
    <3> QED BY <1>1, <1>4, <3>1, <3>2, <3>3 DEF AskedInv, TimedInv, TurnsInv
  <2>3. ASSUME NEW i \in 1..Len(net[ClientPort]), NEW x, x = net[ClientPort][i]
        PROVE  Answer(x, i)'
    <3>1. net[ClientPort] # <<>>
      BY <2>3
    <3>2. t.expected = sess[s].expected /\ Answer(x, i) /\ ~NobodyAlive
      BY <2>3, <3>1 DEF TimedInv, TurnsInv, NobodyAlive
    <3>3. \A r \in Sessions : Alive(r)' => Alive(r) /\ sess'[r].expected = sess[r].expected
      BY <1>3, <1>4, <3>2
    <3>4. \/ cl.pc = "await" /\ x.type = "OACK" /\ i = 1
          \/ /\ i = 1 /\ cl.pc = "ack" /\ x.type = "ACK" /\ x.block = cl.block
             /\ \A r \in Sessions : Alive(r) => sess[r].expected = NextBlock(cl.block)
      BY <3>2 DEF Answer
    <3> QED BY <1>1, <3>3, <3>4 DEF Answer
  <2>4. ASSUME NEW i \in 1..Len(net'[ClientPort]), NEW x, x = net'[ClientPort][i]
        PROVE  Answer(x, i)'
    <3>1. CASE Rests(ClientPort)
      BY <2>3, <2>4, <3>1 DEF Rests
    <3>2. CASE ~Rests(ClientPort)
      <4>1. PICK m : /\ net'[ClientPort] = Append(net[ClientPort], m)
                     /\ \/ m.type = "ERROR" /\ t.pc \in SessionDone
                        \/ cl.pc = "await" /\ m.type = "OACK" /\ net[ClientPort] = <<>>
                        \/ /\ cl.pc = "ack" /\ m.type = "ACK" /\ net[ClientPort] = <<>>
                           /\ m.block = cl.block
                           /\ Alive(s)' => t.expected = NextBlock(cl.block)
        BY <3>2 DEF Replies
      <4> DEFINE q == net[ClientPort]
      <4>2. q \in Seq(HonestPackets(cfg, srcLen, Asking) \cup {m}) /\ Len(q) \in Nat
        BY <1>1, SeqMonotonic, PortsAreDistinct, LenProperties
      <4> HIDE DEF q
      <4>3. /\ Len(Append(q, m)) = Len(q) + 1 /\ Append(q, m)[Len(q) + 1] = m
            /\ \A j \in 1..Len(q) : Append(q, m)[j] = q[j]
        BY <4>2, AppendProperties
      <4>4. CASE i \in 1..Len(q)
        BY <2>3, <2>4, <4>1, <4>3, <4>4 DEF q
      <4>5. CASE i = Len(q) + 1
        <5>1. x = m /\ (q = <<>> => i = 1)
          BY <2>4, <4>1, <4>3, <4>5 DEF q
        <5>2. \A r \in Sessions : Alive(r)' => r = s /\ sess'[r].expected = t.expected
          BY <1>3, <1>4
        <5> QED BY <1>1, <1>5, <4>1, <5>1, <5>2 DEF Answer, q
      <4> QED BY <2>4, <4>1, <4>2, <4>3, <4>4, <4>5 DEF q
    <3> QED BY <3>1, <3>2
  <2>5. \A r, u \in Sessions : Alive(r)' /\ Alive(u)' => r = u
    BY <1>4
  <2>6. \A i \in 1..Len(net'[ClientPort]) : Answer(net[ClientPort][i], i)'
    BY <2>4
  <2> QED BY <2>1, <2>2, <2>5, <2>6 DEF TurnsInv
<1>12. ClocksInv'
  <2>1. Waited \in Int /\ Latency \in Nat /\ Grace \in Nat
    BY GraceFacts DEF Waited, TimedInv, ClockTypes
  <2>2. ASSUME Waiting
        PROVE  /\ age'[ListenPort] \in Seq(Waited..Latency)
               /\ \A r \in Sessions : age'[r] \in Seq(Waited..Latency)
    <3>1. /\ age[ListenPort] \in Seq(Waited..Latency)
          /\ \A r \in Sessions : age[r] \in Seq(Waited..Latency)
      BY <2>2 DEF TimedInv, ClocksInv, AgesInv
    <3>2. \A p \in Ports : p # ClientPort => Rests(p) \/ Shrinks(p)
      OBVIOUS
    <3>3. \A p \in Ports : p # ClientPort /\ age[p] \in Seq(Waited..Latency)
                           => age'[p] \in Seq(Waited..Latency)
      BY <2>1, <3>2, AgesFollow DEF TimedInv, ServerAlone
    <3> QED BY <3>1, <3>3, PortsAreDistinct
  <2>3. ASSUME Waiting
        PROVE  age'[ClientPort] \in Seq((Waited - Latency)..Latency)
    <3>1. age[ClientPort] \in Seq((Waited - Latency)..Latency) /\ Waited - Latency \in Int
      BY <2>1, <2>3 DEF TimedInv, ClocksInv, AgesInv
    <3>2. CASE Rests(ClientPort)
      BY <3>1, <3>2, AgesFollow, PortsAreDistinct DEF TimedInv, ServerAlone
    <3>3. CASE ~Rests(ClientPort)
      <4>1. Waited - Latency <= 0
        BY <2>1, <2>3, <3>3 DEF Early
      <4>2. Grows(ClientPort)
        BY <3>3 DEF Replies, Grows
      <4> QED BY <3>1, <4>1, <4>2, AgesStart, PortsAreDistinct DEF TimedInv, ServerAlone
    <3> QED BY <3>2, <3>3
  <2>4. ASSUME NEW r \in Sessions, Waiting, sess'[r].pc \in {"spawned", "create"}
        PROVE  Waited <= Latency
    <3>1. r = s /\ t.pc \notin SessionDone
      BY <1>4, <2>4 DEF Alive
    <3> QED BY <1>7, <2>4, <3>1 DEF Early
  <2>5. AgesInv'
    BY <1>1, <2>2, <2>3, <2>4 DEF AgesInv
  <2>6. ASSUME NEW r \in Sessions, sess'[r].pc = "recv"
        PROVE  /\ deadline'[r] = Grace /\ ~Sleeping /\ (Waiting => Waited <= Latency)
               /\ age'[ClientPort] \in Seq(0..Latency)
               /\ Waiting => 0 <= Latency + Waited
    <3>1. r = s /\ t.pc = "recv" /\ t.pc \notin SessionDone
      BY <1>3, <1>4, <2>6 DEF Alive
    <3>2. age'[ClientPort] \in Seq(0..Latency)
      BY <1>8, PortsAreDistinct DEF ClockTypes
    <3>3. Waited >= 0
      BY DEF Waited, TimedInv, ClockTypes
    <3> QED BY <1>7, <2>1, <3>1, <3>2, <3>3 DEF Early
  <2>7. DeadlinesInv'
    <3> SUFFICES ASSUME NEW r \in Sessions, sess'[r].pc = "recv"
                 PROVE  /\ Waiting' => deadline'[r] + Waited' <= Grace' + Latency
                        /\ Waiting' /\ net'[r] # <<>> =>
                               Grace' - deadline'[r] <= Latency + Waited'
                        /\ Waiting' => age'[ClientPort] \in
                                           Seq((Grace' - deadline'[r])..Latency)
                        /\ cl'.pc = "read" => Grace' - deadline'[r] <= Latency
                        /\ Sleeping' => deadline'[r] < left'
      BY DEF DeadlinesInv
    <3>1. Grace - deadline'[r] = 0
      BY <2>1, <2>6
    <3> QED BY <1>1, <2>1, <2>6, <3>1
  <2> QED BY <2>5, <2>7 DEF ClocksInv
<1> QED BY <1>1, <1>8, <1>9, <1>11, <1>12 DEF TimeKept

\* Session s ends.
LEMMA SessionEnds ==
    ASSUME TimedInv, ServerAlone, NEW s \in Sessions, Alive(s), SessionClock(s),
           NEW q, NEW result \in SessionDone, EndSession(q, s, result),
           \/ q = net
           \/ q = Received(net, s) /\ net[s] # <<>>
           \/ q = Sent(net, ClientPort, Error(s)) /\ Early
    PROVE  TimeKept
<1> DEFINE t == [sess[s] EXCEPT !.pc = result]
<1>1. /\ sess \in [Sessions -> SessionStates] /\ open \subseteq Ports
      /\ net \in [Ports -> Seq(HonestPackets(cfg, srcLen, Asking))]
  BY ServerAloneFacts
<1>2. /\ t \in SessionStates /\ t.pc \in SessionDone /\ t.expected = sess[s].expected
      /\ sess' = [sess EXCEPT ![s] = t]
  BY <1>1 DEF SessionStates, EndSession
<1> HIDE DEF t
<1>3. /\ net'[s] = <<>> /\ open' = open \ {s}
      /\ \A p \in Ports : p # s => net'[p] = q[p]
  BY <1>1, PortsAreDistinct DEF EndSession, Closed, Sent, Received
<1>4. \A p \in Ports : p # s /\ p # ClientPort => Rests(p)
  BY <1>1, <1>3 DEF Rests, Sent, Received
<1>5. Replies(t, s) /\ (Rests(ClientPort) \/ Early)
  <2>1. q[ClientPort] = net[ClientPort]
        \/ /\ ClientPort \in open /\ Early
           /\ q[ClientPort] = Append(net[ClientPort], Error(s))
    BY <1>1, PortsAreDistinct DEF Sent, Received
  <2>2. net'[ClientPort] = q[ClientPort]
    BY <1>3, PortsAreDistinct
  <2>3. Error(s).type = "ERROR"
    BY DEF Error
  <2> QED BY <1>2, <2>1, <2>2, <2>3 DEF Replies, Rests
<1> QED BY <1>2, <1>3, <1>4, <1>5, SessionActs DEF Shrinks

\* What an open session does before its first DATA.
LEMMA OpeningKeepsTime ==
    ASSUME TimedInv, ServerAlone, NEW s \in Sessions, SessionClock(s),
           RefuseRequest(s) \/ SendOack(s) \/ CreateFile(s)
    PROVE  TimeKept
<1>1. /\ sess \in [Sessions -> SessionStates] /\ open \subseteq Ports
      /\ net \in [Ports -> Seq(HonestPackets(cfg, srcLen, Asking))]
  BY ServerAloneFacts
<1>2. sess[s].pc \in {"spawned", "create"}
  BY DEF RefuseRequest, SendOack, CreateFile
<1>3. Alive(s) /\ Early
  BY <1>2, EarlyWhenAsked DEF Alive
<1>4. CASE RefuseRequest(s)
  BY <1>3, <1>4, SessionEnds DEF RefuseRequest, SessionDone
<1>5. CASE SendOack(s)
  <2> DEFINE t == [sess[s] EXCEPT !.pc = "create"]
             m == Oack(s, OackOptions(sess[s].neg, NoSize))
  <2>1. /\ t \in SessionStates /\ t.pc = "create" /\ t.expected = sess[s].expected
        /\ sess' = [sess EXCEPT ![s] = t]
    BY <1>1, <1>5 DEF SessionStates, SendOack
  <2>2. m.type = "OACK"
    BY DEF Oack
  <2>3. net' = Sent(net, ClientPort, m) /\ open' = open \cup {s} /\ sess[s].pc = "spawned"
    BY <1>5 DEF SendOack
  <2> HIDE DEF t, m
  <2>4. cl.pc = "await" /\ net[ClientPort] = <<>>
    BY <2>3 DEF TimedInv, TurnsInv, RestInv, AskedInv
  <2>5. ClientPort \in open
    BY <2>4 DEF TimedInv, SocketsMatch, ClientDone, ClientFailed
  <2>6. /\ net'[ClientPort] = Append(net[ClientPort], m)
        /\ \A p \in Ports : p # ClientPort => Rests(p)
    BY <1>1, <2>3, <2>5, PortsAreDistinct DEF Sent, Rests
  <2>7. net'[s] = <<>> /\ Rests(s)
    BY <2>3, <2>6, PortsAreDistinct DEF Rests, TimedInv, SocketsMatch
  <2>8. Replies(t, s)
    BY <2>2, <2>4, <2>5, <2>6 DEF Replies
  <2> QED BY <1>3, <2>1, <2>3, <2>6, <2>7, <2>8, SessionActs
<1>6. CASE CreateFile(s)
  <2>1. CASE EndSession(Sent(net, ClientPort, Error(s)), s, "denied")
    BY <1>3, <2>1, SessionEnds DEF SessionDone
  <2>2. CASE sess' = [sess EXCEPT ![s].pc = "recv"] /\ UNCHANGED <<net, open>>
    <3> DEFINE t == [sess[s] EXCEPT !.pc = "recv"]
    <3>1. /\ t \in SessionStates /\ t.pc = "recv" /\ t.expected = sess[s].expected
          /\ sess' = [sess EXCEPT ![s] = t] /\ sess'[s] = t
      BY <1>1, <2>2 DEF SessionStates
    <3> HIDE DEF t
    <3>2. sess[s].pc = "create"
      BY <1>6 DEF CreateFile
    <3>3. open' = open \cup {s} /\ Rearmed(s)
      BY <2>2, <3>1, <3>2 DEF TimedInv, SocketsMatch, Rearmed
    <3>4. (\A p \in Ports : Rests(p)) /\ Rests(s) /\ Rests(ClientPort) /\ Replies(t, s)
      BY <2>2 DEF Rests, Replies
    <3> QED BY <1>3, <3>1, <3>3, <3>4, SessionActs
  <2> QED BY <1>6, <2>1, <2>2 DEF CreateFile
<1> QED BY <1>4, <1>5, <1>6

\* A block that arrives is the expected one.
LEMMA DataKeepsTime ==
    ASSUME TimedInv, ServerAlone, NEW s \in Sessions, SessionClock(s),
           net[s] # <<>>, TakeData(s, Head(net[s]))
    PROVE  TimeKept
<1> DEFINE m == Head(net[s])
           t == sess'[s]
<1>1. /\ sess \in [Sessions -> SessionStates] /\ open \subseteq Ports
      /\ net \in [Ports -> Seq(HonestPackets(cfg, srcLen, Asking))]
      /\ UNCHANGED <<cfg, srcLen, cl, faults>>
  BY ServerAloneFacts DEF ServerAlone
<1>2. sess' \in [Sessions -> SessionStates]
  BY <1>1, TakeDataKeeps DEF ServerKeeps, ServerInv, TimedInv
<1>3. sess[s].pc = "recv" /\ Alive(s) /\ Early
  BY EarlyWhenAsked DEF TakeData, Alive
<1>4. /\ net[ClientPort] = <<>> /\ Len(net[s]) = 1 /\ m.block = cl.block
      /\ sess[s].expected = cl.block /\ cl.pc = "ack" /\ ClientPort \in open
  <2>1. /\ net[ClientPort] = <<>> /\ Len(net[s]) = 1 /\ net[s][1].block = cl.block
        /\ sess[s].expected = cl.block /\ cl.pc = "ack"
    BY DEF TimedInv, TurnsInv, AskedInv, RestInv
  <2>2. m = net[s][1]
    BY <1>1, PortsAreDistinct, HeadTailProperties
  <2> QED BY <2>1, <2>2 DEF TimedInv, SocketsMatch, ClientDone, ClientFailed
<1>5. net[s] \in Seq(HonestPackets(cfg, srcLen, Asking)) /\ Tail(net[s]) = <<>>
  <2>1. net[s] \in Seq(HonestPackets(cfg, srcLen, Asking))
    BY <1>1, PortsAreDistinct
  <2>2. Tail(net[s]) \in Seq(HonestPackets(cfg, srcLen, Asking)) /\ Len(Tail(net[s])) = 0
    BY <1>4, <2>1, HeadTailProperties
  <2> QED BY <2>1, <2>2, EmptySeq
<1> HIDE DEF m
<1>6. IsExpected(s, m)
  BY <1>4 DEF IsExpected
<1>7. TakeBlock(s, m)
  BY <1>6 DEF TakeData, RepeatAck, m
<1>8. CASE EndSession(Received(net, s), s, "failed")
  BY <1>3, <1>8, SessionEnds DEF SessionDone
<1>9. ASSUME NEW write,
             sess' = [sess EXCEPT
                        ![s].pending = write,
                        ![s].pc = IF IsLast(s, m) THEN "ok" ELSE @,
                        ![s].expected = IF IsLast(s, m) THEN @ ELSE NextBlock(@)],
             LET r == Sent(Received(net, s), ClientPort, Ack(s, m.block))
             IN  net' = IF IsLast(s, m) THEN Closed(r, s) ELSE r,
             open' = IF IsLast(s, m) THEN open \ {s} ELSE open
      PROVE  TimeKept
  <2> DEFINE a == Ack(s, m.block)
  <2>1. a.type = "ACK" /\ a.block = cl.block
    BY <1>4 DEF Ack
  <2> HIDE DEF a
  <2>2. /\ net'[ClientPort] = Append(net[ClientPort], a)
        /\ net'[s] = <<>>
        /\ \A p \in Ports : p # s /\ p # ClientPort => Rests(p)
    BY <1>1, <1>4, <1>5, <1>9, PortsAreDistinct DEF Sent, Received, Closed, Rests, a
  <2>3. /\ t \in SessionStates /\ sess' = [sess EXCEPT ![s] = t]
        /\ t.pc = IF IsLast(s, m) THEN "ok" ELSE "recv"
        /\ t.expected = IF IsLast(s, m) THEN cl.block ELSE NextBlock(cl.block)
    BY <1>1, <1>2, <1>3, <1>4, <1>9 DEF SessionStates
  <2>4. Alive(s)' => t.expected = NextBlock(cl.block)
    BY <2>3 DEF Alive
  <2>5. Replies(t, s)
    BY <1>4, <2>1, <2>2, <2>4 DEF Replies
  <2>6. \/ /\ t.pc \in SessionDone /\ open' = open \ {s}
        \/ /\ t.pc = "recv" /\ open' = open \cup {s} /\ Rearmed(s)
    <3>1. CASE IsLast(s, m)
      BY <1>9, <2>3, <3>1 DEF SessionDone
    <3>2. CASE ~IsLast(s, m)
      <4>1. s \in open
        BY <1>3 DEF TimedInv, SocketsMatch
      <4>2. Len(net'[s]) < Len(net[s])
        BY <1>4, <2>2
      <4> QED BY <1>9, <2>3, <3>2, <4>1, <4>2 DEF Rearmed
    <3> QED BY <3>1, <3>2
  <2> HIDE DEF t
  <2> QED BY <1>3, <1>4, <2>2, <2>3, <2>5, <2>6, SessionActs DEF Shrinks
<1> QED BY <1>7, <1>8, <1>9 DEF TakeBlock

\* A session starts when nobody else is at work.
LEMMA SpawnKeepsTime ==
    ASSUME TimedInv, ServerAlone, NEW s \in Sessions, Spawn(s), UNCHANGED deadline
    PROVE  TimeKept
<1>1. /\ Settled' = Settled /\ Grace' = Grace /\ UNCHANGED <<cfg, srcLen, cl>>
      /\ Waiting' = Waiting /\ Sleeping' = Sleeping /\ Waited' = Waited
      /\ GrantsInv' /\ BudgetInv'
      /\ sess \in [Sessions -> SessionStates] /\ open \subseteq Ports
      /\ net \in [Ports -> Seq(HonestPackets(cfg, srcLen, Asking))]
  BY ServerAloneFacts
<1>2. /\ net[ListenPort] # <<>> /\ sess[s].pc = "free" /\ UNCHANGED open
      /\ NobodyAlive /\ net[ClientPort] = <<>> /\ Len(net[ListenPort]) = 1
      /\ cl.pc = "await" /\ \A r \in Sessions : net[r] = <<>>
  BY DEF Spawn, TimedInv, TurnsInv, AskedInv, RestInv
<1>3. /\ sess'[s].pc = "spawned" /\ sess'[s].expected = 1
      /\ \A r \in Sessions : r # s => sess'[r] = sess[r] /\ ~Alive(r)'
  <2>1. sess[s].expected = 1
    BY <1>2 DEF TimedInv, PutInv, ServerInv, InStep
  <2> QED BY <1>1, <1>2, <2>1 DEF Spawn, SessionStates, NobodyAlive, Alive
<1>4. /\ net'[ListenPort] = Tail(net[ListenPort])
      /\ \A p \in Ports : p # ListenPort => net'[p] = net[p]
  BY <1>1, PortsAreDistinct DEF Spawn, Received
<1>5. \A p \in Ports : net'[p] = <<>>
  <2>1. net[ListenPort] \in Seq(HonestPackets(cfg, srcLen, Asking))
    BY <1>1, PortsAreDistinct
  <2>2. /\ Tail(net[ListenPort]) \in Seq(HonestPackets(cfg, srcLen, Asking))
        /\ Len(Tail(net[ListenPort])) = 0
    BY <1>2, <2>1, HeadTailProperties
  <2>3. Tail(net[ListenPort]) = <<>>
    BY <2>2, EmptySeq
  <2> QED BY <1>2, <1>4, <2>3, PortKinds
<1>6. Waiting /\ ~Sleeping
  BY <1>2 DEF Waiting, Sleeping, ClientWaits, Sleeps
<1>7. Waited \in Int /\ Waited <= Latency
  <2>1. Waited \in Int /\ age[ListenPort] \in Seq(Waited..Latency)
    BY <1>6 DEF Waited, TimedInv, ClockTypes, ClocksInv, AgesInv
  <2> QED BY <1>2, <2>1, OldestIsYoung, PortsAreDistinct DEF TimedInv
<1>8. ClockTypes'
  <2>1. /\ age' \in [Ports -> Seq(0..Latency)]
        /\ \A p \in Ports : Len(age'[p]) = Len(net'[p])
    BY <1>5, QueuesAge DEF TimedInv, ServerAlone, Shrinks
  <2> QED BY <1>1, <2>1 DEF ClockTypes, TimedInv, ServerAlone, clientClocks
<1>9. SocketsMatch'
  BY <1>1, <1>2, <1>3, <1>5 DEF SocketsMatch, TimedInv
<1>10. TurnsInv'
  <2>1. net'[ListenPort] = <<>> /\ net'[ClientPort] = <<>> /\ \A r \in Sessions : net'[r] = <<>>
    BY <1>5, PortsAreDistinct
  <2>2. RestInv'
    BY <1>1, <1>2, <1>6, <2>1 DEF RestInv
  <2>3. AskedInv'
    BY <1>1, <1>2, <1>3, <2>1 DEF AskedInv
  <2>4. 1..Len(net'[ClientPort]) = {}
    BY <2>1
  <2> QED BY <1>3, <2>2, <2>3, <2>4 DEF TurnsInv
<1>11. ClocksInv'
  <2>1. \A p \in Ports : age'[p] = <<>>
    <3> TAKE p \in Ports
    <3>1. age'[p] \in Seq(0..Latency) /\ Len(age'[p]) = 0
      BY <1>5, <1>8 DEF ClockTypes
    <3> QED BY <3>1
  <2>2. AgesInv'
    <3>1. \A S, p : p \in Ports => age'[p] \in Seq(S)
      BY <2>1, EmptySeq
    <3>2. /\ age'[ListenPort] \in Seq(Waited..Latency)
          /\ age'[ClientPort] \in Seq((Waited - Latency)..Latency)
          /\ \A r \in Sessions : age'[r] \in Seq(Waited..Latency)
      BY <3>1, PortsAreDistinct
    <3> QED BY <1>1, <1>7, <3>2 DEF AgesInv
  <2>3. \A r \in Sessions : sess'[r].pc # "recv"
    BY <1>3 DEF Alive
  <2> QED BY <2>2, <2>3 DEF ClocksInv, DeadlinesInv
<1> QED BY <1>1, <1>8, <1>9, <1>10, <1>11 DEF TimeKept

\* A write that another thread does is nothing to the clocks.
LEMMA LandKeepsTime ==
    ASSUME TimedInv, NEW s \in Sessions, TimedWriter(s)
    PROVE  TimeKept
<1>1. /\ UNCHANGED <<cfg, srcLen, cl, faults, net, open, delay, left, elapsed, deadline,
                     age, lost>>
      /\ sess \in [Sessions -> SessionStates]
  BY DEF TimedWriter, Writer, Land, putVars, clocks, clientClocks, TimedInv, PutInv,
         ServerInv
<1>2. \A r \in Sessions : sess'[r].pc = sess[r].pc /\ sess'[r].expected = sess[r].expected
  BY <1>1 DEF TimedWriter, Writer, Land, SessionStates
<1>3. /\ Settled' = Settled /\ Grace' = Grace /\ Waiting' = Waiting
      /\ Sleeping' = Sleeping /\ Waited' = Waited
      /\ Asking' = Asking /\ Working' = Working /\ Initial' = Initial
  BY <1>1 DEF Settled, SettledFor, Grace, Waiting, Sleeping, Waited, Asking, Working,
              Initial
<1>4. /\ \A r \in Sessions : Alive(r)' <=> Alive(r)
      /\ NobodyAlive' <=> NobodyAlive
  BY <1>2 DEF Alive, NobodyAlive
<1>5. ClockTypes' /\ SocketsMatch'
  BY <1>1, <1>2, <1>3 DEF TimedInv, ClockTypes, SocketsMatch
<1>6. TurnsInv'
  <2>1. RestInv' /\ AskedInv'
    BY <1>1, <1>2, <1>3, <1>4 DEF TimedInv, TurnsInv, RestInv, AskedInv
  <2>2. \A i \in 1..Len(net'[ClientPort]) : Answer(net[ClientPort][i], i)'
    BY <1>1, <1>2, <1>4 DEF TimedInv, TurnsInv, Answer
  <2> QED BY <1>4, <2>1, <2>2 DEF TurnsInv, TimedInv
<1>7. GrantsInv' /\ BudgetInv'
  BY <1>1, <1>3 DEF TimedInv, GrantsInv, BudgetInv
<1>8. ClocksInv'
  BY <1>1, <1>2, <1>3 DEF TimedInv, ClocksInv, AgesInv, DeadlinesInv
<1> QED BY <1>5, <1>6, <1>7, <1>8 DEF TimeKept

LEMMA ServerKeepsTime ==
    ASSUME TimedInv,
           \/ TimedListener
           \/ \E s \in Sessions : TimedSession(s) \/ TimedSessionTimer(s) \/ TimedWriter(s)
    PROVE  TimeKept
<1>1. CASE TimedListener
  <2>1. PICK s \in Sessions : Spawn(s) /\ UNCHANGED <<putVars, faults>>
    BY <1>1 DEF TimedListener, Listener
  <2>2. ServerAlone /\ UNCHANGED deadline
    BY <1>1, <2>1 DEF TimedListener, ServerAlone
  <2> QED BY <2>1, <2>2, SpawnKeepsTime
<1>2. ASSUME NEW s \in Sessions, TimedSession(s) \/ TimedSessionTimer(s)
      PROVE  TimeKept
  <2>1. ServerAlone /\ SessionClock(s)
    BY <1>2 DEF TimedSession, TimedSessionTimer, Session, Refused, ServerAlone
  <2>2. CASE SessionTimeout(s) \/ PeerGone(s)
    <3>1. Alive(s) /\ EndSession(net, s, "failed")
      BY <2>2 DEF SessionTimeout, PeerGone, Alive
    <3> QED BY <2>1, <3>1, SessionEnds DEF SessionDone
  <2>3. CASE SessionStep(s)
    BY <2>1, <2>3, OpeningKeepsTime, DataKeepsTime DEF SessionStep
  <2> QED BY <1>2, <2>2, <2>3 DEF TimedSession, TimedSessionTimer, Session, Refused
<1> QED BY <1>1, <1>2, LandKeepsTime

-----------------------------------------------------------------------------
(* Losses, and time *)

\* What is left when a datagram is lost.
LEMMA LossShortens ==
    ASSUME NEW S, NEW q \in Seq(S), NEW i \in 1..Len(q)
    PROVE  /\ RemoveAt(q, i) \in Seq(S) /\ Len(RemoveAt(q, i)) = Len(q) - 1
           /\ \A j \in 1..(Len(q) - 1) :
                  \/ RemoveAt(q, i)[j] = q[j] /\ j \in 1..Len(q)
                  \/ RemoveAt(q, i)[j] = q[j + 1] /\ j + 1 \in 1..Len(q)
<1> DEFINE s == RemoveAt(q, i)
<1>1. /\ s \in Seq(S) /\ Len(s) = Len(q) - 1 /\ Len(q) \in Nat
      /\ \A j \in 1..Len(s) : s[j] = q[IF j < i THEN j ELSE j + 1]
  BY RemoveAtIndices
<1> HIDE DEF s
<1>2. ASSUME NEW j \in 1..(Len(q) - 1)
      PROVE  \/ s[j] = q[j] /\ j \in 1..Len(q)
             \/ s[j] = q[j + 1] /\ j + 1 \in 1..Len(q)
  <2>1. j \in 1..Len(s) /\ s[j] = q[IF j < i THEN j ELSE j + 1]
    BY <1>1, <1>2
  <2> QED BY <1>1, <1>2, <2>1
<1> QED BY <1>1, <1>2 DEF s

LEMMA LossKeepsTime ==
    ASSUME TimedInv, TimedNetwork
    PROVE  TimeKept
<1>00. PICK p \in Ports : \E i \in 1..Len(net[p]) :
          /\ Lose(p, i)
          /\ lost' = [lost EXCEPT ![net[p][i].type] = @ + 1]
          /\ age' = [age EXCEPT ![p] = RemoveAt(@, i)]
  BY DEF TimedNetwork
<1>0. PICK i \in 1..Len(net[p]) :
          /\ Lose(p, i)
          /\ lost' = [lost EXCEPT ![net[p][i].type] = @ + 1]
          /\ age' = [age EXCEPT ![p] = RemoveAt(@, i)]
  BY <1>00
<1>1. /\ UNCHANGED <<cfg, srcLen, cl, sess, open, delay, left, elapsed, deadline>>
      /\ net \in [Ports -> Seq(HonestPackets(cfg, srcLen, Asking))]
      /\ net' = [net EXCEPT ![p] = RemoveAt(@, i)]
      /\ faults \in Nat /\ faults' = faults + 1
  <2>1. UNCHANGED <<cfg, srcLen, cl, sess, delay, left, elapsed, deadline>>
    BY DEF TimedNetwork, putVars, serverVars, clientClocks
  <2>2. /\ net' = [net EXCEPT ![p] = RemoveAt(@, i)]
        /\ UNCHANGED open /\ faults' = faults + 1
    BY <1>0 DEF Lose, Fault
  <2>3. faults \in Nat /\ net \in [Ports -> Seq(HonestPackets(cfg, srcLen, Asking))]
    BY NetworkAssumption DEF TimedInv, PutInv, QueuesInv, SocketsInv
  <2> QED BY <2>1, <2>2, <2>3
<1>2. /\ Settled' = Settled /\ Grace' = Grace /\ Waiting' = Waiting
      /\ Sleeping' = Sleeping /\ Waited' = Waited
      /\ Asking' = Asking /\ Working' = Working /\ Initial' = Initial
      /\ \A s \in Sessions : Alive(s)' <=> Alive(s)
      /\ NobodyAlive' <=> NobodyAlive
  BY <1>1 DEF Settled, SettledFor, Grace, Waiting, Sleeping, Waited, Asking, Working,
              Initial, Alive, NobodyAlive
<1> DEFINE q == net[p]
           a == age[p]
<1>3. /\ q \in Seq(HonestPackets(cfg, srcLen, Asking)) /\ i \in 1..Len(q)
      /\ net'[p] = RemoveAt(q, i) /\ \A r \in Ports : r # p => net'[r] = net[r]
      /\ age'[p] = RemoveAt(a, i) /\ \A r \in Ports : r # p => age'[r] = age[r]
      /\ a \in Seq(0..Latency) /\ Len(a) = Len(q)
  BY <1>0, <1>1 DEF TimedInv, ClockTypes
<1> HIDE DEF q, a
<1>4. /\ RemoveAt(q, i) \in Seq(HonestPackets(cfg, srcLen, Asking))
      /\ Len(RemoveAt(q, i)) = Len(q) - 1
      /\ \A j \in 1..(Len(q) - 1) :
             \/ RemoveAt(q, i)[j] = q[j] /\ j \in 1..Len(q)
             \/ RemoveAt(q, i)[j] = q[j + 1] /\ j + 1 \in 1..Len(q)
  BY <1>3, LossShortens
<1>5. \A S : a \in Seq(S) => RemoveAt(a, i) \in Seq(S)
  BY <1>3, LossShortens
<1>6. RemoveAt(a, i) \in Seq(0..Latency) /\ Len(RemoveAt(a, i)) = Len(q) - 1
  BY <1>3, LossShortens
<1>7. /\ \A r \in Ports : net'[r] # <<>> => net[r] # <<>>
      /\ \A S, r : r \in Ports /\ age[r] \in Seq(S) => age'[r] \in Seq(S)
  <2>1. net[p] # <<>>
    BY <1>3, EmptySeq DEF q
  <2> QED BY <1>3, <1>5, <2>1 DEF a
<1>8. ClockTypes'
  <2>1. age' \in [Ports -> Seq(0..Latency)] /\ \A r \in Ports : Len(age'[r]) = Len(net'[r])
    BY <1>0, <1>3, <1>4, <1>6 DEF TimedInv, ClockTypes, a, q
  <2>2. lost' \in [PacketTypes -> 0..faults']
    <3>1. q[i].type \in PacketTypes
      <4>1. q[i] \in HonestPackets(cfg, srcLen, Asking)
        BY <1>3, ElementOfSeq
      <4> QED BY <4>1, PacketFields DEF PacketTypes
    <3> QED BY <1>0, <1>1, <3>1 DEF TimedInv, ClockTypes, q
  <2> QED BY <1>1, <1>2, <2>1, <2>2 DEF ClockTypes, TimedInv
<1>9. SocketsMatch'
  BY <1>1, <1>7 DEF TimedInv, SocketsMatch
<1>10. TurnsInv'
  <2>1. ASSUME p # ClientPort PROVE net'[p] = <<>>
    <3>1. Len(q) = 1
      <4>1. p = ListenPort \/ p \in Sessions
        BY <2>1, PortKinds
      <4>2. q # <<>>
        BY <1>3
      <4> QED BY <4>1, <4>2 DEF TimedInv, TurnsInv, AskedInv, q
    <3> QED BY <1>3, <1>4, <3>1, EmptySeq
  <2>2. \A r \in Ports : r # ClientPort => net'[r] = net[r] \/ net'[r] = <<>>
    BY <1>3, <2>1
  <2>3. net[ClientPort] = <<>> => net'[ClientPort] = <<>>
    BY <1>7, PortsAreDistinct
  <2>4. RestInv'
    BY <1>1, <1>2, <1>7, PortsAreDistinct DEF TimedInv, TurnsInv, RestInv
  <2>5. AskedInv'
    BY <1>1, <1>2, <2>2, <2>3, PortsAreDistinct DEF TimedInv, TurnsInv, AskedInv
  <2>6. ASSUME NEW j \in 1..Len(net'[ClientPort]), NEW x, x = net'[ClientPort][j]
        PROVE  Answer(x, j)
    <3>1. CASE p = ClientPort
      <4>1. j \in 1..(Len(q) - 1) /\ j \in Nat /\ j >= 1
        BY <1>3, <1>4, <2>6, <3>1
      <4>2. \A k \in 1..Len(q) : Answer(q[k], k)
        BY <3>1 DEF TimedInv, TurnsInv, q
      <4>3. CASE x = q[j] /\ j \in 1..Len(q)
        BY <4>2, <4>3
      <4>4. CASE x = q[j + 1] /\ j + 1 \in 1..Len(q)
        <5>1. Answer(x, j + 1) /\ j + 1 # 1
          BY <4>1, <4>2, <4>4
        <5> QED BY <5>1 DEF Answer
      <4> QED BY <1>3, <1>4, <2>6, <3>1, <4>1, <4>3, <4>4
    <3>2. CASE p # ClientPort
      BY <1>3, <2>6, <3>2, PortsAreDistinct DEF TimedInv, TurnsInv
    <3> QED BY <3>1, <3>2
  <2>7. \A j \in 1..Len(net'[ClientPort]) : Answer(net[ClientPort][j], j)'
    BY <1>1, <1>2, <2>6 DEF Answer
  <2> QED BY <1>2, <2>4, <2>5, <2>7 DEF TurnsInv, TimedInv
<1>11. GrantsInv' /\ BudgetInv'
  BY <1>1, <1>2 DEF TimedInv, GrantsInv, BudgetInv
<1>12. ClocksInv'
  <2>1. AgesInv'
    <3>1. \A S : /\ age[ListenPort] \in Seq(S) => age'[ListenPort] \in Seq(S)
                 /\ age[ClientPort] \in Seq(S) => age'[ClientPort] \in Seq(S)
                 /\ \A s \in Sessions : age[s] \in Seq(S) => age'[s] \in Seq(S)
      BY <1>7, PortsAreDistinct
    <3> QED BY <1>1, <1>2, <3>1 DEF TimedInv, ClocksInv, AgesInv
  <2>2. DeadlinesInv'
    <3>1. \A S : age[ClientPort] \in Seq(S) => age'[ClientPort] \in Seq(S)
      BY <1>7, PortsAreDistinct
    <3>2. \A s \in Sessions : net'[s] # <<>> => net[s] # <<>>
      BY <1>7, PortsAreDistinct
    <3> QED BY <1>1, <1>2, <3>1, <3>2 DEF TimedInv, ClocksInv, DeadlinesInv
  <2> QED BY <2>1, <2>2 DEF ClocksInv
<1> QED BY <1>8, <1>9, <1>10, <1>11, <1>12 DEF TimeKept

\* A tick later everything under way is one tick older.
LEMMA TickAges ==
    ASSUME NEW a \in Seq(0..Latency), Latency \notin Range(a)
    PROVE  LET b == [i \in DOMAIN a |-> a[i] + 1]
           IN  /\ b \in Seq(0..Latency) /\ Len(b) = Len(a)
               /\ \A x \in Int : a \in Seq(x..Latency) => b \in Seq((x + 1)..Latency)
<1> DEFINE b == [i \in DOMAIN a |-> a[i] + 1]
<1>1. Latency \in Nat /\ Len(a) \in Nat /\ DOMAIN a = 1..Len(a)
  BY TimedPutAssumption, LenProperties
<1>2. b = [i \in 1..Len(a) |-> a[i] + 1]
  BY <1>1
<1>3. \A i \in 1..Len(a) : a[i] \in 0..Latency /\ a[i] # Latency
  BY <1>1, ElementOfSeq DEF Range
<1>4. b \in Seq(0..Latency) /\ Len(b) = Len(a)
  <2>1. \A i \in 1..Len(a) : a[i] + 1 \in 0..Latency
    BY <1>1, <1>3
  <2> QED BY <1>1, <1>2, <2>1, IsASeq
<1>5. ASSUME NEW x \in Int, a \in Seq(x..Latency)
      PROVE  b \in Seq((x + 1)..Latency)
  <2>1. \A i \in 1..Len(a) : a[i] \in x..Latency
    BY <1>1, <1>5, ElementOfSeq
  <2>2. \A i \in 1..Len(a) : a[i] + 1 \in (x + 1)..Latency
    BY <1>1, <1>3, <2>1
  <2> QED BY <1>1, <1>2, <2>2, IsASeq
<1> QED BY <1>4, <1>5

\* When time passes, everything under way has a receiver that listens.
LEMMA SomeoneListens ==
    ASSUME TimedInv, ~Urgent, NEW p \in Ports, net[p] # <<>>
    PROVE  Listens(p)
<1>1. p \in open /\ cl \in ClientStates /\ sess \in [Sessions -> SessionStates]
  BY DEF TimedInv, SocketsMatch, PutInv, ClientInv, ServerInv
<1>2. CASE p = ClientPort
  <2>1. cl.pc \notin ClientDone \cup {"start", "backoff", "pause", "read"}
    BY <1>1, <1>2 DEF Urgent, TimedInv, SocketsMatch, TurnsInv, RestInv
  <2> QED BY <1>1, <1>2, <2>1 DEF ClientStates, Listens
<1>3. CASE p = ListenPort
  BY <1>3, PortsAreDistinct DEF Listens
<1>4. CASE p \in Sessions
  <2>1. sess[p].pc \in {"create", "recv"} /\ sess[p].pc # "create"
    BY <1>1, <1>4 DEF Urgent, TimedInv, SocketsMatch
  <2> QED BY <1>4, <2>1, PortsAreDistinct DEF Listens
<1> QED BY <1>2, <1>3, <1>4, PortKinds

\* Time passes only when nobody could go on, so nothing comes too late by it.
LEMMA TickKeepsTime ==
    ASSUME TimedInv, Tick
    PROVE  TimeKept
<1>1. /\ UNCHANGED <<cfg, srcLen, cl, sess, net, open, faults, delay, lost>>
      /\ left' = Less(left)
      /\ elapsed' = IF cl.pc \in ClientDone THEN 0 ELSE elapsed + 1
      /\ deadline' = [s \in Sessions |-> Less(deadline[s])]
      /\ age' = [p \in Ports |-> [i \in DOMAIN age[p] |-> age[p][i] + 1]]
  BY DEF Tick, vars
<1>2. /\ cl.pc \notin {"start", "read"} /\ cl \in ClientStates
      /\ cl.pc \notin ClientDone => left # 0
      /\ \A s \in Sessions : /\ sess[s].pc \notin {"spawned", "create"}
                             /\ sess[s].pc = "recv" => deadline[s] # 0
      /\ \A p \in Ports : Listens(p) => Latency \notin Range(age[p])
  BY DEF Tick, Urgent, TimedInv, PutInv, ClientInv
<1>3. /\ Settled' = Settled /\ Grace' = Grace /\ Waiting' = Waiting
      /\ Sleeping' = Sleeping
      /\ Asking' = Asking /\ Working' = Working /\ Initial' = Initial
      /\ \A s \in Sessions : Alive(s)' <=> Alive(s)
      /\ NobodyAlive' <=> NobodyAlive
  BY <1>1 DEF Settled, SettledFor, Grace, Waiting, Sleeping, Asking, Working, Initial,
              Alive, NobodyAlive
<1>4. /\ delay \in Nat /\ left \in 0..delay /\ elapsed \in Nat /\ Grace \in Nat
      /\ deadline \in [Sessions -> 0..Grace] /\ Latency \in Nat
      /\ age \in [Ports -> Seq(0..Latency)]
      /\ \A p \in Ports : Len(age[p]) = Len(net[p])
  BY GraceFacts DEF TimedInv, ClockTypes
<1>5. /\ left' \in 0..delay
      /\ left # 0 => left' = left - 1
      /\ left = 0 => left' = 0
      /\ elapsed' \in Nat
  BY <1>1, <1>4 DEF Less
<1>6. \A s \in Sessions : /\ deadline'[s] \in 0..Grace
                          /\ deadline[s] # 0 => deadline'[s] = deadline[s] - 1
  BY <1>1, <1>4 DEF Less
<1>7. \A p \in Ports :
          /\ age'[p] \in Seq(0..Latency) /\ Len(age'[p]) = Len(age[p])
          /\ \A x \in Int : age[p] \in Seq(x..Latency) => age'[p] \in Seq((x + 1)..Latency)
  <2> SUFFICES ASSUME NEW p \in Ports
               PROVE  /\ age'[p] \in Seq(0..Latency) /\ Len(age'[p]) = Len(age[p])
                      /\ \A x \in Int : age[p] \in Seq(x..Latency) =>
                                            age'[p] \in Seq((x + 1)..Latency)
    OBVIOUS
  <2>1. Latency \notin Range(age[p])
    <3>1. CASE net[p] = <<>>
      BY <1>4, <3>1, LenProperties DEF Range
    <3>2. CASE net[p] # <<>>
      BY <1>2, <3>2, SomeoneListens DEF Tick
    <3> QED BY <3>1, <3>2
  <2> QED BY <1>1, <1>4, <2>1, TickAges
<1>8. Waiting \/ Sleeping => left # 0 /\ Waited' = Waited + 1 /\ Waited \in Int
  <2>1. Waiting \/ Sleeping => left # 0
    BY <1>2 DEF Waiting, Sleeping, ClientWaits, Sleeps, ClientDone, ClientFailed
  <2> QED BY <1>1, <1>4, <1>5, <2>1 DEF Waited
<1>9. ClockTypes'
  <2>1. /\ age' \in [Ports -> Seq(0..Latency)]
        /\ \A p \in Ports : Len(age'[p]) = Len(net'[p])
    BY <1>1, <1>4, <1>7
  <2>2. deadline' \in [Sessions -> 0..Grace]
    BY <1>1, <1>6
  <2> QED BY <1>1, <1>3, <1>4, <1>5, <2>1, <2>2 DEF ClockTypes, TimedInv
<1>10. SocketsMatch' /\ GrantsInv'
  BY <1>1, <1>3 DEF TimedInv, SocketsMatch, GrantsInv
<1>11. TurnsInv'
  <2>1. RestInv' /\ AskedInv'
    BY <1>1, <1>3 DEF TimedInv, TurnsInv, RestInv, AskedInv
  <2>2. \A i \in 1..Len(net'[ClientPort]) : Answer(net[ClientPort][i], i)'
    BY <1>1, <1>3 DEF TimedInv, TurnsInv, Answer
  <2> QED BY <1>3, <2>1, <2>2 DEF TurnsInv, TimedInv
<1>12. ASSUME Waiting, NEW y, y = Waited + 1
       PROVE  /\ age'[ListenPort] \in Seq(y..Latency)
              /\ age'[ClientPort] \in Seq((y - Latency)..Latency)
              /\ \A s \in Sessions : age'[s] \in Seq(y..Latency)
  <2>1. /\ age[ListenPort] \in Seq(Waited..Latency)
        /\ age[ClientPort] \in Seq((Waited - Latency)..Latency)
        /\ \A s \in Sessions : age[s] \in Seq(Waited..Latency)
    BY <1>12 DEF TimedInv, ClocksInv, AgesInv
  <2>2. Waited - Latency \in Int /\ (Waited - Latency) + 1 = y - Latency
    BY <1>4, <1>8, <1>12
  <2> QED BY <1>7, <1>8, <1>12, <2>1, <2>2, PortsAreDistinct
<1>13. AgesInv'
  <2>1. \A s \in Sessions : sess'[s].pc \notin {"spawned", "create"}
    BY <1>1, <1>2
  <2>2. CASE Waiting
    <3>1. Waited' = Waited + 1 /\ Waiting'
      BY <1>3, <1>8, <2>2
    <3>2. /\ age'[ListenPort] \in Seq(Waited'..Latency)
          /\ age'[ClientPort] \in Seq((Waited' - Latency)..Latency)
          /\ \A s \in Sessions : age'[s] \in Seq(Waited'..Latency)
      BY <1>12, <2>2, <3>1
    <3> QED BY <2>1, <3>1, <3>2 DEF AgesInv
  <2>3. CASE ~Waiting
    BY <1>3, <2>3 DEF AgesInv
  <2> QED BY <2>2, <2>3
<1>14. DeadlinesInv'
  <2> SUFFICES ASSUME NEW s \in Sessions, sess[s].pc = "recv"
               PROVE  /\ Waiting => deadline'[s] + (Waited + 1) <= Grace + Latency
                      /\ Waiting /\ net[s] # <<>> =>
                             Grace - deadline'[s] <= Latency + (Waited + 1)
                      /\ Waiting => age'[ClientPort] \in Seq((Grace - deadline'[s])..Latency)
                      /\ Sleeping => deadline'[s] < left'
    BY <1>1, <1>2, <1>3, <1>8 DEF DeadlinesInv
  <2>1. /\ deadline'[s] = deadline[s] - 1 /\ deadline[s] \in 0..Grace
        /\ Grace - deadline'[s] = (Grace - deadline[s]) + 1
    BY <1>2, <1>4, <1>6
  <2>2. ASSUME Waiting
        PROVE  age'[ClientPort] \in Seq(((Grace - deadline[s]) + 1)..Latency)
    <3>1. age[ClientPort] \in Seq((Grace - deadline[s])..Latency)
      BY <2>2 DEF TimedInv, ClocksInv, DeadlinesInv
    <3>2. Grace - deadline[s] \in Int
      BY <1>4, <2>1
    <3> QED BY <1>7, <3>1, <3>2, PortsAreDistinct
  <2>3. /\ Waiting => deadline[s] + Waited <= Grace + Latency
        /\ Waiting /\ net[s] # <<>> => Grace - deadline[s] <= Latency + Waited
        /\ Sleeping => deadline[s] < left
    BY DEF TimedInv, ClocksInv, DeadlinesInv
  <2>4. CASE Waiting
    <3>1. ~Sleeping /\ Waited \in Int
      BY <1>8, <2>4 DEF Waiting, Sleeping, ClientWaits, Sleeps
    <3>2. deadline'[s] + (Waited + 1) <= Grace + Latency
      BY <1>4, <2>1, <2>3, <2>4, <3>1
    <3>3. net[s] # <<>> => Grace - deadline'[s] <= Latency + (Waited + 1)
      BY <1>4, <2>1, <2>3, <2>4, <3>1
    <3>4. age'[ClientPort] \in Seq((Grace - deadline'[s])..Latency)
      BY <2>1, <2>2, <2>4
    <3> QED BY <2>4, <3>1, <3>2, <3>3, <3>4
  <2>5. CASE Sleeping
    <3>1. deadline'[s] < left'
      BY <1>4, <1>5, <1>8, <2>1, <2>3, <2>5
    <3>2. ~Waiting
      BY <2>5 DEF Waiting, Sleeping, ClientWaits, Sleeps
    <3> QED BY <2>5, <3>1, <3>2
  <2> QED BY <2>4, <2>5
<1>15. BudgetInv'
  <2>1. CASE Waiting
    <3> DEFINE u == 2 * FactorSum(cl.attempt) * Initial
    <3>1. /\ cl.attempt < cfg.retries /\ delay = Factor(cl.attempt + 1) * Initial
          /\ elapsed <= u + Waited
      BY <2>1 DEF TimedInv, BudgetInv
    <3>2. u \in Nat
      <4>1. /\ Initial \in Nat /\ FactorSum(cl.attempt) \in Nat
        BY <2>1, DelayFacts, FactorFacts
      <4> QED BY <4>1
    <3>3. elapsed' = elapsed + 1 /\ ~Sleeping /\ cl.pc # "read"
      BY <1>1, <2>1 DEF Waiting, ClientWaits, ClientDone, ClientFailed, Sleeping, Sleeps
    <3> HIDE DEF u
    <3>4. elapsed' <= u + Waited'
      BY <1>4, <1>8, <2>1, <3>1, <3>2, <3>3
    <3> QED BY <1>1, <1>2, <1>3, <2>1, <3>1, <3>3, <3>4 DEF BudgetInv, u
  <2>2. CASE Sleeping
    <3> DEFINE u == 2 * FactorSum(cl.attempt) * Initial
    <3>1. /\ cl.attempt < cfg.retries /\ cl.attempt > 0
          /\ delay = Factor(cl.attempt) * Initial
          /\ elapsed + left <= u
      BY <2>2 DEF TimedInv, BudgetInv
    <3>2. elapsed' = elapsed + 1 /\ ~Waiting /\ cl.pc # "read"
      BY <1>1, <2>2 DEF Waiting, ClientWaits, ClientDone, ClientFailed, Sleeping, Sleeps
    <3> HIDE DEF u
    <3>3. elapsed' + left' <= u
      <4>1. elapsed' + left' = elapsed + left
        BY <1>4, <1>5, <1>8, <2>2, <3>2
      <4> QED BY <3>1, <4>1
    <3> QED BY <1>1, <1>2, <1>3, <2>2, <3>1, <3>2, <3>3 DEF BudgetInv, u
  <2>3. CASE ~Waiting /\ ~Sleeping
    <3>1. cl.pc \in ClientDone
      BY <1>2, <2>3 DEF ClientStates, Waiting, Sleeping, Sleeps
    <3>2. delay = 0 /\ left = 0
      BY <2>3 DEF TimedInv, BudgetInv
    <3> QED BY <1>1, <1>2, <1>3, <1>5, <2>3, <3>1, <3>2 DEF BudgetInv
  <2> QED BY <2>1, <2>2, <2>3
<1> QED BY <1>9, <1>10, <1>11, <1>13, <1>14, <1>15 DEF TimeKept, ClocksInv

-----------------------------------------------------------------------------
(* The invariant *)

LEMMA TimedInvInit == TimedInit => TimedInv
<1> SUFFICES ASSUME TimedInit PROVE TimedInv
  OBVIOUS
<1>1. PutInv
  BY PutInvInit DEF TimedInit
<1>2. /\ net = [p \in Ports |-> <<>>] /\ open = {ListenPort, ClientPort} /\ faults = 0
      /\ cl.pc = "start" /\ cl.attempt = 0 /\ cl.timeout = cfg.timeout
      /\ \A s \in Sessions : sess[s].pc = "free"
  BY DEF TimedInit, Init, NetInit, ClientInit, ServerInit
<1>3. /\ delay = 0 /\ left = 0 /\ elapsed = 0
      /\ deadline = [s \in Sessions |-> 0]
      /\ age = [p \in Ports |-> <<>>]
      /\ lost = [t \in PacketTypes |-> 0]
  BY DEF TimedInit
<1>4. /\ net[ListenPort] = <<>> /\ net[ClientPort] = <<>>
      /\ \A s \in Sessions : net[s] = <<>>
      /\ 1..Len(net[ClientPort]) = {}
  BY <1>2, PortsAreDistinct
<1>5. ~Waiting /\ ~Sleeping /\ ~Working /\ NobodyAlive
  BY <1>2 DEF Waiting, Sleeping, Working, ClientWaits, Sleeps, NobodyAlive, Alive
<1>6. ClockTypes
  <2>1. Grace \in Nat
    BY <1>1, GraceFacts
  <2> QED BY <1>2, <1>3, <2>1, EmptySeq DEF ClockTypes
<1>7. SocketsMatch
  BY <1>2, PortsAreDistinct DEF SocketsMatch, ClientDone, ClientFailed
<1>8. TurnsInv
  <2>1. RestInv /\ AskedInv
    BY <1>2, <1>4, <1>5 DEF RestInv, AskedInv, NobodyAlive
  <2> QED BY <1>4, <1>5, <2>1 DEF TurnsInv, NobodyAlive
<1>9. GrantsInv /\ BudgetInv
  BY <1>2, <1>3, <1>5 DEF GrantsInv, BudgetInv
<1>10. ClocksInv
  BY <1>2, <1>5 DEF ClocksInv, AgesInv, DeadlinesInv
<1> QED BY <1>1, <1>6, <1>7, <1>8, <1>9, <1>10 DEF TimedInv

LEMMA TimedInvNext == TimedInv /\ [TimedNext]_timedVars => TimedInv'
<1> SUFFICES ASSUME TimedInv, [TimedNext]_timedVars PROVE TimedInv'
  OBVIOUS
<1>1. PutInv'
  BY TimedStep, PutInvNext DEF TimedInv
<1>2. CASE TimedNext
  <2>1. TimeKept
    BY <1>2, ClientKeepsTime, ServerKeepsTime, LossKeepsTime, TickKeepsTime DEF TimedNext
  <2> QED BY <1>1, <2>1 DEF TimeKept, TimedInv
<1>3. CASE UNCHANGED timedVars
  BY <1>1, <1>3
  DEF timedVars, vars, clocks, clientClocks, TimedInv, ClockTypes, SocketsMatch, TurnsInv,
      RestInv, AskedInv, Answer, GrantsInv, ClocksInv, AgesInv, DeadlinesInv, BudgetInv,
      Settled, SettledFor, Grace, Waiting, Sleeping, Waited, Asking, Working, Initial,
      Alive, NobodyAlive
<1> QED BY <1>2, <1>3

LEMMA TimedInvHolds == TimedSpec => []TimedInv
BY TimedInvInit, TimedInvNext, PTL DEF TimedSpec

-----------------------------------------------------------------------------
\* Types: every clock keeps its range, and there is an age for every datagram.
THEOREM TimedPutTypes == TimedSpec => []TimedTypeOK
<1>1. TimedInv => TimedTypeOK
  <2> SUFFICES ASSUME TimedInv PROVE TimedTypeOK
    OBVIOUS
  <2>1. TypeOK
    <3>1. HonestPackets(cfg, srcLen, Asking) \subseteq PutPackets
      BY DEF HonestPackets
    <3>2. net \in [Ports -> Seq(PutPackets)]
      BY <3>1, QueuesMonotonic DEF TimedInv, PutInv, QueuesInv
    <3> QED BY <3>2 DEF TimedInv, PutInv, ClientInv, ServerInv, SocketsInv, TypeOK
  <2>2. delay <= MaxDelay /\ MaxDelay \in Nat /\ delay \in Nat
    <3>1. MaxDelay \in Nat /\ delay \in Nat /\ MaxDelay = 8 * (U16 * Second)
          /\ U16 * Second \in Nat
      <4>1. U16 \in Nat /\ Second \in Nat
        BY GraceFacts DEF TimedInv
      <4>2. U16 * Second \in Nat /\ MaxDelay = 8 * (U16 * Second)
        BY <4>1 DEF MaxDelay
      <4>3. delay \in Nat
        BY DEF TimedInv, ClockTypes
      <4> QED BY <4>2, <4>3
    <3>2. CASE Waiting \/ Sleeping
      <4>1. Asking \/ Working
        BY <3>2 DEF Waiting, Sleeping, ClientWaits, Sleeps, Asking, Working
      <4>2. Initial \in Nat /\ Initial <= U16 * Second
        BY <4>1, WaitFacts DEF TimedInv
      <4>3. delay <= 8 * Initial
        BY <3>2, DelayFacts
      <4> QED BY <3>1, <4>2, <4>3
    <3>3. CASE ~Waiting /\ ~Sleeping
      BY <3>1, <3>3 DEF TimedInv, BudgetInv
    <3> QED BY <3>1, <3>2, <3>3
  <2>3. deadline \in [Sessions -> 0..(MaxTimeout * Second)]
    <3>1. /\ Grace \in Nat /\ Grace <= MaxTimeout * Second
          /\ Second \in Nat /\ MaxTimeout \in Nat
      BY GraceFacts DEF TimedInv
    <3>2. MaxTimeout * Second \in Nat
      BY <3>1
    <3>3. 0..Grace \subseteq 0..(MaxTimeout * Second)
      BY <3>1, <3>2
    <3> QED BY <3>3 DEF TimedInv, ClockTypes
  <2>4. lost \in [PacketTypes -> 0..MaxFaults]
    <3>1. 0..faults \subseteq 0..MaxFaults
      BY NetworkAssumption DEF TimedInv, PutInv, SocketsInv
    <3> QED BY <3>1 DEF TimedInv, ClockTypes
  <2> QED BY <2>1, <2>2, <2>3, <2>4 DEF TimedTypeOK, TimedInv, ClockTypes
<1> QED BY <1>1, TimedInvHolds, PTL

\* With clocks every timer fires only when TftpPut says that it may: the waits of
\* with_retry and the deadline of wait_for are long enough for every datagram that
\* is not lost, and so all that holds of a PUT without clocks holds of this one.
THEOREM TimedImplementsPut == TimedSpec => ImplementsPut
<1>1. TimedInit => Init
  BY DEF TimedInit
<1> QED BY <1>1, TimedInvHolds, TimedStep, PTL DEF TimedSpec, ImplementsPut, Spec

\* When put repeats a block, with_retry has waited and then slept as long again,
\* and the session that wait_for has given up on has dropped its socket.
THEOREM TimedRepeatsTooLate == TimedSpec => []RepeatsTooLate
<1>1. TimedInv => RepeatsTooLate
  <2> SUFFICES ASSUME TimedInv, cl.pc = "pause", left = 0 PROVE cl.server \notin open
    BY DEF RepeatsTooLate
  <2>1. NobodyAlive
    BY NobodyLeft DEF Sleeping, Sleeps
  <2>2. cl.server \in Sessions
    BY DEF TimedInv, GrantsInv, Working
  <2> QED BY <2>1, <2>2 DEF TimedInv, SocketsMatch, NobodyAlive, Alive
<1> QED BY <1>1, TimedInvHolds, PTL

\* However often put repeats its request, no two of the tasks that the server
\* spawns for it are at work at a time.
THEOREM TimedSessionsNeverMeet == TimedSpec => []SessionsNeverMeet
<1>1. TimedInv => SessionsNeverMeet
  <2> SUFFICES ASSUME TimedInv PROVE SessionsNeverMeet
    OBVIOUS
  <2> DEFINE A == {s \in Sessions : sess[s].pc \in {"spawned", "create", "recv"}}
  <2>1. \A s, t \in A : s = t
    BY DEF TimedInv, TurnsInv, Alive
  <2>2. Cardinality(A) <= 1
    <3>1. CASE A = {}
      BY <3>1, FS_EmptySet
    <3>2. CASE A # {}
      <4>1. PICK s \in A : A = {s}
        BY <2>1, <3>2
      <4> QED BY <4>1, FS_Singleton
    <3> QED BY <3>1, <3>2
  <2> QED BY <2>2 DEF SessionsNeverMeet
<1> QED BY <1>1, TimedInvHolds, PTL

\* with_retry does not go on for longer than its attempts and the sleeps between
\* them take, whatever is lost and whoever is gone.
THEOREM TimedGivesUpInTime == TimedSpec => []GivesUpInTime
<1>1. TimedInv => GivesUpInTime
  <2> SUFFICES ASSUME TimedInv PROVE elapsed <= Patience
    BY DEF GivesUpInTime
  <2>1. cfg.retries \in Nat /\ cl \in ClientStates /\ cl.attempt \in Nat /\ cl.timeout \in Nat
    BY GraceFacts DEF TimedInv, PutInv, ClientInv, ClientStates
  <2> DEFINE n == cfg.retries
             a == cl.attempt
             I == Initial
  <2>2. I \in Nat
    BY <2>1, TimedPutAssumption DEF Initial
  <2>3. CASE Waiting
    <3>1. /\ a < n /\ delay = Factor(a + 1) * I
          /\ elapsed <= 2 * FactorSum(a) * I + Waited
      BY <2>3 DEF TimedInv, BudgetInv
    <3>2. /\ FactorSum(a + 1) = FactorSum(a) + Factor(a + 1)
          /\ FactorSum(a) \in Nat /\ Factor(a + 1) \in Nat
          /\ FactorSum(n - 1) \in Nat /\ FactorSum(n) \in Nat
          /\ FactorSum(a) <= FactorSum(n - 1) /\ FactorSum(a + 1) <= FactorSum(n)
      <4>1. n - 1 \in Nat /\ a <= n - 1 /\ a + 1 <= n /\ a + 1 \in Nat
        BY <2>1, <3>1
      <4>2. Factor(a + 1) \in {1, 2, 4, 8} /\ FactorSum(a) \in Nat
            /\ FactorSum(a + 1) = FactorSum(a) + Factor(a + 1)
        BY <2>1, <4>1, FactorFacts
      <4>3. FactorSum(n - 1) \in Nat /\ FactorSum(n) \in Nat
        BY <2>1, <4>1, FactorFacts
      <4>4. FactorSum(a) <= FactorSum(n - 1)
        BY <2>1, <4>1, FactorsGrow
      <4>5. FactorSum(a + 1) <= FactorSum(n)
        BY <2>1, <4>1, FactorsGrow
      <4> QED BY <4>2, <4>3, <4>4, <4>5
    <3> DEFINE x == FactorSum(a)
               y == Factor(a + 1)
               w == FactorSum(n - 1) + FactorSum(n)
    <3>3. x \in Nat /\ y \in Nat /\ w \in Nat /\ 2 * x + y <= w
      BY <3>2
    <3>4. Waited <= delay /\ Waited \in Int /\ elapsed \in Nat /\ delay \in Nat
      BY DEF Waited, TimedInv, ClockTypes
    <3> HIDE DEF x, y, w
    <3>5. (2 * x + y) * I <= w * I
      BY <2>2, <3>3, ProductMonotonic
    <3>6. (2 * x + y) * I = 2 * x * I + y * I
      BY <2>2, <3>3
    <3> DEFINE u == 2 * x * I
               v == y * I
               z == w * I
    <3>7. u \in Nat /\ v \in Nat /\ z \in Nat /\ u + v <= z
      BY <2>2, <3>3, <3>5, <3>6
    <3>8. elapsed <= u + Waited /\ Waited <= v
      BY <3>1, <3>4 DEF x, y
    <3>9. elapsed <= z
      <4> HIDE DEF u, v, z
      <4> QED BY <3>4, <3>7, <3>8
    <3>10. n # 0 /\ Patience = z
      BY <2>1, <3>1 DEF Patience, w
    <3> QED BY <3>9, <3>10
  <2>4. CASE Sleeping
    <3>1. /\ a < n /\ elapsed + left <= 2 * FactorSum(a) * I
      BY <2>4 DEF TimedInv, BudgetInv
    <3>2. /\ FactorSum(a) \in Nat
          /\ FactorSum(n - 1) \in Nat /\ FactorSum(n) \in Nat
          /\ FactorSum(a) <= FactorSum(n - 1) /\ FactorSum(a) <= FactorSum(n)
      <4>1. n - 1 \in Nat /\ a <= n - 1 /\ a <= n
        BY <2>1, <3>1
      <4> QED BY <2>1, <4>1, FactorFacts, FactorsGrow
    <3> DEFINE x == FactorSum(a)
               w == FactorSum(n - 1) + FactorSum(n)
               u == 2 * x * I
               z == w * I
    <3>3. x \in Nat /\ w \in Nat /\ 2 * x <= w
      BY <3>2
    <3>4. n # 0 /\ Patience = z /\ elapsed + left <= u
      BY <2>1, <3>1 DEF Patience
    <3> HIDE DEF x, w
    <3>5. u <= z /\ u \in Nat /\ z \in Nat
      BY <2>2, <3>3, ProductMonotonic
    <3>6. elapsed \in Nat /\ left \in Nat
      BY DEF TimedInv, ClockTypes
    <3> HIDE DEF u, z
    <3> QED BY <3>4, <3>5, <3>6
  <2>5. CASE ~Waiting /\ ~Sleeping
    <3>1. elapsed = 0
      BY <2>5 DEF TimedInv, BudgetInv
    <3>2. Patience >= 0
      <4>1. CASE n = 0
        BY <4>1 DEF Patience
      <4>2. CASE n # 0
        <5>1. n - 1 \in Nat
          BY <2>1, <4>2
        <5>2. FactorSum(n - 1) \in Nat /\ FactorSum(n) \in Nat
          BY <2>1, <5>1, FactorFacts
        <5> DEFINE w == FactorSum(n - 1) + FactorSum(n)
        <5>3. w \in Nat /\ Patience = w * I
          BY <4>2, <5>2 DEF Patience
        <5> HIDE DEF w
        <5> QED BY <2>2, <5>3
      <4> QED BY <4>1, <4>2
    <3> QED BY <3>1, <3>2
  <2> QED BY <2>3, <2>4, <2>5
<1> QED BY <1>1, TimedInvHolds, PTL

=============================================================================
