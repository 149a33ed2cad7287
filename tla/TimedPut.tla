------------------------------ MODULE TimedPut ------------------------------
(***************************************************************************)
(* TftpPut with clocks: the waits and sleeps of with_retry, the deadline   *)
(* of wait_for, and a network that loses datagrams and delivers the others *)
(* within a bound.  In TftpPut a timer fires when nothing else is left to  *)
(* happen; here it fires when its time has come, and that the two agree is *)
(* a property (ImplementsPut).  Time passes in ticks, and only when        *)
(* everyone waits.                                                         *)
(***************************************************************************)
EXTENDS TftpPut

CONSTANTS
    Second,   \* how many ticks a second has
    Latency   \* within how many ticks a datagram is received, if anyone listens

ASSUME TimedPutAssumption ==
    Second \in Nat /\ Latency \in Nat /\ 2 * Latency < Second

\* DESIGN.md:78 has time-outs from one second.  (The command line takes a zero too:
\* then with_retry does not wait at all, and what is said below of a PUT's clocks
\* does not hold.)
ASSUME WaitsAssumption == \A c \in Configs : c.timeout > 0

VARIABLES
    delay,     \* with_retry's delay, in ticks
    left,      \* what is left of the client's current wait or sleep
    deadline,  \* deadline[s]: what is left until the deadline of session s
    age,       \* age[p]: how long ago each datagram of net[p] was sent
    elapsed,   \* how long with_retry has been at work (history)
    lost       \* lost[t]: how many datagrams of type t were lost (history)

clientClocks == <<delay, left, elapsed>>
clocks == <<clientClocks, deadline, age>>
timedVars == <<vars, clocks, lost>>

Sleeps == {"backoff", "pause"}
PacketTypes == {"WRQ", "OACK", "DATA", "ACK", "ERROR"}

\* The greatest delay there can be.
MaxDelay == 8 * U16 * Second

\* Types and ranges of the clocks.  That no datagram gets older than the latency is
\* more than that: nothing holds back time for a datagram whose receiver does not
\* listen, so it says that nothing is ever under way to a client that sleeps.
TimedTypeOK ==
    /\ TypeOK
    /\ delay \in 0..MaxDelay /\ left \in 0..MaxDelay
    /\ deadline \in [Sessions -> 0..(MaxTimeout * Second)]
    /\ elapsed \in Nat
    /\ age \in [Ports -> Seq(0..Latency)]
    /\ \A p \in Ports : Len(age[p]) = Len(net[p])
    /\ lost \in [PacketTypes -> 0..MaxFaults]

TimedInit ==
    /\ Init
    /\ delay = 0 /\ left = 0 /\ elapsed = 0
    /\ deadline = [s \in Sessions |-> 0]
    /\ age = [p \in Ports |-> <<>>]
    /\ lost = [t \in PacketTypes |-> 0]

-----------------------------------------------------------------------------
(* The clocks in a step of the program *)

\* Mutant of Initial: the time-out's number is taken for one of smaller units.
InitialWithoutUnit == cl.timeout

\* with_retry's `initial`.
Initial == cl.timeout * Second

\* Mutant of Sleep: the next attempt starts at once.
NoSleep == 0

\* How long with_retry sleeps after an attempt.
Sleep == delay

\* Mutant of NextDelay: the delay grows without a bound.
Doubled == 2 * delay

\* The delay of the next attempt: twice the last one, and at most `max`.
NextDelay == Lesser(2 * delay, 8 * Initial)

AttemptBegins == cl.pc \notin ClientWaits /\ cl'.pc \in ClientWaits
AttemptIsOver == cl.pc \in ClientWaits /\ cl'.pc \in Sleeps

\* op(delay) waits for `delay` at most, the sleep after it takes as long again,
\* and the delay is doubled then.
ClientClock ==
    \/ /\ AttemptBegins
       /\ delay' = IF cl.pc \in Sleeps THEN NextDelay ELSE Initial
       /\ left' = delay'
       /\ elapsed' = IF cl.pc \in Sleeps THEN elapsed ELSE 0
    \/ /\ AttemptIsOver
       /\ left' = Sleep
       /\ UNCHANGED <<delay, elapsed>>
    \/ /\ ~AttemptBegins /\ ~AttemptIsOver
       /\ delay' = 0 /\ left' = 0 /\ elapsed' = 0

\* Mutant of Rearmed: the deadline of the whole transfer is set once.
ArmedOnce(s) == sess[s].pc = "create" /\ sess'[s].pc = "recv"

\* Session s calls wait_for: when it has opened the file, and for every packet.
Rearmed(s) ==
    /\ sess'[s].pc = "recv"
    /\ sess[s].pc = "create" \/ Len(net'[s]) < Len(net[s])

SessionClock(s) ==
    deadline' =
        [deadline EXCEPT ![s] = IF Rearmed(s) THEN sess[s].neg.timeout * Second
                                ELSE IF sess'[s].pc = "recv" THEN @ ELSE 0]

\* The first datagram of a queue is received, or one is sent to it, or its socket
\* is dropped.
QueueClock ==
    age' = [p \in Ports |->
              CASE net'[p] = <<>> -> <<>>
                [] net'[p] # <<>> /\ Len(net'[p]) < Len(net[p]) -> Tail(age[p])
                [] Len(net'[p]) > Len(net[p]) -> Append(age[p], 0)
                [] OTHER -> age[p]]

-----------------------------------------------------------------------------
TimedClient ==
    /\ Client
    /\ cl.pc \in Sleeps => left = 0
    /\ ClientClock /\ QueueClock
    /\ UNCHANGED <<deadline, lost>>

TimedClientTimer ==
    /\ ClientTimeout /\ UNCHANGED <<faults, serverVars>>
    /\ left = 0
    /\ ClientClock /\ QueueClock
    /\ UNCHANGED <<deadline, lost>>

TimedListener ==
    Listener /\ QueueClock /\ UNCHANGED <<clientClocks, deadline, lost>>

TimedSession(s) ==
    /\ Session(s) \/ Refused(s)
    /\ SessionClock(s) /\ QueueClock
    /\ UNCHANGED <<clientClocks, lost>>

TimedSessionTimer(s) ==
    /\ SessionTimeout(s) /\ UNCHANGED <<faults, putVars>>
    /\ deadline[s] = 0
    /\ SessionClock(s) /\ QueueClock
    /\ UNCHANGED <<clientClocks, lost>>

TimedWriter(s) == Writer(s) /\ UNCHANGED <<clocks, lost>>

TimedNetwork ==
    /\ UNCHANGED <<putVars, serverVars>>
    /\ \E p \in Ports : \E i \in 1..Len(net[p]) :
          /\ Lose(p, i)
          /\ lost' = [lost EXCEPT ![net[p][i].type] = @ + 1]
          /\ age' = [age EXCEPT ![p] = RemoveAt(@, i)]
    /\ UNCHANGED <<clientClocks, deadline>>

\* The receiver of port p is in recv_from.
Listens(p) ==
    IF p = ClientPort THEN cl.pc \in ClientWaits
    ELSE p = ListenPort \/ sess[p].pc = "recv"

\* Someone can go on, or has to: a task that waits for nothing, a timer that has
\* run out, a datagram that has been under way long enough.
Urgent ==
    \/ cl.pc \in {"start", "read"}
    \/ cl.pc \notin ClientDone /\ left = 0
    \/ \E s \in Sessions :
          \/ sess[s].pc \in {"spawned", "create"}
          \/ sess[s].pc = "recv" /\ deadline[s] = 0
    \/ \E p \in Ports : Latency \in Range(age[p]) /\ Listens(p)

Less(n) == Greater(n - 1, 0)

Tick ==
    /\ ~Urgent
    /\ left' = Less(left)
    /\ elapsed' = IF cl.pc \in ClientDone THEN 0 ELSE elapsed + 1
    /\ deadline' = [s \in Sessions |-> Less(deadline[s])]
    /\ age' = [p \in Ports |-> [i \in DOMAIN age[p] |-> age[p][i] + 1]]
    /\ UNCHANGED <<vars, delay, lost>>

TimedNext ==
    \/ TimedClient \/ TimedClientTimer
    \/ TimedListener
    \/ \E s \in Sessions : TimedSession(s) \/ TimedSessionTimer(s) \/ TimedWriter(s)
    \/ TimedNetwork
    \/ Tick

TimedSpec == TimedInit /\ [][TimedNext]_timedVars

\* Every task gets its turn, and time goes on.
TimedFairness ==
    /\ WF_timedVars(TimedClient)
    /\ WF_timedVars(TimedClientTimer)
    /\ WF_timedVars(TimedListener)
    /\ \A s \in Sessions :
          /\ WF_timedVars(TimedSession(s))
          /\ WF_timedVars(TimedSessionTimer(s))
          /\ WF_timedVars(TimedWriter(s))
    /\ WF_timedVars(Tick)

TimedFairSpec == TimedSpec /\ TimedFairness

-----------------------------------------------------------------------------
\* The clocks only restrict: with a network that is fast enough every timer fires
\* when TftpPut says it may, when nothing is under way that could stop it.
ImplementsPut == Spec

\* Every repetition of a block comes too late: with_retry waits and then sleeps as
\* long again, and by then the session has given up, whose deadline is one wait.
RepeatsTooLate == cl.pc = "pause" /\ left = 0 => cl.server \notin open

\* For the same reason the sessions that a repeated request starts never meet, and
\* none truncates a file under another: it takes a request that the network has
\* duplicated to do that.
SessionsNeverMeet ==
    Cardinality({s \in Sessions : sess[s].pc \in {"spawned", "create", "recv"}}) <= 1

\* As long as neither a block nor an ACK is lost, a lost request or OACK is made good
\* by the next attempt, and the PUT ends as it would have without the loss; unless
\* all attempts were lost.
LostRequestsAreRepeated ==
    [](NoWrap /\ lost["DATA"] + lost["ACK"] = 0) =>
        <>[](IF cfg.retries > 0 /\ lost["WRQ"] + lost["OACK"] >= cfg.retries
             THEN cl.pc = "protocol"
             ELSE Decided)

\* How many time-outs the k-th attempt waits: the delay doubles, up to eight.
Factor(k) == CASE k = 1 -> 1 [] k = 2 -> 2 [] k = 3 -> 4 [] OTHER -> 8

\* ... and the first n attempts together.
FactorSum(n) == CASE n = 0 -> 0 [] n = 1 -> 1 [] n = 2 -> 3 [] OTHER -> 8 * n - 17

\* The longest that with_retry can take: every attempt waits for the delay and all
\* but the last one sleep as long again.
Patience ==
    IF cfg.retries = 0 THEN 0
    ELSE (FactorSum(cfg.retries - 1) + FactorSum(cfg.retries)) * Initial

\* A PUT whose server is gone does not go on for longer than that: with the 4
\* attempts of the GUI, 22 time-outs.  (protocol-notes.md:173 caps the delay at
\* eight time-outs as the code does, DESIGN.md:93 at 64.)
GivesUpInTime == elapsed <= Patience

-----------------------------------------------------------------------------
(* What the repository says of a PUT and the code does not do. *)

\* DESIGN.md:157 wants retransmission tested by dropping block N, and transfer.rs:36
\* and protocol-notes.md:171-177 describe it: what was lost is sent again, up to
\* `retries` times.  One lost block or ACK must not end a PUT that has attempts left.
LossIsRepaired == <>(cl.pc = "ok")
=============================================================================
