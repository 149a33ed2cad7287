--------------------------- MODULE TftpGetProofs ---------------------------
(***************************************************************************)
(* Proofs about a GET, for every number of sessions, every fault budget,   *)
(* every configuration and file, and every block size and range of block   *)
(* numbers.  The inductive invariant GetInv says where the client stands   *)
(* and what every datagram under way may be; CopyInv relates client,       *)
(* sessions and packets to the file; FlowInv says what a session that      *)
(* waits has coming.                                                       *)
(***************************************************************************)
EXTENDS TftpGet, OptionsProofs, TransferProofs

USE DEF Lesser, Greater

ClientOK == cfg \in Configs /\ cl \in ClientStates /\ out \in Seq(Nat)
ServerOK == served \in ServedFiles /\ sess \in [Sessions -> SessionStates]
SurroundingsOK == open \subseteq Ports /\ faults \in 0..MaxFaults /\ room \in Rooms

\* The packets that acknowledge only what lies before block e.
AckedBefore(e) == {m \in GetPackets : m.type = "ACK" => m.block < e}

\* The client counts from one, acknowledges only what it has counted, and so do
\* the ACKs under way.
AckBound ==
    /\ cl.pc \in {"start", "await", "backoff"} => cl.expected = 1
    /\ cl.lastAcked < cl.expected
    /\ net \in [Ports -> Seq(AckedBefore(cl.expected))]

GetInv == ClientOK /\ ServerOK /\ SurroundingsOK /\ AckBound

-----------------------------------------------------------------------------
(* Facts about the parts *)

LEMMA AckedBeforeGrows ==
    ASSUME NEW d \in Nat, NEW e \in Nat, d <= e,
           NEW q \in [Ports -> Seq(AckedBefore(d))]
    PROVE  q \in [Ports -> Seq(AckedBefore(e))]
<1>1. AckedBefore(d) \subseteq AckedBefore(e)
  <2> SUFFICES ASSUME NEW m \in GetPackets, m.type = "ACK", m.block < d
               PROVE  m.block < e
    BY DEF AckedBefore
  <2>1. m.block \in Nat
    BY PacketsAssumption DEF GetPackets, Blocks
  <2> QED BY <2>1
<1> QED BY <1>1, QueuesMonotonic

LEMMA ConfigTypes ==
    ASSUME NEW c \in Configs
    PROVE  /\ c.blksize \in 0..(U16 - 1) /\ c.timeout \in 0..(U16 - 1)
           /\ c.windowsize \in 0..(U16 - 1)
           /\ c.blksize \in Nat /\ c.timeout \in Nat /\ c.windowsize \in Nat
           /\ c.retries \in Nat /\ c.resume \in Nat
BY GetClientAssumption, OptionsAssumption DEF ClientConfigs

\* What the two ends build are packets, and the only ACKs are the client's.
LEMMA PacketsBuilt ==
    /\ \A c \in Configs, e \in Nat :
           Rrq(ClientPort, RequestOptions(c, NoSize)) \in AckedBefore(e)
    /\ \A b \in Blocks, e \in Nat : b < e => Ack(ClientPort, b) \in AckedBefore(e)
    /\ \A s \in Sessions, n \in Negotiations, size \in Nat, e \in Nat :
           Oack(s, OackOptions(n, size)) \in AckedBefore(e)
    /\ \A s \in Sessions, b \in Blocks, off \in Nat, len \in Nat, e \in Nat :
           Data(s, b, off, len) \in AckedBefore(e)
    /\ \A s \in Sessions, e \in Nat : Error(s) \in AckedBefore(e)
<1>1. ASSUME NEW c \in Configs
      PROVE  RequestOptions(c, NoSize) \in [{"blksize", "timeout", "windowsize"} -> Nat]
  BY ConfigTypes, RequestCarriesConfig
<1>2. ASSUME NEW n \in Negotiations, NEW size \in Nat
      PROVE  OackOptions(n, size) \in [{"blksize", "timeout", "tsize"} -> Nat]
                                          \cup [OptionNames -> Nat]
  <2>1. size # NoSize
    BY DEF NoSize
  <2> QED BY <2>1, OackCarriesSettled
<1> QED
  BY <1>1, <1>2 DEF AckedBefore, GetPackets, Rrq, Ack, Oack, Data, Error

\* The fields of a packet under way.
LEMMA PacketFields ==
    ASSUME NEW e \in Nat, NEW m \in AckedBefore(e)
    PROVE  /\ m.type \in {"RRQ", "OACK", "DATA", "ACK", "ERROR"}
           /\ m.from \in Ports
           /\ m.type \in {"RRQ", "OACK"} => IsOptionSet(m.options)
           /\ m.type = "DATA" => /\ m.from \in Sessions
                                 /\ m.block \in Blocks /\ m.off \in Nat /\ m.len \in Nat
           /\ m.type = "ACK" => m.block \in Blocks /\ m.block < e
<1>1. m \in GetPackets /\ (m.type = "ACK" => m.block < e)
  BY DEF AckedBefore
<1>2. m.type \in {"RRQ", "OACK"} => IsOptionSet(m.options)
  <2>1. m.type = "RRQ" => m.options \in [{"blksize", "timeout", "windowsize"} -> Nat]
    BY <1>1 DEF GetPackets
  <2>2. m.type = "OACK" => m.options \in [{"blksize", "timeout", "tsize"} -> Nat]
                                            \cup [OptionNames -> Nat]
    BY <1>1 DEF GetPackets
  <2> QED BY <2>1, <2>2 DEF IsOptionSet, OptionNames
<1> QED
  BY <1>1, <1>2, PortsAreDistinct DEF GetPackets

-----------------------------------------------------------------------------
(* The client's steps *)

\* What a step of the client must keep.
ClientKeeps ==
    ClientOK' /\ AckBound' /\ open' \subseteq Ports

\* A step that does not touch the counters keeps the client's part of the
\* invariant, if the datagrams it leaves are good.
LEMMA ClientPasses ==
    ASSUME GetInv, UNCHANGED <<cfg, out>>, cl' \in ClientStates,
           cl'.expected = cl.expected, cl'.lastAcked = cl.lastAcked,
           \/ cl.pc \in {"start", "await", "backoff"}
           \/ cl'.pc \notin {"start", "await", "backoff"},
           net' \in [Ports -> Seq(AckedBefore(cl.expected))],
           open' \subseteq Ports
    PROVE  ClientKeeps
BY DEF GetInv, ClientOK, ClientKeeps, AckBound

\* Return leaves the counters alone.
LEMMA ReturnKeeps ==
    ASSUME GetInv, NEW q \in [Ports -> Seq(AckedBefore(cl.expected))],
           NEW result \in ClientDone, Return(q, result), UNCHANGED <<cfg, out>>
    PROVE  ClientKeeps
<1>1. /\ cl' \in ClientStates /\ cl'.expected = cl.expected
      /\ cl'.lastAcked = cl.lastAcked
      /\ cl'.pc \notin {"start", "await", "backoff"}
  BY DEF GetInv, ClientOK, Return, ClientStates, ClientDone, ClientFailed
<1>2. net' \in [Ports -> Seq(AckedBefore(cl.expected))]
  BY ClosedKeepsPackets, PortsAreDistinct DEF Return
<1>3. open' \subseteq Ports
  BY DEF GetInv, SurroundingsOK, Return
<1> QED BY <1>1, <1>2, <1>3, ClientPasses

LEMMA NegotiationKeeps ==
    ASSUME GetInv, SendRequest \/ NoAttempt \/ RequestTimeout
    PROVE  ClientKeeps
<1>1. /\ net \in [Ports -> Seq(AckedBefore(cl.expected))]
      /\ cl \in ClientStates /\ cfg \in Configs /\ open \subseteq Ports
      /\ cl.expected \in Nat
  BY DEF GetInv, AckBound, ClientOK, SurroundingsOK, ClientStates
<1>2. CASE SendRequest
  <2>1. Rrq(ClientPort, RequestOptions(cfg, NoSize)) \in AckedBefore(cl.expected)
    BY <1>1, PacketsBuilt
  <2>2. net' \in [Ports -> Seq(AckedBefore(cl.expected))]
    BY <1>1, <1>2, <2>1, SentKeepsPackets, PortsAreDistinct DEF SendRequest
  <2> QED
    BY <1>1, <1>2, <2>2, ClientPasses
    DEF SendRequest, ClientStates, ClientWaits
<1>3. CASE NoAttempt
  BY <1>1, <1>3, ReturnKeeps DEF NoAttempt, ClientDone, ClientFailed
<1>4. CASE RequestTimeout
  <2>1. CASE Return(net, "protocol")
    BY <1>1, <1>4, <2>1, ReturnKeeps DEF RequestTimeout, ClientDone, ClientFailed
  <2>2. CASE /\ cl' = [cl EXCEPT !.pc = "backoff", !.attempt = @ + 1]
             /\ UNCHANGED <<net, open>>
    <3>1. /\ cl' \in ClientStates /\ cl'.expected = cl.expected
          /\ cl'.lastAcked = cl.lastAcked
      <4> DEFINE next == cl.attempt + 1
      <4>1. next \in Nat /\ cl' = [cl EXCEPT !.pc = "backoff", !.attempt = next]
        BY <1>1, <2>2 DEF ClientStates
      <4> HIDE DEF next
      <4> QED BY <1>1, <4>1 DEF ClientStates
    <3>2. cl.pc = "await" /\ UNCHANGED <<cfg, out>>
      BY <1>4 DEF RequestTimeout
    <3> QED BY <1>1, <2>2, <3>1, <3>2, ClientPasses
  <2> QED BY <1>4, <2>1, <2>2 DEF RequestTimeout
<1> QED BY <1>2, <1>3, <1>4

\* The destination is truncated and counting starts behind what is resumed.
LEMMA EnterKeeps ==
    ASSUME GetInv, cl.pc = "await", NEW from \in Ports, NEW neg,
           neg.blksize \in Nat, neg.windowsize \in Nat, EnterLoop(neg, from),
           net' \in [Ports -> Seq(AckedBefore(cl.expected))]
    PROVE  ClientKeeps
<1>1. cfg \in Configs /\ cl \in ClientStates /\ cl.expected = 1
  BY DEF GetInv, ClientOK, AckBound
<1>2. cfg.resume \in Nat /\ cfg.retries \in Nat
  BY <1>1, ConfigTypes
<1>3. cfg.resume % BlockMod \in Blocks /\ cfg.resume % BlockMod <= cfg.resume
  <2>1. BlockMod \in Nat /\ BlockMod > 0
    BY PacketsAssumption
  <2>2. /\ cfg.resume % BlockMod \in 0..(BlockMod - 1)
        /\ cfg.resume % BlockMod <= cfg.resume
    BY <1>2, <2>1, ModFacts, Zenon
  <2> QED BY <2>2 DEF Blocks
<1>4. cfg.resume * neg.blksize \in Nat
  BY <1>2
<1>5. cl' \in ClientStates
  <2> DEFINE acked == cfg.resume % BlockMod
             pos == cfg.resume * neg.blksize
             budget == Greater(cfg.retries, 1)
             first == cfg.resume + 1
  <2>1. /\ acked \in Blocks /\ pos \in Nat /\ budget \in Nat
        /\ first \in Nat \ {0}
    BY <1>2, <1>3, <1>4
  <2>2. cl' = [cl EXCEPT !.pc = "recv", !.server = from, !.blksize = neg.blksize,
                         !.windowsize = neg.windowsize, !.expected = first,
                         !.lastAcked = acked, !.retries = budget, !.pos = pos]
    BY DEF EnterLoop
  <2> HIDE DEF acked, pos, budget, first
  <2> QED BY <1>1, <2>1, <2>2 DEF ClientStates, ClientWaits
<1>6. /\ cl'.expected = cfg.resume + 1 /\ cl'.lastAcked = cfg.resume % BlockMod
      /\ cl'.pc = "recv"
  BY <1>1 DEF EnterLoop, ClientStates
<1>7. net' \in [Ports -> Seq(AckedBefore(cl'.expected))]
  <2>1. cl'.expected \in Nat /\ 1 <= cl'.expected
    BY <1>2, <1>6
  <2>2. net' \in [Ports -> Seq(AckedBefore(1))]
    BY <1>1
  <2> QED BY <2>1, <2>2, AckedBeforeGrows
<1>8. out' \in Seq(Nat) /\ open' \subseteq Ports /\ cfg' \in Configs
  BY <1>1 DEF EnterLoop, GetInv, SurroundingsOK
<1> QED
  BY <1>2, <1>3, <1>5, <1>6, <1>7, <1>8, PacketsAssumption
  DEF ClientKeeps, ClientOK, AckBound, Blocks

LEMMA ReplyKeeps ==
    ASSUME GetInv, net[ClientPort] # <<>>, ReceiveReply(Head(net[ClientPort]))
    PROVE  ClientKeeps
<1> DEFINE m == Head(net[ClientPort])
           q == Received(net, ClientPort)
<1>1. /\ net \in [Ports -> Seq(AckedBefore(cl.expected))]
      /\ cl \in ClientStates /\ cfg \in Configs /\ open \subseteq Ports
      /\ cl.expected = 1 /\ cl.pc = "await"
  BY DEF GetInv, AckBound, ClientOK, SurroundingsOK, ReceiveReply
<1>2. q \in [Ports -> Seq(AckedBefore(cl.expected))] /\ m \in AckedBefore(cl.expected)
  BY <1>1, ReceivedKeepsPackets, PortsAreDistinct
<1>3. m.from \in Ports /\ (m.type = "OACK" => IsOptionSet(m.options))
  BY <1>1, <1>2, PacketFields
<1>4. Ack(ClientPort, 0) \in AckedBefore(cl.expected)
  BY <1>1, PacketsBuilt, PacketsAssumption DEF Blocks
<1>5. Sent(q, m.from, Ack(ClientPort, 0)) \in [Ports -> Seq(AckedBefore(cl.expected))]
  BY <1>2, <1>3, <1>4, SentKeepsPackets
<1> DEFINE initial == InitialNegotiation(cfg)
           adopted == apply_oack(initial, m.options)
<1>6. /\ initial.blksize \in Nat /\ initial.timeout \in Nat
      /\ initial.windowsize \in Nat
  BY <1>1, ConfigTypes DEF InitialNegotiation
<1>7. m.type = "OACK" => adopted.blksize \in Nat /\ adopted.windowsize \in Nat
  BY <1>3, <1>6, AdoptedIsNatural
<1> HIDE DEF m, q, initial, adopted
<1>8. CASE /\ m.type = "OACK"
           /\ net' = Sent(q, m.from, Ack(ClientPort, 0))
           /\ EnterLoop(adopted, m.from)
  BY <1>1, <1>3, <1>5, <1>7, <1>8, EnterKeeps
<1>9. CASE net' = q /\ EnterLoop(initial, m.from)
  BY <1>1, <1>2, <1>3, <1>6, <1>9, EnterKeeps
<1>10. CASE /\ Return(q, "remote") \/ Return(q, "protocol")
            /\ UNCHANGED <<cfg, out>>
  BY <1>2, <1>10, ReturnKeeps DEF ClientDone, ClientFailed
<1> QED
  BY <1>8, <1>9, <1>10 DEF ReceiveReply, m, q, initial, adopted

\* The client when it has taken a block.
LEMMA TakenFacts ==
    ASSUME cl \in ClientStates, cfg \in Configs, NEW m,
           m.from \in Ports, m.block \in Blocks, m.off \in Nat, m.len \in Nat
    PROVE  /\ Taken(m) \in ClientStates
           /\ Taken(m).expected = cl.expected + 1 /\ Taken(m).lastAcked = m.block
           /\ Taken(m).pending = HandedOver(m)
           /\ Taken(m).pc = cl.pc /\ Taken(m).blksize = cl.blksize
           /\ Taken(m).windowsize = cl.windowsize
           /\ Taken(m).pos = cl.pos /\ Taken(m).broken = cl.broken
<1> DEFINE budget == Greater(cfg.retries, 1)
           next == cl.expected + 1
           write == HandedOver(m)
<1>1. budget \in Nat /\ next \in Nat \ {0}
  BY ConfigTypes DEF ClientStates
<1>2. write \in Writes
  BY DEF HandedOver, Writes, ClientStates
<1>3. Taken(m) = [cl EXCEPT !.retries = budget, !.server = m.from, !.expected = next,
                            !.lastAcked = m.block, !.pending = write]
  BY DEF Taken, Heard, ClientStates
<1> HIDE DEF budget, write
<1> QED BY <1>1, <1>2, <1>3 DEF ClientStates, next, write

\* Whatever DATA arrives, only counted blocks are acknowledged.
LEMMA DataKeeps ==
    ASSUME GetInv, net[ClientPort] # <<>>, ReceiveData(Head(net[ClientPort]))
    PROVE  ClientKeeps
<1> DEFINE m == Head(net[ClientPort])
           q == Received(net, ClientPort)
<1>1. /\ net \in [Ports -> Seq(AckedBefore(cl.expected))]
      /\ cl \in ClientStates /\ cfg \in Configs /\ open \subseteq Ports
      /\ out \in Seq(Nat) /\ cl.lastAcked < cl.expected
  BY DEF GetInv, AckBound, ClientOK, SurroundingsOK
<1>2. /\ q \in [Ports -> Seq(AckedBefore(cl.expected))]
      /\ m \in AckedBefore(cl.expected)
      /\ cl.pc = "recv" /\ m.type = "DATA"
  BY <1>1, ReceivedKeepsPackets, PortsAreDistinct DEF ReceiveData
<1>3. /\ cl.expected \in Nat /\ cl.expected > 0 /\ cl.lastAcked \in Blocks
      /\ cl.pos \in Nat /\ cl.retries \in Nat /\ Greater(cfg.retries, 1) \in Nat
  BY <1>1, ConfigTypes DEF ClientStates
<1>4. /\ m.from \in Ports /\ m.block \in Blocks /\ m.block \in Nat
      /\ m.off \in Nat /\ m.len \in Nat
  <2>1. m.from \in Ports /\ m.block \in Blocks /\ m.off \in Nat /\ m.len \in Nat
    BY <1>2, <1>3, PacketFields
  <2>2. Blocks \subseteq Nat
    BY PacketsAssumption DEF Blocks
  <2> QED BY <2>1, <2>2
<1>5. ASSUME NEW b \in Blocks, NEW e \in Nat, b < e, cl.expected <= e
      PROVE  /\ q \in [Ports -> Seq(AckedBefore(e))]
             /\ Sent(q, m.from, Ack(ClientPort, b)) \in [Ports -> Seq(AckedBefore(e))]
  <2>1. q \in [Ports -> Seq(AckedBefore(e))]
    BY <1>2, <1>3, <1>5, AckedBeforeGrows
  <2>2. Ack(ClientPort, b) \in AckedBefore(e)
    BY <1>5, PacketsBuilt
  <2> QED BY <1>4, <2>1, <2>2, SentKeepsPackets
<1> HIDE DEF m
<1>6. ASSUME NEW b \in Blocks, b < cl.expected, Acknowledge(m, b)
      PROVE  ClientKeeps
  <2>1. net' = Sent(q, m.from, Ack(ClientPort, b))
    BY <1>6 DEF Acknowledge
  <2>2. net' \in [Ports -> Seq(AckedBefore(cl.expected))]
    BY <1>3, <1>5, <1>6, <2>1
  <2> DEFINE budget == Greater(cfg.retries, 1)
  <2>3. cl' = [[cl EXCEPT !.retries = budget, !.server = m.from] EXCEPT !.lastAcked = b]
    BY <1>6 DEF Acknowledge, Heard
  <2>4. budget \in Nat
    BY <1>3
  <2> HIDE DEF budget, q
  <2>5. /\ cl' \in ClientStates /\ cl'.expected = cl.expected
        /\ cl'.lastAcked = b /\ cl'.pc = "recv"
    BY <1>1, <1>2, <1>4, <2>3, <2>4 DEF ClientStates
  <2> QED
    BY <1>1, <1>6, <2>2, <2>5
    DEF Acknowledge, ClientKeeps, ClientOK, AckBound
<1>7. CASE OldData(m)
  BY <1>3, <1>4, <1>6, <1>7, PacketsAssumption, <1>1 DEF OldData, Blocks
<1>8. CASE GapData(m)
  <2>1. cl.expected - 1 \in Blocks
    BY <1>3, <1>4, <1>8, PacketsAssumption DEF GapData, Blocks
  <2> QED BY <1>3, <1>6, <1>8, <2>1 DEF GapData
<1>9. CASE NextData(m)
  <2> DEFINE next == cl.expected + 1
             acked == Sent(q, m.from, Ack(ClientPort, m.block))
  <2>1. m.block = cl.expected /\ UNCHANGED <<cfg, out>>
    BY <1>9 DEF NextData
  <2>2. CASE Return(q, "io")
    BY <1>2, <2>1, <2>2, ReturnKeeps DEF ClientDone, ClientFailed
  <2>3. next \in Nat \ {0} /\ m.block < next
    BY <1>3, <2>1
  <2>4. /\ q \in [Ports -> Seq(AckedBefore(next))]
        /\ acked \in [Ports -> Seq(AckedBefore(next))]
    BY <1>3, <1>4, <1>5, <2>1, <2>3
  <2>5. /\ Taken(m) \in ClientStates /\ Taken(m).expected = next
        /\ Taken(m).lastAcked = m.block /\ Taken(m).pc = "recv"
    BY <1>1, <1>2, <1>3, <1>4, TakenFacts
  <2> HIDE DEF acked, q, next
  <2>6. CASE /\ cl' = [Taken(m) EXCEPT !.pc = "ok"]
             /\ net' = Closed(acked, ClientPort)
             /\ open' = open \ {ClientPort}
    <3>1. /\ cl' \in ClientStates /\ cl'.expected = next
          /\ cl'.lastAcked = m.block /\ cl'.pc = "ok"
      BY <2>5, <2>6 DEF ClientStates, ClientDone
    <3>2. net' \in [Ports -> Seq(AckedBefore(next))]
      BY <2>4, <2>6, ClosedKeepsPackets, PortsAreDistinct
    <3> QED BY <1>1, <2>1, <2>3, <2>6, <3>1, <3>2 DEF ClientKeeps, ClientOK, AckBound
  <2>7. CASE cl' = Taken(m) /\ net' \in {acked, q} /\ UNCHANGED open
    BY <1>1, <2>1, <2>3, <2>4, <2>5, <2>7 DEF ClientKeeps, ClientOK, AckBound
  <2> QED BY <1>9, <2>2, <2>6, <2>7 DEF NextData, acked, q
<1> QED BY <1>7, <1>8, <1>9 DEF ReceiveData, m

LEMMA OtherKeeps ==
    ASSUME GetInv, net[ClientPort] # <<>>, ReceiveOther(Head(net[ClientPort]))
    PROVE  ClientKeeps
<1>1. net \in [Ports -> Seq(AckedBefore(cl.expected))]
  BY DEF GetInv, AckBound
<1>2. Received(net, ClientPort) \in [Ports -> Seq(AckedBefore(cl.expected))]
  BY <1>1, ReceivedKeepsPackets, PortsAreDistinct
<1>3. \E result \in {"remote", "protocol"} :
          Return(Received(net, ClientPort), result)
  BY DEF ReceiveOther
<1> QED
  BY <1>2, <1>3, ReturnKeeps DEF ReceiveOther, ClientDone, ClientFailed

\* The timeout repeats an ACK that was sent before.
LEMMA TimeoutKeeps ==
    ASSUME GetInv, ReceiveTimeout
    PROVE  ClientKeeps
<1>1. /\ net \in [Ports -> Seq(AckedBefore(cl.expected))]
      /\ cl \in ClientStates /\ cl.lastAcked < cl.expected /\ open \subseteq Ports
  BY DEF GetInv, AckBound, ClientOK, SurroundingsOK
<1>2. CASE Return(net, "timeout")
  BY <1>1, <1>2, ReturnKeeps DEF ReceiveTimeout, ClientDone, ClientFailed
<1>3. CASE /\ cl.retries > 0
           /\ cl' = [cl EXCEPT !.retries = @ - 1]
           /\ net' = Sent(net, cl.server, Ack(ClientPort, cl.lastAcked))
           /\ UNCHANGED open
  <2> DEFINE left == cl.retries - 1
  <2>1. /\ left \in Nat /\ cl.lastAcked \in Blocks /\ cl.server \in Ports
        /\ cl.expected \in Nat
    BY <1>1, <1>3 DEF ClientStates
  <2>2. Ack(ClientPort, cl.lastAcked) \in AckedBefore(cl.expected)
    BY <1>1, <2>1, PacketsBuilt
  <2>3. net' \in [Ports -> Seq(AckedBefore(cl.expected))]
    BY <1>1, <1>3, <2>1, <2>2, SentKeepsPackets
  <2>4. cl' = [cl EXCEPT !.retries = left]
    BY <1>3
  <2> HIDE DEF left
  <2>5. /\ cl' \in ClientStates /\ cl'.expected = cl.expected
        /\ cl'.lastAcked = cl.lastAcked /\ cl'.pc = "recv"
    BY <1>1, <2>1, <2>4 DEF ClientStates, ReceiveTimeout
  <2> QED BY <1>1, <1>3, <2>3, <2>5, ClientPasses DEF ReceiveTimeout
<1> QED BY <1>2, <1>3 DEF ReceiveTimeout

\* The pending write is done: the counters and the sockets stay as they are.
LEMMA LandKeeps ==
    ASSUME GetInv, Land
    PROVE  /\ ClientKeeps /\ UNCHANGED <<cfg, net, open>>
           /\ cl'.pc = cl.pc /\ cl'.expected = cl.expected
           /\ cl'.blksize = cl.blksize /\ cl'.windowsize = cl.windowsize
<1>1. /\ cl \in ClientStates /\ room \in Nat /\ out \in Seq(Nat)
      /\ cl.pending.off \in Nat /\ cl.pending.len \in Nat /\ cl.pos \in Nat
  BY GetClientAssumption
  DEF GetInv, ClientOK, SurroundingsOK, ClientStates, Writes
<1> DEFINE n == Lesser(cl.pending.len, Greater(0, room - cl.pos))
           end == cl.pos + n
           cut == n < cl.pending.len
<1>2. /\ out' = Written(out, cl.pos, cl.pending.off, n)
      /\ cl' = [cl EXCEPT !.pending = NoWrite, !.pos = end, !.broken = cut]
      /\ n \in Nat /\ end \in Nat /\ cut \in BOOLEAN
  BY <1>1 DEF Land
<1> HIDE DEF n, end, cut
<1>3. out' \in Seq(Nat)
  BY <1>1, <1>2, WrittenIsFile
<1>4. NoWrite \in Writes
  BY DEF NoWrite, Writes
<1>5. /\ cl' \in ClientStates /\ cl'.expected = cl.expected
      /\ cl'.lastAcked = cl.lastAcked /\ cl'.pc = cl.pc
      /\ cl'.blksize = cl.blksize /\ cl'.windowsize = cl.windowsize
  BY <1>1, <1>2, <1>4 DEF ClientStates
<1>6. UNCHANGED <<cfg, net, open>>
  BY DEF Land
<1> QED
  BY <1>3, <1>5, <1>6
  DEF GetInv, ClientOK, SurroundingsOK, ClientKeeps, AckBound

LEMMA TimersInBudget ==
    ASSUME GetInv, NEW due \in BOOLEAN, TimerFires(due)
    PROVE  faults' \in 0..MaxFaults
BY NetworkAssumption DEF TimerFires, Fault, GetInv, SurroundingsOK

LEMMA ClientInvariant ==
    ASSUME GetInv, Client \/ ClientTimer \/ Writer
    PROVE  GetInv'
<1>1. ClientKeeps
  BY NegotiationKeeps, ReplyKeeps, DataKeeps, OtherKeeps, TimeoutKeeps, LandKeeps
  DEF Client, ClientTimer, Writer, ClientStep, ClientTimeout, WriteDone, ClientReceive
<1>2. faults' \in 0..MaxFaults
  <2>1. ClientTimerDue \in BOOLEAN
    BY DEF ClientTimerDue
  <2> QED BY <2>1, TimersInBudget DEF Client, ClientTimer, Writer, GetInv, SurroundingsOK
<1>3. ServerOK'
  BY DEF Client, ClientTimer, Writer, GetInv, ServerOK, serverVars
<1>4. UNCHANGED room
  BY DEF Client, ClientTimer, Writer, ClientStep, ClientTimeout, WriteDone
<1> QED BY <1>1, <1>2, <1>3, <1>4 DEF ClientKeeps, GetInv, SurroundingsOK

-----------------------------------------------------------------------------
(* The server's steps: they send no ACK, and leave the client alone. *)

\* What a step of the server must keep.
ServerKeeps ==
    /\ ServerOK' /\ open' \subseteq Ports
    /\ net' \in [Ports -> Seq(AckedBefore(cl.expected))]

LEMMA EndKeeps ==
    ASSUME GetInv, NEW s \in Sessions, NEW result \in SessionDone,
           NEW q \in [Ports -> Seq(AckedBefore(cl.expected))],
           EndSession(q, s, result)
    PROVE  ServerKeeps
<1>1. sess' \in [Sessions -> SessionStates]
  BY DEF EndSession, GetInv, ServerOK, SessionStates
<1>2. net' \in [Ports -> Seq(AckedBefore(cl.expected))]
  BY ClosedKeepsPackets, PortsAreDistinct DEF EndSession
<1> QED
  BY <1>1, <1>2 DEF EndSession, GetInv, ServerOK, ServerKeeps, SurroundingsOK

LEMMA SpawnKeeps ==
    ASSUME GetInv, NEW s \in Sessions, Spawn(s)
    PROVE  ServerKeeps
<1> DEFINE m == Head(net[ListenPort])
<1>1. /\ net \in [Ports -> Seq(AckedBefore(cl.expected))] /\ cl.expected \in Nat
      /\ net[ListenPort] # <<>> /\ m.type = "RRQ"
  BY DEF GetInv, AckBound, Spawn, ClientOK, ClientStates
<1>2. /\ Received(net, ListenPort) \in [Ports -> Seq(AckedBefore(cl.expected))]
      /\ m \in AckedBefore(cl.expected)
  BY <1>1, ReceivedKeepsPackets, PortsAreDistinct
<1>3. Granted(m.options) \in Negotiations
  BY <1>1, <1>2, PacketFields, GrantedIsLegal
<1>4. sess' \in [Sessions -> SessionStates]
  <2> DEFINE granted == Granted(m.options)
  <2>1. sess' = [sess EXCEPT ![s].pc = "spawned", ![s].neg = granted]
    BY DEF Spawn
  <2>2. granted \in Negotiations
    BY <1>3
  <2> HIDE DEF granted
  <2> QED BY <2>1, <2>2 DEF GetInv, ServerOK, SessionStates
<1> QED
  BY <1>2, <1>4 DEF Spawn, GetInv, ServerOK, ServerKeeps, SurroundingsOK

\* The steps of a session before its first DATA.
LEMMA OpeningKeeps ==
    ASSUME GetInv, NEW s \in Sessions, RefusePath(s) \/ RefuseFile(s) \/ SendOack(s)
    PROVE  ServerKeeps
<1>1. /\ net \in [Ports -> Seq(AckedBefore(cl.expected))] /\ cl.expected \in Nat
      /\ sess \in [Sessions -> SessionStates] /\ served \in FileStates
  BY ReadServerAssumption
  DEF GetInv, AckBound, ClientOK, ClientStates, ServerOK
<1>2. CASE RefusePath(s)
  BY <1>1, <1>2, EndKeeps DEF RefusePath, SessionDone
<1>3. CASE RefuseFile(s)
  <2>1. Sent(net, ClientPort, Error(s)) \in [Ports -> Seq(AckedBefore(cl.expected))]
    BY <1>1, PacketsBuilt, SentKeepsPackets, PortsAreDistinct
  <2> QED BY <1>3, <2>1, EndKeeps DEF RefuseFile, SessionDone
<1>4. CASE SendOack(s)
  <2>1. sess[s].neg \in Negotiations /\ served.len \in Nat
    BY <1>1 DEF SessionStates, FileStates
  <2>2. Oack(s, OackOptions(sess[s].neg, served.len)) \in AckedBefore(cl.expected)
    BY <1>1, <2>1, PacketsBuilt
  <2>3. net' \in [Ports -> Seq(AckedBefore(cl.expected))]
    BY <1>1, <1>4, <2>2, SentKeepsPackets, PortsAreDistinct DEF SendOack
  <2>4. sess' \in [Sessions -> SessionStates]
    BY <1>1, <1>4 DEF SendOack, SessionStates, SessionRuns
  <2> QED
    BY <1>4, <2>3, <2>4, PortsAreDistinct
    DEF SendOack, GetInv, ServerOK, ServerKeeps, SurroundingsOK
<1> QED BY <1>2, <1>3, <1>4

LEMMA SendBlockKeeps ==
    ASSUME GetInv, NEW s \in Sessions, NEW n \in Nat, NEW b \in Blocks,
           NEW pc \in SessionRuns, SendBlock(s, n, pc, b)
    PROVE  ServerKeeps
<1>1. /\ net \in [Ports -> Seq(AckedBefore(cl.expected))] /\ cl.expected \in Nat
      /\ sess \in [Sessions -> SessionStates]
      /\ sess[s].block \in Blocks /\ sess[s].rpos \in Nat
  BY DEF GetInv, AckBound, ClientOK, ClientStates, ServerOK, SessionStates
<1>2. Data(s, sess[s].block, sess[s].rpos, n) \in AckedBefore(cl.expected)
  BY <1>1, PacketsBuilt
<1>3. net' \in [Ports -> Seq(AckedBefore(cl.expected))]
  BY <1>1, <1>2, SentKeepsPackets, PortsAreDistinct DEF SendBlock
<1>4. sess' \in [Sessions -> SessionStates]
  <2> DEFINE pos == sess[s].rpos + n
  <2>1. sess' = [sess EXCEPT ![s].pc = pc, ![s].block = b, ![s].rpos = pos]
    BY <1>1 DEF SendBlock, SessionStates
  <2>2. pos \in Nat
    BY <1>1
  <2> HIDE DEF pos
  <2> QED BY <1>1, <2>1, <2>2 DEF SessionStates
<1> QED
  BY <1>3, <1>4 DEF SendBlock, GetInv, ServerOK, ServerKeeps, SurroundingsOK

LEMMA NextBlockIsBlock ==
    ASSUME NEW b \in Blocks
    PROVE  NextBlock(b) \in Blocks
<1>1. b + 1 \in Nat /\ BlockMod \in Nat /\ BlockMod > 0
  BY PacketsAssumption DEF Blocks
<1>2. (b + 1) % BlockMod \in 0..(BlockMod - 1)
  BY <1>1, ModFacts, Zenon
<1> QED BY <1>2 DEF NextBlock, Blocks

LEMMA SendingKeeps ==
    ASSUME GetInv, NEW s \in Sessions, SendData(s) \/ SendEmptyBlock(s)
    PROVE  ServerKeeps
<1>1. /\ net \in [Ports -> Seq(AckedBefore(cl.expected))] /\ cl.expected \in Nat
      /\ sess \in [Sessions -> SessionStates] /\ served \in FileStates
      /\ sess[s].block \in Blocks /\ sess[s].rpos \in Nat
      /\ sess[s].neg.blksize \in Nat /\ served.len \in Nat
  BY ReadServerAssumption
  DEF GetInv, AckBound, ClientOK, ClientStates, ServerOK, SessionStates,
      Negotiations, FileStates
<1>2. CASE SendData(s)
  <2> DEFINE n == Lesser(sess[s].neg.blksize, served.len - sess[s].rpos)
             b == sess[s].block
  <2>1. n \in Nat
    BY <1>1, <1>2 DEF SendData
  <2>2. CASE \E pc \in {"waitLast", "wait"} : SendBlock(s, n, pc, b)
    BY <1>1, <2>1, <2>2, SendBlockKeeps DEF SessionRuns, SessionWaits
  <2>3. CASE SendBlock(s, n, "send", NextBlock(b))
    BY <1>1, <2>1, <2>3, SendBlockKeeps, NextBlockIsBlock DEF SessionRuns
  <2>4. CASE EndSession(Sent(net, ClientPort, Data(s, b, sess[s].rpos, n)), s, "ok")
    <3>1. Data(s, b, sess[s].rpos, n) \in AckedBefore(cl.expected)
      BY <1>1, <2>1, PacketsBuilt
    <3>2. Sent(net, ClientPort, Data(s, b, sess[s].rpos, n))
              \in [Ports -> Seq(AckedBefore(cl.expected))]
      BY <1>1, <3>1, SentKeepsPackets, PortsAreDistinct
    <3> QED BY <2>4, <3>2, EndKeeps DEF SessionDone
  <2> QED BY <1>2, <2>2, <2>3, <2>4 DEF SendData
<1>3. CASE SendEmptyBlock(s)
  BY <1>1, <1>3, SendBlockKeeps DEF SendEmptyBlock, SessionRuns, SessionWaits
<1> QED BY <1>2, <1>3

LEMMA TakeAckKeeps ==
    ASSUME GetInv, NEW s \in Sessions, net[s] # <<>>, TakeAck(s, Head(net[s]))
    PROVE  ServerKeeps
<1> DEFINE q == Received(net, s)
           b == sess[s].block
<1>1. /\ net \in [Ports -> Seq(AckedBefore(cl.expected))]
      /\ sess \in [Sessions -> SessionStates] /\ b \in Blocks
  BY DEF GetInv, AckBound, ServerOK, SessionStates
<1>2. q \in [Ports -> Seq(AckedBefore(cl.expected))]
  BY <1>1, ReceivedKeepsPackets, PortsAreDistinct
<1> HIDE DEF q
<1>3. CASE \E result \in {"ok", "failed"} : EndSession(q, s, result)
  BY <1>2, <1>3, EndKeeps DEF SessionDone
<1>4. CASE /\ net' = q
           /\ sess' = [sess EXCEPT ![s].pc = "send", ![s].block = NextBlock(b)]
           /\ UNCHANGED <<served, open>>
  <2> DEFINE next == NextBlock(b)
  <2>1. next \in Blocks
    BY <1>1, NextBlockIsBlock
  <2>2. sess' = [sess EXCEPT ![s].pc = "send", ![s].block = next]
    BY <1>4
  <2> HIDE DEF next
  <2>3. sess' \in [Sessions -> SessionStates]
    BY <1>1, <2>1, <2>2 DEF SessionStates, SessionRuns
  <2> QED
    BY <1>2, <1>4, <2>3 DEF GetInv, ServerOK, ServerKeeps, SurroundingsOK
<1>5. CASE net' = q /\ UNCHANGED <<served, sess, open>>
  BY <1>2, <1>5 DEF GetInv, ServerOK, ServerKeeps, SurroundingsOK
<1> QED BY <1>3, <1>4, <1>5 DEF TakeAck, q, b

LEMMA EndingKeeps ==
    ASSUME GetInv, NEW s \in Sessions, SessionTimeout(s) \/ PeerGone(s)
    PROVE  ServerKeeps
<1>1. net \in [Ports -> Seq(AckedBefore(cl.expected))]
  BY DEF GetInv, AckBound
<1>2. \E result \in {"ok", "failed"} : EndSession(net, s, result)
  BY DEF SessionTimeout, PeerGone
<1> QED BY <1>1, <1>2, EndKeeps DEF SessionDone

LEMMA ServerInvariant ==
    ASSUME GetInv, NEW s \in Sessions,
           \/ Session(s) \/ SessionTimer(s) \/ Refused(s)
           \/ Spawn(s) /\ UNCHANGED <<getVars, faults>>
    PROVE  GetInv'
<1>1. ServerKeeps
  BY OpeningKeeps, SendingKeeps, TakeAckKeeps, EndingKeeps, SpawnKeeps
  DEF Session, SessionTimer, Refused, SessionStep
<1>2. faults' \in 0..MaxFaults
  <2>1. SessionTimerDue(s) \in BOOLEAN
    BY DEF SessionTimerDue
  <2> QED
    BY <2>1, TimersInBudget DEF Session, SessionTimer, Refused, GetInv, SurroundingsOK
<1>3. UNCHANGED <<cfg, room, cl, out>>
  BY DEF Session, SessionTimer, Refused, getVars
<1> QED
  BY <1>1, <1>2, <1>3 DEF ServerKeeps, GetInv, ClientOK, AckBound, SurroundingsOK

LEMMA NetworkInvariant ==
    ASSUME GetInv, Network
    PROVE  GetInv'
<1>1. /\ net' \in [Ports -> Seq(AckedBefore(cl.expected))] /\ UNCHANGED open
      /\ faults' = faults + 1 /\ faults < MaxFaults
  BY FaultKeepsPackets DEF GetInv, AckBound, Network
<1>2. UNCHANGED <<cfg, room, cl, out, served, sess>>
  BY DEF Network, getVars, serverVars
<1> QED
  BY <1>1, <1>2, NetworkAssumption
  DEF GetInv, ClientOK, ServerOK, SurroundingsOK, AckBound

-----------------------------------------------------------------------------
LEMMA GetInvInit == Init => GetInv
<1> SUFFICES ASSUME Init PROVE GetInv
  OBVIOUS
<1>1. cfg \in Configs /\ cfg.blksize \in Nat /\ cfg.windowsize \in Nat
  BY ConfigTypes DEF Init, ClientInit
<1>2. ClientOK
  BY <1>1, OldIsFile, TftpGetAssumption, PacketsAssumption, PortsAreDistinct
  DEF Init, ClientInit, ClientOK, ClientStates, Blocks, Writes, NoWrite
<1>3. ServerOK
  <2>1. defaults \in Negotiations
    BY OptionsAssumption DEF defaults, Negotiations
  <2> QED
    BY <2>1, PacketsAssumption
    DEF Init, ServerInit, ServerOK, SessionStates, Blocks
<1>4. SurroundingsOK
  BY PortsAreDistinct, NetworkAssumption DEF Init, NetInit, ClientInit, SurroundingsOK
<1>5. AckBound
  <2>1. <<>> \in Seq(AckedBefore(1))
    OBVIOUS
  <2> QED BY <2>1 DEF Init, NetInit, ClientInit, AckBound
<1> QED BY <1>2, <1>3, <1>4, <1>5 DEF GetInv

LEMMA GetInvNext == GetInv /\ [Next]_vars => GetInv'
<1> SUFFICES ASSUME GetInv, [Next]_vars PROVE GetInv'
  OBVIOUS
<1>1. CASE Client \/ ClientTimer \/ Writer
  BY <1>1, ClientInvariant
<1>2. CASE Listener
  BY <1>2, ServerInvariant DEF Listener
<1>3. CASE \E s \in Sessions : Session(s) \/ SessionTimer(s) \/ Refused(s)
  BY <1>3, ServerInvariant
<1>4. CASE Network
  BY <1>4, NetworkInvariant
<1>5. CASE UNCHANGED vars
  BY <1>5 DEF vars, GetInv, ClientOK, ServerOK, SurroundingsOK, AckBound
<1> QED BY <1>1, <1>2, <1>3, <1>4, <1>5 DEF Next

LEMMA GetInvHolds == Spec => []GetInv
BY GetInvInit, GetInvNext, PTL DEF Spec

\* Every variable of a GET keeps its type, and every datagram is one that the
\* code of its sender builds.
THEOREM GetTypes == Spec => []TypeOK
<1>1. GetInv => TypeOK
  <2> SUFFICES ASSUME GetInv PROVE TypeOK
    OBVIOUS
  <2>1. AckedBefore(cl.expected) \subseteq GetPackets
    BY DEF AckedBefore
  <2>2. net \in [Ports -> Seq(GetPackets)]
    BY <2>1, QueuesMonotonic DEF GetInv, AckBound
  <2> QED BY <2>2 DEF GetInv, ClientOK, ServerOK, SurroundingsOK, TypeOK
<1> QED BY <1>1, GetInvHolds, PTL

-----------------------------------------------------------------------------
(* A GET keeps the promise of FileCopy.  The argument needs three things.  The
   client's block size must be legal, so that both ends work with it from the first
   datagram on.  The transfer must start at the first block.  And either the
   transfer is in lockstep, or the file has fewer blocks than there are block
   numbers: a window that goes on across the wrap of the block numbers can take one
   block for another. *)

\* What both ends settle on, the block size, and the length of the file.
SettledFor(c) == Granted(RequestOptions(c, NoSize))
Settled == SettledFor(cfg)
B == Settled.blksize
L == served.len

Plain == cfg.resume = 0 /\ cfg.blksize \in MinBlock..MaxBlock
Lockstep == Settled.windowsize = 1
Safe == Plain /\ (Lockstep \/ NoWrap)

-----------------------------------------------------------------------------
\* DATA packet m carries the block that its number says of a file of len bytes.
Rightful(m, blksize, len) ==
    /\ m.block > 0
    /\ m.off = (m.block - 1) * blksize /\ m.off <= len
    /\ m.len = Lesser(blksize, len - m.off)

\* What may be under way when the client c expects block e of that file: from
\* block number BlockMod on it takes no DATA for the expected one any more.
HonestPackets(c, len, e) ==
    {m \in AckedBefore(e) :
        /\ m.type = "RRQ" => m.options = RequestOptions(c, NoSize)
        /\ m.type = "OACK" => m.options = OackOptions(SettledFor(c), len)
        /\ m.type = "DATA" =>
               Rightful(m, SettledFor(c).blksize, len) \/ e >= BlockMod}

\* What the client has counted lies within the file.
Counted == (cl.expected - 1) * B <= L

\* The file holds the source as far as the write position.  What has been handed over
\* beyond that is the pending write, or the failed one, and a part of one block.
Held ==
    /\ cl.pc \in {"recv", "ok"} \/ cl.expected > 1 => out = SourceFile(cl.pos)
    /\ ~cl.broken => cl.pos + cl.pending.len = Handed
    /\ cl.broken => cl.pending = NoWrite /\ cl.pos < Handed
    /\ cl.pending # NoWrite => cl.pending.off = cl.pos
    /\ AllButLast(Handed, B) <= cl.pos

ClientCopies ==
    /\ cl.blksize = B
    /\ cl.pc # "ok" => Counted
    /\ cl.pc = "ok" => ~Counted
    /\ Held

\* A session's block number and read position belong together.
InStep(s) ==
    /\ sess[s].block > 0
    /\ sess[s].pc = "send" =>
           sess[s].rpos = (sess[s].block - 1) * B /\ sess[s].rpos <= L
    /\ sess[s].pc = "wait" => sess[s].rpos = sess[s].block * B /\ sess[s].rpos <= L
    /\ sess[s].pc = "waitLast" =>
           (sess[s].block - 1) * B < L /\ L < sess[s].block * B
    /\ sess[s].pc = "waitEof" => (sess[s].block - 1) * B = L

SessionCopies(s) ==
    /\ sess[s].pc # "free" => sess[s].neg = Settled
    /\ sess[s].pc \in {"free", "spawned"} => sess[s].block = 1 /\ sess[s].rpos = 0
    /\ sess[s].pc \in SessionRuns => InStep(s) \/ cl.expected >= BlockMod
    /\ sess[s].pc = "waitEmpty" => L = 0
    /\ sess[s].pc = "ok" /\ L % B # 0 /\ NoWrap => cl.pc = "ok"

CopyInv ==
    Safe =>
        /\ ClientCopies
        /\ \A s \in Sessions : SessionCopies(s)
        /\ net \in [Ports -> Seq(HonestPackets(cfg, L, cl.expected))]

-----------------------------------------------------------------------------
(* Facts about the parts *)

LEMMA SettledFacts ==
    ASSUME GetInv
    PROVE  /\ Settled \in Negotiations /\ Legal(Settled)
           /\ B \in Nat /\ B > 0 /\ L \in Nat
           /\ Plain => cfg.blksize = B
<1> DEFINE r == RequestOptions(cfg, NoSize)
<1>1. cfg \in Configs /\ served \in FileStates
  BY ReadServerAssumption DEF GetInv, ClientOK, ServerOK
<1>2. IsOptionSet(r) /\ "blksize" \in DOMAIN r /\ r["blksize"] = cfg.blksize
  BY <1>1, ConfigTypes, RequestCarriesConfig
<1>3. Settled = Granted(r)
  BY DEF Settled, SettledFor
<1> HIDE DEF r
<1>4. Settled \in Negotiations /\ Legal(Settled)
  BY <1>2, <1>3, GrantedIsLegal
<1>5. B \in Nat /\ B > 0
  BY <1>4, OptionsAssumption DEF B, Legal, Negotiations
<1>6. L \in Nat
  BY <1>1 DEF L, FileStates
<1>7. ASSUME Plain PROVE cfg.blksize = B
  <2>1. cfg.blksize \in MinBlock..MaxBlock /\ cfg.blksize < U16
    BY <1>1, <1>7, ConfigTypes, OptionsAssumption DEF Plain
  <2>2. apply_oack(defaults, r).blksize = cfg.blksize
    BY <1>2, <2>1 DEF apply_oack, U16Option
  <2> QED BY <1>3, <2>1, <2>2 DEF B, Granted, clamp_negotiation
<1> QED BY <1>4, <1>5, <1>6, <1>7

\* Whichever way the client enters its loop, it works with the settled block size.
LEMMA AdoptsSettled ==
    ASSUME GetInv, Plain
    PROVE  /\ InitialNegotiation(cfg).blksize = B
           /\ apply_oack(InitialNegotiation(cfg),
                         OackOptions(Settled, L)).blksize = B
<1>1. cfg \in Configs
  BY DEF GetInv, ClientOK
<1>2. L \in Nat \cup {NoSize} /\ NoSize \in Nat \cup {NoSize}
  BY SettledFacts
<1>3. apply_oack(InitialNegotiation(cfg), OackOptions(Settled, L)).blksize
          = Settled.blksize
  BY <1>1, <1>2, ConfigTypes, AdoptedAgrees DEF Settled, SettledFor
<1> QED BY <1>3, SettledFacts DEF B, InitialNegotiation

LEMMA HonestGrows ==
    ASSUME NEW c, NEW len, NEW d \in Nat, NEW e \in Nat, d <= e,
           NEW q \in [Ports -> Seq(HonestPackets(c, len, d))]
    PROVE  q \in [Ports -> Seq(HonestPackets(c, len, e))]
<1>1. HonestPackets(c, len, d) \subseteq HonestPackets(c, len, e)
  <2> SUFFICES ASSUME NEW m \in HonestPackets(c, len, d)
               PROVE  m \in HonestPackets(c, len, e)
    OBVIOUS
  <2>1. m \in AckedBefore(e)
    <3>1. m \in AckedBefore(d)
      BY DEF HonestPackets
    <3>2. m.type = "ACK" => m.block \in Blocks /\ m.block < d
      BY <3>1, PacketFields
    <3> QED BY <3>1, <3>2, PacketsAssumption DEF AckedBefore, Blocks
  <2>2. d >= BlockMod => e >= BlockMod
    BY PacketsAssumption
  <2> QED BY <2>1, <2>2 DEF HonestPackets
<1> QED BY <1>1, QueuesMonotonic

\* ACKs and ERRORs are always honest.
LEMMA PlainPacketsAreHonest ==
    ASSUME NEW c, NEW len, NEW e \in Nat, NEW m \in AckedBefore(e),
           m.type \in {"ACK", "ERROR"}
    PROVE  m \in HonestPackets(c, len, e)
BY DEF HonestPackets

-----------------------------------------------------------------------------
(* The client's steps *)

\* What a step of the client must keep.
CopyKeeps ==
    /\ ClientCopies'
    /\ net' \in [Ports -> Seq(HonestPackets(cfg, L, cl'.expected))]
    /\ cl'.expected >= cl.expected
    /\ cl.pc = "ok" => cl'.pc = "ok"

\* A step that takes no block, and writes nothing.
LEMMA CopyPasses ==
    ASSUME GetInv, ClientCopies, UNCHANGED <<cfg, served, out>>,
           cl'.expected = cl.expected, cl'.blksize = cl.blksize, cl'.pos = cl.pos,
           cl'.pending = cl.pending, cl'.broken = cl.broken,
           cl.pc # "ok" /\ cl'.pc # "ok", cl'.pc = "recv" => cl.pc = "recv",
           net' \in [Ports -> Seq(HonestPackets(cfg, L, cl.expected))]
    PROVE  CopyKeeps
<1>1. cl.expected \in Nat
  BY DEF GetInv, ClientOK, ClientStates
<1>2. B' = B /\ L' = L
  BY DEF B, L, Settled
<1>3. Handed' = Handed
  BY DEF Handed
<1> QED
  BY <1>1, <1>2, <1>3 DEF CopyKeeps, ClientCopies, Counted, Held

LEMMA CopyReturns ==
    ASSUME GetInv, ClientCopies, cl.pc \in {"start", "await", "backoff", "recv"},
           NEW q \in [Ports -> Seq(HonestPackets(cfg, L, cl.expected))],
           NEW result \in ClientFailed, Return(q, result),
           UNCHANGED <<cfg, served, out>>
    PROVE  CopyKeeps
<1>1. /\ cl'.pc = result /\ cl'.expected = cl.expected /\ cl'.blksize = cl.blksize
      /\ cl'.pos = cl.pos /\ cl'.pending = cl.pending /\ cl'.broken = cl.broken
  BY DEF Return, GetInv, ClientOK, ClientStates
<1>2. net' \in [Ports -> Seq(HonestPackets(cfg, L, cl.expected))]
  BY ClosedKeepsPackets, PortsAreDistinct DEF Return
<1> QED BY <1>1, <1>2, CopyPasses DEF ClientFailed

LEMMA CopyNegotiation ==
    ASSUME GetInv, ClientCopies, UNCHANGED served,
           net \in [Ports -> Seq(HonestPackets(cfg, L, cl.expected))],
           SendRequest \/ NoAttempt \/ RequestTimeout
    PROVE  CopyKeeps
<1>1. cl \in ClientStates /\ cfg \in Configs /\ cl.expected \in Nat
  BY DEF GetInv, ClientOK, ClientStates
<1>2. CASE SendRequest
  <2> DEFINE m == Rrq(ClientPort, RequestOptions(cfg, NoSize))
  <2>1. m \in AckedBefore(cl.expected)
    BY <1>1, PacketsBuilt
  <2>2. m \in HonestPackets(cfg, L, cl.expected)
    BY <2>1 DEF HonestPackets, Rrq
  <2>3. net' \in [Ports -> Seq(HonestPackets(cfg, L, cl.expected))]
    BY <1>2, <2>2, SentKeepsPackets, PortsAreDistinct DEF SendRequest
  <2>4. /\ cl'.pc = "await" /\ cl'.expected = cl.expected /\ cl'.blksize = cl.blksize
        /\ cl'.pos = cl.pos /\ cl'.pending = cl.pending /\ cl'.broken = cl.broken
    BY <1>1, <1>2 DEF SendRequest, ClientStates
  <2> QED BY <1>2, <2>3, <2>4, CopyPasses DEF SendRequest
<1>3. CASE NoAttempt
  BY <1>3, CopyReturns DEF NoAttempt, ClientFailed
<1>4. CASE RequestTimeout
  <2>1. CASE Return(net, "protocol")
    BY <1>4, <2>1, CopyReturns DEF RequestTimeout, ClientFailed
  <2>2. CASE /\ cl' = [cl EXCEPT !.pc = "backoff", !.attempt = @ + 1]
             /\ UNCHANGED <<net, open>>
    <3>1. /\ cl'.pc = "backoff" /\ cl'.expected = cl.expected
          /\ cl'.blksize = cl.blksize /\ cl'.pos = cl.pos
          /\ cl'.pending = cl.pending /\ cl'.broken = cl.broken
      BY <1>1, <2>2 DEF ClientStates
    <3> QED BY <1>4, <2>2, <3>1, CopyPasses DEF RequestTimeout
  <2> QED BY <1>4, <2>1, <2>2 DEF RequestTimeout
<1> QED BY <1>2, <1>3, <1>4

\* The destination is empty, and the first block comes next.
LEMMA CopyEnters ==
    ASSUME GetInv, ClientCopies, Plain, cl.pc = "await", UNCHANGED served,
           NEW neg, NEW from, neg.blksize = B, EnterLoop(neg, from),
           net' \in [Ports -> Seq(HonestPackets(cfg, L, cl.expected))]
    PROVE  CopyKeeps
<1>1. /\ cl \in ClientStates /\ cl.expected = 1 /\ cfg.resume = 0
      /\ cl.pos \in Nat /\ cl.pending.len \in Nat
  BY DEF GetInv, ClientOK, AckBound, Plain, ClientStates, Writes
<1>2. B \in Nat /\ L \in Nat
  BY SettledFacts
<1>3. /\ cl'.pc = "recv" /\ cl'.expected = 1 /\ cl'.blksize = B
      /\ cl'.pos = 0 * B /\ cl'.pending = cl.pending /\ cl'.broken = cl.broken
  BY <1>1 DEF EnterLoop, ClientStates
<1>4. out' = <<>> /\ UNCHANGED cfg
  BY DEF EnterLoop
<1>5. B' = B /\ L' = L
  BY <1>4 DEF B, L, Settled
<1>6. 0 * B = 0 /\ cl.expected - 1 = 0 /\ cl'.expected - 1 = 0
  BY <1>1, <1>2, <1>3
<1>7. Handed = 0 /\ Handed' = 0
  BY <1>2, <1>3, <1>5, <1>6 DEF Handed, ClientCopies, L
<1>8. cl.pos = 0 /\ cl'.pos = 0
  BY <1>1, <1>3, <1>6, <1>7 DEF ClientCopies, Held
<1>9. SourceFile(0) = <<>>
  BY DEF SourceFile
<1>10. Held'
  BY <1>1, <1>3, <1>4, <1>5, <1>7, <1>8, <1>9 DEF ClientCopies, Held
<1>11. Counted'
  BY <1>2, <1>5, <1>6 DEF Counted
<1> QED
  BY <1>1, <1>3, <1>5, <1>10, <1>11 DEF CopyKeeps, ClientCopies

LEMMA CopyReply ==
    ASSUME GetInv, ClientCopies, Plain, UNCHANGED served,
           net \in [Ports -> Seq(HonestPackets(cfg, L, cl.expected))],
           net[ClientPort] # <<>>, ReceiveReply(Head(net[ClientPort]))
    PROVE  CopyKeeps
<1> DEFINE m == Head(net[ClientPort])
           q == Received(net, ClientPort)
           Q == [Ports -> Seq(HonestPackets(cfg, L, cl.expected))]
<1>1. /\ cl.pc = "await" /\ cl.expected = 1 /\ cl.expected \in Nat
  BY DEF GetInv, AckBound, ReceiveReply
<1>2. q \in Q /\ m \in HonestPackets(cfg, L, cl.expected)
  BY ReceivedKeepsPackets, PortsAreDistinct
<1>3. m \in AckedBefore(cl.expected) /\ m.from \in Ports
  BY <1>1, <1>2, PacketFields DEF HonestPackets
<1>4. Ack(ClientPort, 0) \in HonestPackets(cfg, L, cl.expected)
  <2>1. Ack(ClientPort, 0) \in AckedBefore(cl.expected)
    BY <1>1, PacketsBuilt, PacketsAssumption DEF Blocks
  <2> QED BY <1>1, <2>1, PlainPacketsAreHonest DEF Ack
<1>5. Sent(q, m.from, Ack(ClientPort, 0)) \in Q
  BY <1>2, <1>3, <1>4, SentKeepsPackets
<1> DEFINE initial == InitialNegotiation(cfg)
           adopted == apply_oack(initial, m.options)
<1>6. initial.blksize = B
  BY AdoptsSettled
<1>7. m.type = "OACK" => adopted.blksize = B
  <2>1. m.type = "OACK" => m.options = OackOptions(Settled, L)
    BY <1>2 DEF HonestPackets, Settled
  <2> QED BY <2>1, AdoptsSettled
<1> HIDE DEF m, q, initial, adopted
<1>8. CASE /\ m.type = "OACK"
           /\ net' = Sent(q, m.from, Ack(ClientPort, 0))
           /\ EnterLoop(adopted, m.from)
  BY <1>1, <1>5, <1>7, <1>8, CopyEnters
<1>9. CASE net' = q /\ EnterLoop(initial, m.from)
  BY <1>1, <1>2, <1>6, <1>9, CopyEnters
<1>10. CASE /\ Return(q, "remote") \/ Return(q, "protocol")
            /\ UNCHANGED <<cfg, out>>
  BY <1>1, <1>2, <1>10, CopyReturns DEF ClientFailed
<1> QED
  BY <1>8, <1>9, <1>10 DEF ReceiveReply, m, q, initial, adopted

\* The expected block extends the copy by what follows in the file.
LEMMA RightfulExtends ==
    ASSUME NEW b \in Nat, b > 0, NEW len \in Nat, NEW e \in Nat, e > 0, NEW m,
           m.block = e, m.len \in Nat, m.off \in Nat, Rightful(m, b, len)
    PROVE  LET pos == (e - 1) * b
           IN  /\ m.off = pos
               /\ Written(SourceFile(pos), pos, m.off, m.len)
                      = SourceFile(pos + m.len)
               /\ m.len < b => pos + m.len = len
               /\ ~(m.len < b) => pos + m.len = e * b /\ e * b <= len
<1>1. (e - 1) * b \in Nat /\ e * b = (e - 1) * b + b
  <2>1. e - 1 \in Nat
    OBVIOUS
  <2> QED BY <2>1, ProductIsNat, ProductStep
<1>2. m.off = (e - 1) * b
  BY DEF Rightful
<1> DEFINE pos == (e - 1) * b
           next == e * b
<1>3. pos \in Nat /\ next = pos + b /\ m.off = pos
  BY <1>1, <1>2
<1>4. m.off <= len /\ m.len = IF b <= len - m.off THEN b ELSE len - m.off
  BY DEF Rightful
<1> HIDE DEF pos, next
<1>5. Written(SourceFile(pos), pos, m.off, m.len) = SourceFile(pos + m.len)
  BY <1>3, WrittenExtends
<1>6. m.len < b => pos + m.len = len
  BY <1>3, <1>4
<1>7. ~(m.len < b) => pos + m.len = next /\ next <= len
  BY <1>3, <1>4
<1> QED BY <1>3, <1>5, <1>6, <1>7 DEF pos, next

\* How far the file handed over reaches before the end of the transfer.
LEMMA HandedIsCounted ==
    ASSUME GetInv, ClientCopies, cl.pc # "ok"
    PROVE  Handed = (cl.expected - 1) * B /\ Handed \in Nat
<1>1. B \in Nat /\ L \in Nat /\ cl.expected - 1 \in Nat
  BY SettledFacts DEF GetInv, ClientOK, ClientStates
<1>2. (cl.expected - 1) * B \in Nat
  BY <1>1, ProductIsNat
<1> QED BY <1>1, <1>2 DEF ClientCopies, Counted, Handed, L

\* The expected block is handed over behind all others, which are in the file, and
\* it is the last one if it reaches the end of the file.
LEMMA BlockIsHandedOver ==
    ASSUME GetInv, ClientCopies, UNCHANGED <<cfg, served, out>>, cl.pc = "recv", NEW m,
           m.from \in Ports, m.block \in Blocks, m.off \in Nat, m.len \in Nat,
           NextData(m), ~WriteFails(m), Rightful(m, B, L),
           cl' = Taken(m) \/ cl' = [Taken(m) EXCEPT !.pc = "ok"]
    PROVE  /\ Held' /\ cl'.blksize = B
           /\ cl'.expected = cl.expected + 1
           /\ Handed' = Handed + m.len /\ Handed' <= L
           /\ IsLast(m) => Handed' = L /\ ~Counted'
           /\ ~IsLast(m) => m.len > 0 /\ Counted'
           /\ m.len > 0 => ~cl.broken /\ cl.pos = Handed
<1> DEFINE e == cl.expected
           start == (e - 1) * B
           next == e * B
           end == start + m.len
<1>1. /\ cl \in ClientStates /\ cfg \in Configs /\ e \in Nat /\ e > 0
      /\ cl.pos \in Nat /\ cl.pending.len \in Nat /\ cl.broken \in BOOLEAN
  BY DEF GetInv, ClientOK, ClientStates, Writes
<1>2. /\ B \in Nat /\ B > 0 /\ L \in Nat /\ B' = B /\ L' = L /\ cl.blksize = B
  BY SettledFacts DEF B, L, Settled, ClientCopies
<1>3. /\ cl'.expected = e + 1 /\ cl'.blksize = B /\ cl'.pos = cl.pos
      /\ cl'.broken = cl.broken /\ cl'.pending = HandedOver(m)
      /\ cl'.pc \in {"recv", "ok"}
  <2>1. /\ Taken(m) \in ClientStates /\ Taken(m).expected = e + 1
        /\ Taken(m).pc = "recv" /\ Taken(m).blksize = B
        /\ Taken(m).pos = cl.pos /\ Taken(m).broken = cl.broken
        /\ Taken(m).pending = HandedOver(m)
    BY <1>1, <1>2, TakenFacts
  <2> QED BY <2>1 DEF ClientStates
<1>4. m.block = e
  BY DEF NextData
<1>5. /\ start \in Nat /\ next \in Nat /\ next = start + B /\ m.off = start
      /\ m.len < B => end = L
      /\ ~(m.len < B) => end = next /\ next <= L
      /\ Handed = start
  <2>1. start \in Nat /\ next \in Nat /\ next = start + B
    <3>1. e - 1 \in Nat
      BY <1>1
    <3> QED BY <1>1, <1>2, <3>1, ProductIsNat, ProductStep
  <2>2. /\ m.off = start
        /\ m.len < B => end = L
        /\ ~(m.len < B) => end = next /\ next <= L
    BY <1>1, <1>2, <1>4, RightfulExtends
  <2> QED BY <2>1, <2>2, HandedIsCounted
<1>6. /\ (cl'.expected - 1) * B' = next
      /\ Handed' = (IF next <= L THEN next ELSE L)
  <2>1. cl'.expected - 1 = e
    BY <1>1, <1>3
  <2>2. (cl'.expected - 1) * B' = next /\ (cl'.expected - 1) * cl'.blksize = next
    BY <1>2, <1>3, <2>1
  <2> HIDE DEF next
  <2> QED BY <1>2, <2>2 DEF Handed, L
<1>7. m.len <= B /\ (m.len > 0 => m.len > 0 /\ start < end /\ end <= start + B)
  BY <1>2, <1>5 DEF Rightful
<1>8. m.len > 0 => cl.pending = NoWrite /\ ~cl.broken
  BY DEF NextData, WriteFails
<1>9. cl.broken \/ cl.pos + cl.pending.len = start
  BY <1>5 DEF ClientCopies, Held
<1>10. NoWrite.len = 0 /\ NoWrite.off = 0
  BY DEF NoWrite
<1> HIDE DEF start, next
<1>11. Handed' = end /\ end <= L
  BY <1>2, <1>5, <1>6, <1>7
<1>12. m.len > 0 => cl.pos = start
  BY <1>1, <1>5, <1>8, <1>9, <1>10
<1>13. CASE m.len > 0
  <2>1. cl'.pending = [off |-> m.off, len |-> m.len]
    BY <1>3, <1>13 DEF HandedOver
  <2>2. AllButLast(end, B) = start
    <3>1. e - 1 \in Nat
      BY <1>1
    <3>2. start < end /\ end <= start + B
      BY <1>7, <1>13
    <3>3. (end - 1) \div B = e - 1
      <4>1. end \in Nat
        BY <1>5
      <4> HIDE DEF end, e
      <4> QED BY <1>2, <3>1, <3>2, <4>1, QuotientBelow DEF start
    <3> HIDE DEF end
    <3> QED BY <3>3 DEF AllButLast, start
  <2>3. out' = SourceFile(cl'.pos)
    BY <1>3 DEF ClientCopies, Held
  <2>4. cl'.pos + cl'.pending.len = Handed' /\ cl'.pending.off = cl'.pos
    BY <1>3, <1>5, <1>11, <1>12, <1>13, <2>1
  <2>5. AllButLast(Handed', B') <= cl'.pos
    <3>1. AllButLast(Handed', B') = start
      BY <1>2, <1>11, <2>2
    <3> QED BY <1>3, <1>5, <1>12, <1>13, <3>1
  <2> QED
    BY <1>2, <1>3, <1>5, <1>6, <1>8, <1>11, <1>12, <1>13, <2>3, <2>4, <2>5
    DEF Held, IsLast, Counted
<1>14. CASE m.len = 0
  <2>1. cl'.pending = cl.pending
    BY <1>3, <1>14 DEF HandedOver
  <2>2. Handed' = Handed /\ Handed = L
    BY <1>2, <1>5, <1>11, <1>14
  <2>3. Held'
    BY <1>2, <1>3, <2>1, <2>2 DEF ClientCopies, Held
  <2> QED
    BY <1>2, <1>3, <1>5, <1>6, <1>11, <1>14, <2>2, <2>3 DEF IsLast, Counted
<1> QED BY <1>13, <1>14

LEMMA CopyData ==
    ASSUME GetInv, ClientCopies, UNCHANGED served,
           net \in [Ports -> Seq(HonestPackets(cfg, L, cl.expected))],
           net[ClientPort] # <<>>, ReceiveData(Head(net[ClientPort]))
    PROVE  /\ CopyKeeps
           /\ NextData(Head(net[ClientPort])) => Rightful(Head(net[ClientPort]), B, L)
<1> DEFINE m == Head(net[ClientPort])
           q == Received(net, ClientPort)
<1>1. /\ cl \in ClientStates /\ cfg \in Configs
      /\ cl.lastAcked < cl.expected /\ cl.lastAcked \in Nat
      /\ cl.expected \in Nat /\ cl.expected > 0
      /\ cl.pc = "recv" /\ m.type = "DATA"
  BY PacketsAssumption
  DEF GetInv, ClientOK, AckBound, ClientStates, ReceiveData, Blocks
<1>2. /\ q \in [Ports -> Seq(HonestPackets(cfg, L, cl.expected))]
      /\ m \in HonestPackets(cfg, L, cl.expected)
  BY ReceivedKeepsPackets, PortsAreDistinct
<1>3. m \in AckedBefore(cl.expected)
  BY <1>2 DEF HonestPackets
<1>4. /\ m.from \in Ports /\ m.block \in Blocks /\ m.block \in Nat
      /\ m.off \in Nat /\ m.len \in Nat /\ m.block < BlockMod
  BY <1>1, <1>3, PacketFields, PortsAreDistinct, PacketsAssumption DEF Blocks
<1>5. ASSUME NEW e \in Nat, cl.expected <= e, NEW b \in Blocks, b < e
      PROVE  /\ q \in [Ports -> Seq(HonestPackets(cfg, L, e))]
             /\ Sent(q, m.from, Ack(ClientPort, b))
                    \in [Ports -> Seq(HonestPackets(cfg, L, e))]
  <2>1. q \in [Ports -> Seq(HonestPackets(cfg, L, e))]
    BY <1>1, <1>2, <1>5, HonestGrows
  <2>2. Ack(ClientPort, b) \in HonestPackets(cfg, L, e)
    BY <1>5, PacketsBuilt, PlainPacketsAreHonest DEF Ack
  <2> QED BY <1>4, <2>1, <2>2, SentKeepsPackets
<1> HIDE DEF m
<1>6. ASSUME NEW b \in Blocks, b < cl.expected, Acknowledge(m, b)
      PROVE  CopyKeeps
  <2>1. net' \in [Ports -> Seq(HonestPackets(cfg, L, cl.expected))]
    BY <1>1, <1>5, <1>6 DEF Acknowledge
  <2>2. /\ cl'.expected = cl.expected /\ cl'.pc = "recv"
        /\ cl'.blksize = cl.blksize /\ cl'.pos = cl.pos
        /\ cl'.pending = cl.pending /\ cl'.broken = cl.broken
    BY <1>1, <1>6 DEF Acknowledge, Heard, ClientStates
  <2> QED BY <1>1, <1>6, <2>1, <2>2, CopyPasses DEF Acknowledge
<1>7. CASE OldData(m)
  <2>1. m.block # cl.expected
    BY <1>1, <1>4, <1>7 DEF OldData
  <2> QED BY <1>1, <1>4, <1>6, <1>7, <2>1 DEF OldData, NextData, m
<1>8. CASE GapData(m)
  <2>1. cl.expected - 1 \in Blocks
    BY <1>1, <1>4, <1>8, PacketsAssumption DEF GapData, Blocks
  <2>2. m.block # cl.expected
    BY <1>1, <1>4, <1>8 DEF GapData
  <2> QED BY <1>1, <1>6, <1>8, <2>1, <2>2 DEF GapData, NextData, m
<1>9. CASE NextData(m)
  <2> DEFINE acked == Sent(q, m.from, Ack(ClientPort, m.block))
             next == cl.expected + 1
  <2>1. m.block = cl.expected /\ UNCHANGED <<cfg, out>>
    BY <1>9 DEF NextData
  <2>2. Rightful(m, B, L)
    <3>1. ~(cl.expected >= BlockMod)
      BY <1>1, <1>4, <2>1, PacketsAssumption
    <3> QED BY <1>1, <1>2, <3>1 DEF HonestPackets, B, Settled
  <2>3. CASE WriteFails(m) /\ Return(q, "io")
    <3> HIDE DEF q
    <3> QED BY <1>1, <1>2, <2>1, <2>2, <2>3, CopyReturns DEF ClientFailed, m
  <2>4. next \in Nat /\ cl.expected <= next /\ m.block < next
    BY <1>1, <2>1
  <2>5. /\ q \in [Ports -> Seq(HonestPackets(cfg, L, next))]
        /\ acked \in [Ports -> Seq(HonestPackets(cfg, L, next))]
    BY <1>4, <1>5, <2>4
  <2>6. Taken(m) \in ClientStates /\ Taken(m).pc = "recv"
    BY <1>1, <1>4, TakenFacts
  <2>7. CASE /\ ~WriteFails(m) /\ IsLast(m)
             /\ cl' = [Taken(m) EXCEPT !.pc = "ok"]
             /\ net' = Closed(acked, ClientPort)
    <3>1. cl'.pc = "ok"
      BY <2>6, <2>7 DEF ClientStates
    <3>2. net' \in [Ports -> Seq(HonestPackets(cfg, L, next))]
      BY <2>5, <2>7, ClosedKeepsPackets, PortsAreDistinct
    <3>3. Held' /\ cl'.blksize = B /\ cl'.expected = next /\ ~Counted'
      BY <1>1, <1>4, <1>9, <2>1, <2>2, <2>7, BlockIsHandedOver
    <3>4. B' = B
      BY <2>1 DEF B, Settled
    <3> HIDE DEF next
    <3> QED
      BY <1>1, <2>2, <2>4, <3>1, <3>2, <3>3, <3>4 DEF CopyKeeps, ClientCopies, m
  <2>8. CASE /\ ~WriteFails(m) /\ ~IsLast(m) /\ cl' = Taken(m)
             /\ net' \in {acked, q}
    <3>1. cl'.pc = "recv" /\ net' \in [Ports -> Seq(HonestPackets(cfg, L, next))]
      BY <2>5, <2>6, <2>8
    <3>2. Held' /\ cl'.blksize = B /\ cl'.expected = next /\ Counted'
      BY <1>1, <1>4, <1>9, <2>1, <2>2, <2>8, BlockIsHandedOver
    <3>3. B' = B
      BY <2>1 DEF B, Settled
    <3> HIDE DEF next
    <3> QED
      BY <1>1, <2>2, <2>4, <3>1, <3>2, <3>3 DEF CopyKeeps, ClientCopies, m
  <2> HIDE DEF q, acked
  <2> QED BY <1>9, <2>3, <2>7, <2>8 DEF NextData, q, acked
<1> QED BY <1>7, <1>8, <1>9 DEF ReceiveData, m

\* The pending write extends the file by what follows in the source.
LEMMA CopyLands ==
    ASSUME GetInv, ClientCopies, UNCHANGED served, Land,
           net \in [Ports -> Seq(HonestPackets(cfg, L, cl.expected))]
    PROVE  /\ CopyKeeps /\ UNCHANGED cfg /\ cl'.pc = cl.pc /\ Handed' = Handed
           /\ cl.expected > 1
           /\ \E n \in Nat :
                 /\ cl.pos + n <= Handed
                 /\ out = SourceFile(cl.pos) /\ out' = SourceFile(cl.pos + n)
<1> DEFINE w == cl.pending
           n == Lesser(w.len, Greater(0, room - cl.pos))
<1>1. /\ cl \in ClientStates /\ w \in Writes /\ w.off \in Nat /\ w.len \in Nat
      /\ cl.pos \in Nat /\ cl.broken \in BOOLEAN /\ room \in Nat
      /\ cl.expected \in Nat /\ cl.expected > 0
  BY GetClientAssumption DEF GetInv, ClientOK, SurroundingsOK, ClientStates, Writes
<1>2. /\ w # NoWrite /\ out' = Written(out, cl.pos, w.off, n)
      /\ cl' = [cl EXCEPT !.pending = NoWrite, !.pos = @ + n, !.broken = n < w.len]
  BY DEF Land
<1>3. n \in Nat /\ n <= w.len
  BY <1>1
<1> HIDE DEF n
<1>4. /\ cl'.pending = NoWrite /\ cl'.pos = cl.pos + n
      /\ cl'.broken <=> n < w.len
  BY <1>1, <1>2, <1>3 DEF ClientStates
<1>5. /\ UNCHANGED <<cfg, net, open>> /\ cl'.pc = cl.pc
      /\ cl'.expected = cl.expected /\ cl'.blksize = cl.blksize
  BY LandKeeps
<1>6. B' = B /\ L' = L /\ Handed' = Handed /\ (Counted' <=> Counted)
  BY <1>5 DEF B, L, Settled, Handed, Counted
<1>7. ~cl.broken /\ cl.pos + w.len = Handed /\ w.off = cl.pos
  BY <1>1, <1>2 DEF ClientCopies, Held
<1>8. cl.expected > 1
  <2>1. SUFFICES ASSUME cl.expected = 1 PROVE FALSE
    BY <1>1
  <2>2. B \in Nat /\ L \in Nat /\ cl.blksize = B
    BY SettledFacts DEF ClientCopies
  <2>3. Handed = 0
    <3>1. (cl.expected - 1) * cl.blksize = 0
      BY <2>1, <2>2
    <3> QED BY <2>2, <3>1 DEF Handed, L
  <2>4. w.len = 0 /\ w.off = 0
    BY <1>1, <1>7, <2>3
  <2>5. w = NoWrite
    BY <1>1, <2>4 DEF Writes, NoWrite
  <2> QED BY <1>2, <2>5
<1>9. out = SourceFile(cl.pos) /\ out' = SourceFile(cl.pos + n)
  <2>1. out = SourceFile(cl.pos)
    BY <1>8 DEF ClientCopies, Held
  <2> QED BY <1>1, <1>2, <1>3, <1>7, <2>1, WrittenExtends
<1>10. Held'
  <2>1. NoWrite.len = 0
    BY DEF NoWrite
  <2>2. AllButLast(Handed', B') <= cl'.pos
    <3> DEFINE a == AllButLast(Handed, B)
    <3>1. a <= cl.pos /\ AllButLast(Handed', B') = a
      BY <1>6 DEF ClientCopies, Held
    <3>2. a \in Int
      <4>1. Handed \in Int /\ B \in Nat /\ B > 0
        BY <1>1, <1>7, SettledFacts
      <4>2. (Handed - 1) \div B \in Int
        BY <4>1
      <4> QED BY <4>1, <4>2 DEF AllButLast
    <3> HIDE DEF a
    <3> QED BY <1>1, <1>3, <1>4, <3>1, <3>2
  <2> QED BY <1>1, <1>3, <1>4, <1>6, <1>7, <1>9, <2>1, <2>2 DEF Held
<1>11. CopyKeeps
  BY <1>1, <1>5, <1>6, <1>10 DEF CopyKeeps, ClientCopies
<1>12. cl.pos + n <= Handed
  BY <1>1, <1>3, <1>7
<1> QED BY <1>3, <1>5, <1>6, <1>8, <1>9, <1>11, <1>12

LEMMA CopyOther ==
    ASSUME GetInv, ClientCopies, UNCHANGED served,
           net \in [Ports -> Seq(HonestPackets(cfg, L, cl.expected))],
           net[ClientPort] # <<>>, ReceiveOther(Head(net[ClientPort]))
    PROVE  CopyKeeps
<1>1. Received(net, ClientPort) \in [Ports -> Seq(HonestPackets(cfg, L, cl.expected))]
  BY ReceivedKeepsPackets, PortsAreDistinct
<1>2. \E result \in {"remote", "protocol"} :
          Return(Received(net, ClientPort), result)
  BY DEF ReceiveOther
<1> QED BY <1>1, <1>2, CopyReturns DEF ReceiveOther, ClientFailed

LEMMA CopyTimeout ==
    ASSUME GetInv, ClientCopies, UNCHANGED served, ReceiveTimeout,
           net \in [Ports -> Seq(HonestPackets(cfg, L, cl.expected))]
    PROVE  CopyKeeps
<1>1. CASE Return(net, "timeout")
  BY <1>1, CopyReturns DEF ReceiveTimeout, ClientFailed
<1>2. CASE /\ cl' = [cl EXCEPT !.retries = @ - 1]
           /\ net' = Sent(net, cl.server, Ack(ClientPort, cl.lastAcked))
  <2>1. /\ cl \in ClientStates /\ cl.server \in Ports /\ cl.lastAcked \in Blocks
        /\ cl.lastAcked < cl.expected /\ cl.expected \in Nat
    BY DEF GetInv, ClientOK, ClientStates, AckBound
  <2>2. Ack(ClientPort, cl.lastAcked) \in HonestPackets(cfg, L, cl.expected)
    BY <2>1, PacketsBuilt, PlainPacketsAreHonest DEF Ack
  <2>3. net' \in [Ports -> Seq(HonestPackets(cfg, L, cl.expected))]
    BY <1>2, <2>1, <2>2, SentKeepsPackets
  <2>4. /\ cl'.expected = cl.expected /\ cl'.pc = "recv"
        /\ cl'.blksize = cl.blksize /\ cl'.pos = cl.pos
        /\ cl'.pending = cl.pending /\ cl'.broken = cl.broken
    BY <1>2, <2>1 DEF ClientStates, ReceiveTimeout
  <2> QED BY <2>3, <2>4, CopyPasses DEF ReceiveTimeout
<1> QED BY <1>1, <1>2 DEF ReceiveTimeout

LEMMA ClientKeepsCopy ==
    ASSUME GetInv, ClientCopies, Plain, Client \/ ClientTimer \/ Writer,
           net \in [Ports -> Seq(HonestPackets(cfg, L, cl.expected))]
    PROVE  CopyKeeps
BY CopyNegotiation, CopyReply, CopyData, CopyOther, CopyTimeout, CopyLands
DEF Client, ClientTimer, Writer, ClientStep, ClientTimeout, WriteDone, ClientReceive,
    serverVars

-----------------------------------------------------------------------------
(* The server's steps *)

\* An ACK for a block that reaches beyond the end of the file: get has returned.
LEMMA CoveredIsComplete ==
    ASSUME GetInv, ClientCopies, NEW b \in Nat, L < b * B, b < cl.expected, b > 0
    PROVE  cl.pc = "ok"
<1>1. SUFFICES ASSUME cl.pc # "ok" PROVE FALSE
  OBVIOUS
<1>2. B \in Nat /\ L \in Nat /\ cl.expected \in Nat
  BY SettledFacts DEF GetInv, ClientOK, ClientStates
<1>5. (cl.expected - 1) * B <= L
  BY <1>1 DEF ClientCopies, Counted
<1>6. b * B <= (cl.expected - 1) * B
  <2>1. cl.expected - 1 \in Nat /\ b <= cl.expected - 1
    BY <1>2
  <2> QED BY <1>2, <2>1, ProductMonotonic
<1>7. b * B \in Nat /\ (cl.expected - 1) * B \in Nat
  <2>1. cl.expected - 1 \in Nat
    BY <1>2
  <2> QED BY <1>2, <2>1, ProductIsNat
<1> QED BY <1>2, <1>5, <1>6, <1>7

LEMMA WrappedIsComplete ==
    ASSUME GetInv, ClientCopies, NoWrap, cl.expected >= BlockMod
    PROVE  cl.pc = "ok"
<1>1. L < (BlockMod - 1) * B
  BY DEF NoWrap, L, B, Settled, SettledFor
<1>2. BlockMod - 1 \in Nat /\ BlockMod - 1 > 0 /\ BlockMod - 1 < cl.expected
  BY PacketsAssumption DEF GetInv, ClientOK, ClientStates
<1> QED BY <1>1, <1>2, CoveredIsComplete

\* What a step of session s must keep.
SessionKeeps(s) ==
    /\ SessionCopies(s)'
    /\ \A t \in Sessions : t # s => sess'[t] = sess[t]
    /\ net' \in [Ports -> Seq(HonestPackets(cfg, L, cl.expected))]

LEMMA CopyEnds ==
    ASSUME GetInv, NEW s \in Sessions, SessionCopies(s), sess[s].pc # "free",
           UNCHANGED <<cfg, cl, out>>,
           NEW q \in [Ports -> Seq(HonestPackets(cfg, L, cl.expected))],
           NEW result \in SessionDone, EndSession(q, s, result),
           result = "ok" /\ L % B # 0 /\ NoWrap => cl.pc = "ok"
    PROVE  SessionKeeps(s)
<1>1. /\ sess'[s].pc = result /\ sess'[s].neg = sess[s].neg
      /\ \A t \in Sessions : t # s => sess'[t] = sess[t]
  BY DEF EndSession, GetInv, ServerOK, SessionStates
<1>2. net' \in [Ports -> Seq(HonestPackets(cfg, L, cl.expected))]
  BY ClosedKeepsPackets, PortsAreDistinct DEF EndSession
<1>3. B' = B /\ L' = L /\ Settled' = Settled /\ (NoWrap <=> NoWrap')
  BY DEF EndSession, B, L, Settled, NoWrap
<1> QED
  BY <1>1, <1>2, <1>3
  DEF SessionKeeps, SessionCopies, SessionDone, SessionRuns, SessionWaits

LEMMA CopySpawns ==
    ASSUME GetInv, NEW s \in Sessions, SessionCopies(s), Spawn(s),
           UNCHANGED <<cfg, cl, out>>,
           net \in [Ports -> Seq(HonestPackets(cfg, L, cl.expected))]
    PROVE  SessionKeeps(s)
<1> DEFINE m == Head(net[ListenPort])
<1>1. net' \in [Ports -> Seq(HonestPackets(cfg, L, cl.expected))]
  BY ReceivedKeepsPackets, PortsAreDistinct DEF Spawn
<1>2. Granted(m.options) = Settled
  <2>1. m \in HonestPackets(cfg, L, cl.expected) /\ m.type = "RRQ"
    BY ReceivedKeepsPackets, PortsAreDistinct DEF Spawn
  <2> QED BY <2>1 DEF HonestPackets, Settled, SettledFor
<1>3. /\ sess'[s].pc = "spawned" /\ sess'[s].neg = Granted(m.options)
      /\ sess'[s].block = sess[s].block /\ sess'[s].rpos = sess[s].rpos
      /\ \A t \in Sessions : t # s => sess'[t] = sess[t]
      /\ sess[s].pc = "free"
  BY DEF Spawn, GetInv, ServerOK, SessionStates
<1>4. Settled' = Settled
  BY DEF Settled
<1> QED
  BY <1>1, <1>2, <1>3, <1>4
  DEF SessionKeeps, SessionCopies, SessionRuns, SessionWaits

LEMMA CopyOpens ==
    ASSUME GetInv, NEW s \in Sessions, SessionCopies(s), UNCHANGED <<cfg, cl, out>>,
           net \in [Ports -> Seq(HonestPackets(cfg, L, cl.expected))],
           RefusePath(s) \/ RefuseFile(s) \/ SendOack(s)
    PROVE  SessionKeeps(s)
<1>1. cl.expected \in Nat /\ sess \in [Sessions -> SessionStates]
  BY DEF GetInv, ClientOK, ClientStates, ServerOK
<1>2. CASE RefusePath(s)
  BY <1>2, CopyEnds DEF RefusePath, SessionDone
<1>3. CASE RefuseFile(s)
  <2>1. Error(s) \in HonestPackets(cfg, L, cl.expected)
    BY <1>1, PacketsBuilt, PlainPacketsAreHonest DEF Error
  <2>2. Sent(net, ClientPort, Error(s))
            \in [Ports -> Seq(HonestPackets(cfg, L, cl.expected))]
    BY <2>1, SentKeepsPackets, PortsAreDistinct
  <2> QED BY <1>3, <2>2, CopyEnds DEF RefuseFile, SessionDone
<1>4. CASE SendOack(s)
  <2>1. sess[s].neg = Settled /\ sess[s].block = 1 /\ sess[s].rpos = 0
    BY <1>4 DEF SendOack, SessionCopies
  <2>2. Settled \in Negotiations /\ L \in Nat /\ B \in Nat
    BY SettledFacts
  <2>3. Oack(s, OackOptions(Settled, L)) \in HonestPackets(cfg, L, cl.expected)
    BY <1>1, <2>2, PacketsBuilt DEF HonestPackets, Oack, Settled
  <2>4. net' \in [Ports -> Seq(HonestPackets(cfg, L, cl.expected))]
    BY <1>4, <2>1, <2>3, SentKeepsPackets, PortsAreDistinct DEF SendOack, L
  <2>5. /\ sess'[s].pc = "send" /\ sess'[s].neg = Settled
        /\ sess'[s].block = 1 /\ sess'[s].rpos = 0
        /\ \A t \in Sessions : t # s => sess'[t] = sess[t]
    BY <1>1, <1>4, <2>1 DEF SendOack, SessionStates
  <2>6. B' = B /\ L' = L /\ Settled' = Settled
    BY <1>4 DEF SendOack, B, L, Settled
  <2>7. (1 - 1) * B = 0
    BY <2>2
  <2> QED
    BY <2>2, <2>4, <2>5, <2>6, <2>7 DEF SessionKeeps, SessionCopies, InStep
<1> QED BY <1>2, <1>3, <1>4

\* The DATA a session in step sends is rightful.
LEMMA SentDataIsHonest ==
    ASSUME GetInv, NEW s \in Sessions, SessionCopies(s), sess[s].pc = "send",
           sess[s].rpos <= L, NEW n \in Nat, n = Lesser(B, L - sess[s].rpos)
    PROVE  Data(s, sess[s].block, sess[s].rpos, n)
               \in HonestPackets(cfg, L, cl.expected)
<1> DEFINE m == Data(s, sess[s].block, sess[s].rpos, n)
<1>1. /\ sess[s].block \in Blocks /\ sess[s].rpos \in Nat /\ cl.expected \in Nat
  BY DEF GetInv, ServerOK, SessionStates, ClientOK, ClientStates
<1>2. m \in AckedBefore(cl.expected)
  BY <1>1, PacketsBuilt
<1>3. /\ m.type = "DATA" /\ m.block = sess[s].block /\ m.off = sess[s].rpos
      /\ m.len = n
  BY DEF Data
<1>4. InStep(s) \/ cl.expected >= BlockMod
  BY DEF SessionCopies, SessionRuns
<1> HIDE DEF m
<1>5. Rightful(m, B, L) \/ cl.expected >= BlockMod
  BY <1>3, <1>4 DEF InStep, Rightful
<1> QED BY <1>2, <1>3, <1>5 DEF HonestPackets, m, B, Settled

\* A step that sends DATA and leaves the session in step.
LEMMA CopySendsBlock ==
    ASSUME GetInv, NEW s \in Sessions, SessionCopies(s), sess[s].pc = "send",
           sess[s].rpos <= L, NEW n \in Nat, n = Lesser(B, L - sess[s].rpos),
           UNCHANGED <<cfg, cl, out>>,
           net \in [Ports -> Seq(HonestPackets(cfg, L, cl.expected))],
           NEW pc \in SessionRuns, NEW b \in Blocks, SendBlock(s, n, pc, b),
           pc = "waitEmpty" => L = 0,
           InStep(s)' \/ cl.expected >= BlockMod
    PROVE  SessionKeeps(s)
<1>1. Data(s, sess[s].block, sess[s].rpos, n) \in HonestPackets(cfg, L, cl.expected)
  BY SentDataIsHonest
<1>2. net' \in [Ports -> Seq(HonestPackets(cfg, L, cl.expected))]
  BY <1>1, SentKeepsPackets, PortsAreDistinct DEF SendBlock
<1>3. /\ sess'[s].pc = pc /\ sess'[s].neg = sess[s].neg
      /\ \A t \in Sessions : t # s => sess'[t] = sess[t]
  BY DEF SendBlock, GetInv, ServerOK, SessionStates
<1>4. L' = L /\ Settled' = Settled
  BY DEF SendBlock, L, Settled
<1>5. sess[s].neg = Settled
  BY DEF SessionCopies
<1> QED
  BY <1>2, <1>3, <1>4, <1>5
  DEF SessionKeeps, SessionCopies, SessionRuns, SessionWaits

\* Block numbers do not wrap between two ACKs of a safe transfer.
LEMMA NoWrapUnacknowledged ==
    ASSUME GetInv, Safe, NEW s \in Sessions, SessionCopies(s), InStep(s),
           sess[s].pc = "send", sess[s].rpos + B <= L,
           ~WaitsAfter(sess[s].block, Greater(sess[s].neg.windowsize, 1), FALSE)
    PROVE  sess[s].block + 1 < BlockMod
<1> DEFINE b == sess[s].block
<1>1. /\ b \in Nat /\ b > 0 /\ B \in Nat /\ L \in Nat /\ b \in Blocks
      /\ sess[s].rpos = (b - 1) * B
  BY SettledFacts, PacketsAssumption
  DEF GetInv, ServerOK, SessionStates, InStep, Blocks
<1>2. CASE Lockstep
  <2>1. Greater(sess[s].neg.windowsize, 1) = 1
    BY <1>2 DEF Lockstep, SessionCopies
  <2>2. b % 1 = 0
    BY <1>1
  <2> QED BY <1>1, <2>1, <2>2 DEF WaitsAfter
<1>3. CASE NoWrap
  <2>1. b * B <= L
    <3>1. b * B = (b - 1) * B + B
      BY <1>1, ProductStep
    <3> QED BY <1>1, <3>1
  <2>2. L < (BlockMod - 1) * B
    BY <1>3 DEF NoWrap, L, B, Settled, SettledFor
  <2>3. b < BlockMod - 1
    <3>1. /\ BlockMod - 1 \in Nat /\ b * B \in Nat /\ (BlockMod - 1) * B \in Nat
      BY <1>1, PacketsAssumption
    <3>2. b * B < (BlockMod - 1) * B
      BY <1>1, <2>1, <2>2, <3>1
    <3> QED BY <1>1, <3>1, <3>2, ProductCancels
  <2> QED BY <1>1, <2>3, PacketsAssumption
<1> QED BY <1>2, <1>3 DEF Safe

LEMMA CopySends ==
    ASSUME GetInv, Safe, ClientCopies, NEW s \in Sessions, SessionCopies(s),
           UNCHANGED <<cfg, cl, out>>, SendData(s) \/ SendEmptyBlock(s),
           net \in [Ports -> Seq(HonestPackets(cfg, L, cl.expected))]
    PROVE  SessionKeeps(s)
<1> DEFINE b == sess[s].block
           pos == sess[s].rpos
<1>1. /\ sess \in [Sessions -> SessionStates] /\ b \in Blocks /\ b \in Nat
      /\ b < BlockMod /\ pos \in Nat /\ B \in Nat /\ B > 0 /\ L \in Nat
      /\ cl.expected \in Nat /\ BlockMod \in Nat
  <2>1. sess \in [Sessions -> SessionStates] /\ cl.expected \in Nat
    BY DEF GetInv, ServerOK, ClientOK, ClientStates
  <2>2. b \in Blocks /\ pos \in Nat
    BY <2>1 DEF SessionStates
  <2> QED BY <2>1, <2>2, SettledFacts, PacketsAssumption DEF Blocks
<1>2. /\ sess[s].pc = "send" /\ sess[s].neg = Settled /\ sess[s].neg.blksize = B
      /\ served.len = L
  BY DEF SendData, SendEmptyBlock, SessionCopies, B, L
<1>3. InStep(s) \/ cl.expected >= BlockMod
  BY <1>2 DEF SessionCopies, SessionRuns
<1>4. B' = B /\ L' = L /\ served' = served
  BY DEF B, L, Settled, SendData, SendEmptyBlock, SendBlock, EndSession
<1>5. b > 0 => b * B = (b - 1) * B + B
  BY <1>1, ProductStep
<1>6. ASSUME NEW n, NEW pc, NEW c, SendBlock(s, n, pc, c)
      PROVE  /\ sess'[s].pc = pc /\ sess'[s].block = c /\ sess'[s].rpos = pos + n
  BY <1>1, <1>6 DEF SendBlock, SessionStates
<1>7. CASE SendEmptyBlock(s)
  <2>1. pos = L /\ Lesser(B, L - pos) = 0
    BY <1>1, <1>2, <1>7 DEF SendEmptyBlock
  <2> DEFINE pc == IF L = 0 THEN "waitEmpty" ELSE "waitEof"
  <2>2. SendBlock(s, 0, pc, b)
    BY <1>2, <1>7 DEF SendEmptyBlock
  <2>3. sess'[s].pc = pc /\ sess'[s].block = b
    BY <1>6, <2>2
  <2>4. InStep(s)' \/ cl.expected >= BlockMod
    BY <1>2, <1>3, <1>4, <2>1, <2>3 DEF InStep
  <2>5. pc \in SessionRuns /\ (pc = "waitEmpty" => L = 0)
    BY DEF SessionRuns, SessionWaits
  <2> HIDE DEF pc
  <2> QED BY <1>1, <1>2, <2>1, <2>2, <2>4, <2>5, CopySendsBlock
<1>8. CASE SendData(s)
  <2> DEFINE n == Lesser(B, L - pos)
             waits == WaitsAfter(b, Greater(sess[s].neg.windowsize, 1), n < B)
  <2>1. pos < L /\ n \in Nat /\ n <= B /\ n > 0
    BY <1>1, <1>2, <1>8 DEF SendData
  <2>2. (n < B => pos + n = L) /\ (~(n < B) => n = B /\ pos + B <= L)
    BY <1>1, <2>1
  <2>3. \/ waits /\ SendBlock(s, n, IF n < B THEN "waitLast" ELSE "wait", b)
        \/ ~waits /\ ~(n < B) /\ SendBlock(s, n, "send", NextBlock(b))
        \/ /\ ~waits /\ n < B
           /\ EndSession(Sent(net, ClientPort, Data(s, b, pos, n)), s, "ok")
    BY <1>2, <1>8 DEF SendData
  <2>0. n = Lesser(B, L - pos)
    OBVIOUS
  <2> HIDE DEF n
  <2>4. CASE n < B /\ SendBlock(s, n, "waitLast", b)
    <3>1. sess'[s].pc = "waitLast" /\ sess'[s].block = b
      BY <1>6, <2>4
    <3>2. InStep(s)' \/ cl.expected >= BlockMod
      BY <1>1, <1>2, <1>3, <1>4, <1>5, <2>1, <2>2, <2>4, <3>1 DEF InStep
    <3> QED
      BY <1>1, <1>2, <2>1, <2>4, <3>2, CopySendsBlock
      DEF n, SessionRuns, SessionWaits
  <2>5. CASE ~(n < B) /\ SendBlock(s, n, "wait", b)
    <3>1. sess'[s].pc = "wait" /\ sess'[s].block = b /\ sess'[s].rpos = pos + B
      BY <1>6, <2>2, <2>5
    <3>2. InStep(s)' \/ cl.expected >= BlockMod
      BY <1>1, <1>2, <1>3, <1>4, <1>5, <2>2, <2>5, <3>1 DEF InStep
    <3> QED
      BY <1>1, <1>2, <2>1, <2>5, <3>2, CopySendsBlock
      DEF n, SessionRuns, SessionWaits
  <2>6. CASE ~waits /\ ~(n < B) /\ SendBlock(s, n, "send", NextBlock(b))
    <3>1. /\ sess'[s].pc = "send" /\ sess'[s].block = NextBlock(b)
          /\ sess'[s].rpos = pos + B
      BY <1>6, <2>2, <2>6
    <3>2. ASSUME InStep(s) PROVE InStep(s)'
      <4>1. b + 1 < BlockMod
        <5>1. ~WaitsAfter(b, Greater(sess[s].neg.windowsize, 1), FALSE)
          BY <2>6 DEF WaitsAfter
        <5> QED BY <1>1, <1>2, <2>2, <2>6, <3>2, <5>1, NoWrapUnacknowledged
      <4>2. NextBlock(b) = b + 1
        <5>1. b + 1 \in Nat /\ (b + 1) % BlockMod = b + 1
          BY <1>1, <4>1, SmallHasNoQuotient
        <5> QED BY <5>1 DEF NextBlock
      <4>3. (b + 1 - 1) * B = pos + B
        BY <1>1, <1>2, <1>5, <3>2 DEF InStep
      <4> QED BY <1>1, <1>4, <2>2, <2>6, <3>1, <4>2, <4>3 DEF InStep
    <3>3. NextBlock(b) \in Blocks
      BY <1>1, NextBlockIsBlock
    <3>4. InStep(s)' \/ cl.expected >= BlockMod
      BY <1>3, <3>2
    <3>5. "send" \in SessionRuns /\ pos <= L
      BY <1>1, <2>1 DEF SessionRuns
    <3> QED BY <1>1, <1>2, <2>0, <2>1, <2>6, <3>3, <3>4, <3>5, CopySendsBlock
  <2>7. CASE /\ ~waits /\ n < B
             /\ EndSession(Sent(net, ClientPort, Data(s, b, pos, n)), s, "ok")
    <3>1. Sent(net, ClientPort, Data(s, b, pos, n))
              \in [Ports -> Seq(HonestPackets(cfg, L, cl.expected))]
      <4>1. Data(s, b, pos, n) \in HonestPackets(cfg, L, cl.expected)
        BY <1>1, <1>2, <2>0, <2>1, SentDataIsHonest
      <4> QED BY <4>1, SentKeepsPackets, PortsAreDistinct
    <3>2. cl.expected >= BlockMod
      BY <1>1, <1>3, <2>7 DEF InStep, WaitsAfter
    <3>3. NoWrap => cl.pc = "ok"
      BY <3>2, WrappedIsComplete
    <3> QED BY <1>2, <2>7, <3>1, <3>3, CopyEnds DEF SessionDone
  <2> QED BY <2>3, <2>4, <2>5, <2>6, <2>7
<1> QED BY <1>7, <1>8

\* A session that returns Ok has been told that the last block was stored.
LEMMA CopyTakesAck ==
    ASSUME GetInv, ClientCopies, NEW s \in Sessions, SessionCopies(s),
           UNCHANGED <<cfg, cl, out>>, net[s] # <<>>, TakeAck(s, Head(net[s])),
           net \in [Ports -> Seq(HonestPackets(cfg, L, cl.expected))]
    PROVE  SessionKeeps(s)
<1> DEFINE m == Head(net[s])
           q == Received(net, s)
           b == sess[s].block
<1>1. /\ sess \in [Sessions -> SessionStates] /\ b \in Blocks /\ b \in Nat
      /\ b < BlockMod /\ B \in Nat /\ B > 0 /\ L \in Nat
      /\ cl.expected \in Nat /\ BlockMod \in Nat
  <2>1. sess \in [Sessions -> SessionStates] /\ cl \in ClientStates
    BY DEF GetInv, ServerOK, ClientOK
  <2>2. b \in Blocks /\ cl.expected \in Nat
    BY <2>1 DEF SessionStates, ClientStates
  <2> QED BY <2>1, <2>2, SettledFacts, PacketsAssumption DEF Blocks
<1>2. q \in [Ports -> Seq(HonestPackets(cfg, L, cl.expected))]
      /\ m \in HonestPackets(cfg, L, cl.expected)
  BY ReceivedKeepsPackets, PortsAreDistinct
<1>3. m.type = "ACK" => m.block \in Nat /\ m.block < cl.expected
  <2>1. m \in AckedBefore(cl.expected)
    BY <1>2 DEF HonestPackets
  <2> QED BY <1>1, <2>1, PacketFields, PacketsAssumption DEF Blocks
<1>4. /\ sess[s].pc \in SessionWaits /\ sess[s].pc # "free"
      /\ InStep(s) \/ cl.expected >= BlockMod
  BY DEF TakeAck, SessionCopies, SessionRuns, SessionWaits
<1>5. cl.expected >= BlockMod /\ NoWrap => cl.pc = "ok"
  BY WrappedIsComplete
<1> HIDE DEF m, q
<1>6. CASE sess[s].pc \in {"waitEof", "waitEmpty"} /\ EndSession(q, s, "ok")
  <2>1. L % B # 0 /\ NoWrap => cl.pc = "ok"
    <3>1. sess[s].pc = "waitEmpty" => L = 0 * B
      BY <1>1 DEF SessionCopies
    <3>2. sess[s].pc = "waitEof" /\ InStep(s) => b > 0 /\ L = (b - 1) * B
      BY DEF InStep
    <3>3. \A k \in Nat : (k * B) % B = 0
      BY <1>1, MultipleHasNoRest
    <3>4. sess[s].pc = "waitEmpty" => L % B = 0
      BY <3>1, <3>3
    <3>5. sess[s].pc = "waitEof" /\ InStep(s) => L % B = 0
      <4>1. b > 0 => b - 1 \in Nat
        BY <1>1
      <4> QED BY <3>2, <3>3, <4>1
    <3> QED BY <1>4, <1>5, <1>6, <3>4, <3>5
  <2> QED BY <1>2, <1>4, <1>6, <2>1, CopyEnds DEF SessionDone
<1>7. CASE EndSession(q, s, "failed")
  BY <1>2, <1>4, <1>7, CopyEnds DEF SessionDone
<1>8. CASE /\ sess[s].pc = "waitLast" /\ m.type = "ACK" /\ Covers(m, b)
           /\ EndSession(q, s, "ok")
  <2>1. NoWrap => cl.pc = "ok"
    <3>1. b < cl.expected
      BY <1>1, <1>3, <1>8 DEF Covers
    <3>2. InStep(s) => b > 0 /\ L < b * B
      BY <1>8 DEF InStep
    <3> QED BY <1>1, <1>4, <1>5, <3>1, <3>2, CoveredIsComplete
  <2> QED BY <1>2, <1>4, <1>8, <2>1, CopyEnds DEF SessionDone
<1>9. CASE /\ sess[s].pc = "wait" /\ m.type = "ACK" /\ Covers(m, b)
           /\ net' = q /\ UNCHANGED served
           /\ sess' = [sess EXCEPT ![s].pc = "send", ![s].block = NextBlock(b)]
  <2>1. /\ sess'[s].pc = "send" /\ sess'[s].block = NextBlock(b)
        /\ sess'[s].rpos = sess[s].rpos /\ sess'[s].neg = sess[s].neg
        /\ \A t \in Sessions : t # s => sess'[t] = sess[t]
    BY <1>1, <1>9 DEF SessionStates
  <2>2. B' = B /\ L' = L /\ Settled' = Settled
    BY <1>9 DEF B, L, Settled
  <2>3. InStep(s)' \/ cl.expected >= BlockMod
    <3>1. CASE b + 1 < BlockMod
      <4>1. NextBlock(b) = b + 1
        <5>1. b + 1 \in Nat /\ (b + 1) % BlockMod = b + 1
          BY <1>1, <3>1, SmallHasNoQuotient
        <5> QED BY <5>1 DEF NextBlock
      <4>2. sess'[s].block > 0 /\ sess'[s].block - 1 = b
        <5>1. sess'[s].block = b + 1
          BY <2>1, <4>1
        <5> HIDE DEF b
        <5> QED BY <1>1, <5>1
      <4>3. InStep(s) => sess[s].rpos = b * B /\ sess[s].rpos <= L
        BY <1>9 DEF InStep
      <4>4. InStep(s) => sess'[s].rpos = (sess'[s].block - 1) * B'
        BY <2>1, <2>2, <4>2, <4>3
      <4>5. InStep(s) => InStep(s)'
        BY <2>1, <2>2, <4>2, <4>3, <4>4 DEF InStep
      <4> QED BY <1>4, <4>5
    <3>2. CASE b + 1 >= BlockMod
      BY <1>1, <1>3, <1>9, <3>2 DEF Covers
    <3> QED BY <1>1, <3>1, <3>2
  <2> QED
    BY <1>2, <1>4, <1>9, <2>1, <2>2, <2>3
    DEF SessionKeeps, SessionCopies, SessionRuns, SessionWaits
<1>10. CASE net' = q /\ UNCHANGED <<served, sess, open>>
  <2>1. B' = B /\ L' = L /\ Settled' = Settled /\ (NoWrap <=> NoWrap')
    BY <1>10 DEF B, L, Settled, NoWrap
  <2> QED
    BY <1>2, <1>10, <2>1 DEF SessionKeeps, SessionCopies, InStep
<1>11. m.type = "ERROR" \/ m.type = "ACK"
  BY DEF TakeAck, m
<1> QED
  BY <1>6, <1>7, <1>8, <1>9, <1>10, <1>11 DEF TakeAck, m, q

LEMMA CopyTimesOut ==
    ASSUME GetInv, NEW s \in Sessions, SessionCopies(s), UNCHANGED <<cfg, cl, out>>,
           SessionTimeout(s) \/ PeerGone(s),
           net \in [Ports -> Seq(HonestPackets(cfg, L, cl.expected))]
    PROVE  SessionKeeps(s)
<1>1. /\ sess[s].pc # "free"
      /\ \/ EndSession(net, s, "failed")
         \/ sess[s].pc = "waitEmpty" /\ EndSession(net, s, "ok")
  BY DEF SessionTimeout, PeerGone, SessionRuns, SessionWaits
<1>2. sess[s].pc = "waitEmpty" => L % B = 0
  <2>1. sess[s].pc = "waitEmpty" => L = 0 * B
    BY SettledFacts DEF SessionCopies
  <2> QED BY <2>1, SettledFacts, MultipleHasNoRest
<1> QED BY <1>1, <1>2, CopyEnds DEF SessionDone

LEMMA ServerKeepsCopy ==
    ASSUME GetInv, Safe, ClientCopies, NEW s \in Sessions, SessionCopies(s),
           net \in [Ports -> Seq(HonestPackets(cfg, L, cl.expected))],
           \/ Session(s) \/ SessionTimer(s) \/ Refused(s)
           \/ Spawn(s) /\ UNCHANGED <<getVars, faults>>
    PROVE  SessionKeeps(s)
BY CopySpawns, CopyOpens, CopySends, CopyTakesAck, CopyTimesOut
DEF Session, SessionTimer, Refused, SessionStep, getVars

-----------------------------------------------------------------------------
LEMMA FilesConstant ==
    ASSUME [Next]_vars
    PROVE  UNCHANGED <<cfg, served>>
<1>1. CASE Client \/ ClientTimer \/ Writer
  BY <1>1 DEF Client, ClientTimer, Writer, serverVars, ClientStep, ClientTimeout,
              WriteDone, ClientReceive,
              SendRequest, NoAttempt, RequestTimeout, ReceiveReply, ReceiveData,
              ReceiveOther, ReceiveTimeout, EnterLoop, OldData, GapData, NextData,
              Acknowledge, Land
<1>2. ASSUME NEW s \in Sessions,
             \/ Session(s) \/ SessionTimer(s) \/ Refused(s)
             \/ Spawn(s) /\ UNCHANGED getVars
      PROVE  UNCHANGED <<cfg, served>>
  <2>1. UNCHANGED cfg
    BY <1>2 DEF Session, SessionTimer, Refused, getVars
  <2>2. UNCHANGED served
    BY <1>2 DEF Session, SessionTimer, Refused, Spawn, SessionStep, RefusePath, RefuseFile,
                SendOack, SendData, SendEmptyBlock, SendBlock, TakeAck, SessionTimeout,
                PeerGone, EndSession
  <2> QED BY <2>1, <2>2
<1>3. CASE Network \/ UNCHANGED vars
  BY <1>3 DEF Network, vars, getVars, serverVars
<1> QED BY <1>1, <1>2, <1>3 DEF Next, Listener

LEMMA CopyInvInit == Init => CopyInv
<1> SUFFICES ASSUME Init, Safe
             PROVE  /\ ClientCopies
                    /\ \A s \in Sessions : SessionCopies(s)
                    /\ net \in [Ports -> Seq(HonestPackets(cfg, L, cl.expected))]
  BY DEF CopyInv
<1>1. ClientCopies
  <2>1. /\ cl.pc = "start" /\ cl.expected = 1 /\ cl.blksize = cfg.blksize
        /\ cl.pos = 0 /\ cl.pending = NoWrite /\ cl.broken = FALSE
    BY DEF Init, ClientInit
  <2>2. B \in Nat /\ B > 0 /\ L \in Nat /\ cfg.blksize = B
    BY GetInvInit, SettledFacts DEF Safe
  <2>3. cl.expected - 1 = 0 /\ 0 * B = 0
    BY <2>1, <2>2
  <2>4. Handed = 0 /\ Counted
    BY <2>1, <2>2, <2>3 DEF Handed, Counted, L
  <2>5. AllButLast(0, B) <= 0
    <3>1. (0 - 1) \div B <= 0 /\ (0 - 1) \div B \in Int
      BY <2>2
    <3> QED BY <2>2, <3>1 DEF AllButLast
  <2> QED
    BY <2>1, <2>2, <2>4, <2>5 DEF ClientCopies, Held, NoWrite
<1>2. \A s \in Sessions : SessionCopies(s)
  BY DEF Init, ServerInit, SessionCopies, SessionRuns, SessionWaits
<1>3. net \in [Ports -> Seq(HonestPackets(cfg, L, cl.expected))]
  <2>1. <<>> \in Seq(HonestPackets(cfg, L, cl.expected))
    OBVIOUS
  <2> QED BY <2>1 DEF Init, NetInit
<1> QED BY <1>1, <1>2, <1>3

LEMMA CopyInvNext == GetInv /\ CopyInv /\ [Next]_vars => CopyInv'
<1> SUFFICES ASSUME GetInv, CopyInv, [Next]_vars
             PROVE  CopyInv'
  OBVIOUS
<1>0. cfg' = cfg /\ L' = L
  BY FilesConstant DEF L
<1> SUFFICES ASSUME Safe'
             PROVE  /\ ClientCopies'
                    /\ \A s \in Sessions : SessionCopies(s)'
                    /\ net' \in [Ports -> Seq(HonestPackets(cfg, L, cl'.expected))]
  BY <1>0 DEF CopyInv
<1>1. /\ cfg' = cfg /\ served' = served /\ B' = B /\ L' = L /\ Settled' = Settled
      /\ (NoWrap <=> NoWrap') /\ Safe
  BY FilesConstant DEF B, L, Settled, NoWrap, Safe, Plain, Lockstep
<1>2. /\ ClientCopies /\ \A s \in Sessions : SessionCopies(s)
      /\ net \in [Ports -> Seq(HonestPackets(cfg, L, cl.expected))]
  BY <1>1 DEF CopyInv
<1>3. cl.expected \in Nat
  BY DEF GetInv, ClientOK, ClientStates
<1>4. CASE Client \/ ClientTimer \/ Writer
  <2>1. CopyKeeps
    BY <1>1, <1>2, <1>4, ClientKeepsCopy DEF Safe
  <2>2. UNCHANGED sess
    BY <1>4 DEF Client, ClientTimer, Writer, serverVars
  <2>3. GetInv'
    BY <1>4, ClientInvariant
  <2>4. cl'.expected \in Nat
    BY <2>3 DEF GetInv, ClientOK, ClientStates
  <2>5. cl.expected >= BlockMod => cl'.expected >= BlockMod
    BY <1>3, <2>1, <2>4, PacketsAssumption DEF CopyKeeps
  <2>6. \A s \in Sessions : SessionCopies(s)'
    BY <1>1, <1>2, <2>1, <2>2, <2>5 DEF SessionCopies, InStep, CopyKeeps
  <2> QED BY <2>1, <2>6 DEF CopyKeeps
<1>5. ASSUME NEW s \in Sessions,
             \/ Session(s) \/ SessionTimer(s) \/ Refused(s)
             \/ Spawn(s) /\ UNCHANGED <<getVars, faults>>
      PROVE  /\ ClientCopies'
             /\ \A t \in Sessions : SessionCopies(t)'
             /\ net' \in [Ports -> Seq(HonestPackets(cfg, L, cl'.expected))]
  <2>1. SessionKeeps(s)
    BY <1>1, <1>2, <1>5, ServerKeepsCopy
  <2>2. UNCHANGED <<cl, out>>
    BY <1>5 DEF Session, SessionTimer, Refused, getVars
  <2>3. \A t \in Sessions : t # s => SessionCopies(t)'
    BY <1>1, <1>2, <2>1, <2>2 DEF SessionKeeps, SessionCopies, InStep
  <2>4. ClientCopies'
    BY <1>1, <1>2, <2>2 DEF ClientCopies, Counted, Held, Handed
  <2> QED BY <2>1, <2>2, <2>3, <2>4 DEF SessionKeeps
<1>6. CASE Network
  <2>1. /\ net' \in [Ports -> Seq(HonestPackets(cfg, L, cl.expected))]
        /\ UNCHANGED <<cl, out, sess>>
    BY <1>2, <1>6, FaultKeepsPackets DEF Network, getVars, serverVars
  <2> QED
    BY <1>1, <1>2, <2>1
    DEF ClientCopies, Counted, Held, Handed, SessionCopies, InStep
<1>7. CASE UNCHANGED vars
  BY <1>1, <1>2, <1>7
  DEF vars, ClientCopies, Counted, Held, Handed, SessionCopies, InStep
<1> QED BY <1>4, <1>5, <1>6, <1>7 DEF Next, Listener

\* At every step the client's file is the beginning of the source, and every packet
\* under way and every session's position in the file are what their numbers say.
THEOREM GetKeepsCopyInv == Spec => []CopyInv
BY CopyInvInit, CopyInvNext, GetInvHolds, PTL DEF Spec

-----------------------------------------------------------------------------
(* A GET implements FileCopy *)

Idle == {"start", "await", "backoff"}

LEMMA StatusValues ==
    /\ cl.pc \in Idle => Status = "idle"
    /\ cl.pc = "recv" => Status = "active"
    /\ cl.pc = "ok" => Status = "ok"
    /\ cl.pc \in ClientFailed => Status = "failed"
BY DEF Status, Idle, ClientFailed

\* What a step of the client can do to its state and to the file.
Untouched == UNCHANGED <<out, cl.expected, cl.blksize>>
Nothing == Untouched /\ (cl'.pc = cl.pc \/ {cl.pc, cl'.pc} \subseteq Idle)
Starts ==
    cl.pc = "await" /\ cl'.pc = "recv" /\ cl'.expected = cfg.resume + 1 /\ out' = <<>>
Fails == Untouched /\ cl.pc \in Idle \cup {"recv"} /\ cl'.pc \in ClientFailed
Takes ==
    /\ net[ClientPort] # <<>>
    /\ LET m == Head(net[ClientPort])
       IN  ReceiveData(m) /\ NextData(m) /\ ~WriteFails(m)

LEMMA ClientEffects ==
    ASSUME GetInv, Client \/ ClientTimer
    PROVE  Nothing \/ Starts \/ Fails \/ Takes
<1>1. cl \in ClientStates
  BY DEF GetInv, ClientOK
<1>2. CASE SendRequest
  BY <1>1, <1>2 DEF SendRequest, ClientStates, Nothing, Untouched, Idle
<1>3. CASE NoAttempt
  BY <1>1, <1>3
  DEF NoAttempt, Return, ClientStates, Fails, Untouched, Idle, ClientFailed
<1>4. CASE RequestTimeout
  BY <1>1, <1>4
  DEF RequestTimeout, Return, ClientStates, Nothing, Fails, Untouched, Idle, ClientFailed
<1>5. ASSUME NEW m, ReceiveReply(m) PROVE Starts \/ Fails
  BY <1>1, <1>5
  DEF ReceiveReply, EnterLoop, Return, ClientStates, Starts, Fails, Untouched, Idle,
      ClientFailed
<1>6. ASSUME net[ClientPort] # <<>>, ReceiveData(Head(net[ClientPort]))
      PROVE  Nothing \/ Fails \/ Takes
  <2> DEFINE m == Head(net[ClientPort])
  <2>1. CASE OldData(m) \/ GapData(m)
    <3>1. PICK b : Acknowledge(m, b)
      BY <2>1 DEF OldData, GapData
    <3> QED
      BY <1>1, <3>1 DEF Acknowledge, Heard, ClientStates, Nothing, Untouched
  <2>2. CASE NextData(m) /\ WriteFails(m)
    <3>1. cl.pc = "recv" /\ UNCHANGED out /\ cl' = [cl EXCEPT !.pc = "io"]
      BY <1>6, <2>2 DEF NextData, ReceiveData, Return
    <3> QED BY <1>1, <3>1 DEF ClientStates, Fails, Untouched, ClientFailed
  <2>3. CASE NextData(m) /\ ~WriteFails(m)
    BY <1>6, <2>3 DEF Takes
  <2> QED BY <1>6, <2>1, <2>2, <2>3 DEF ReceiveData
<1>7. ASSUME NEW m, ReceiveOther(m) PROVE Fails
  BY <1>1, <1>7
  DEF ReceiveOther, Return, ClientStates, Fails, Untouched, ClientFailed
<1>8. CASE ReceiveTimeout
  BY <1>1, <1>8
  DEF ReceiveTimeout, Return, ClientStates, Nothing, Fails, Untouched, ClientFailed
<1> QED
  BY <1>2, <1>3, <1>4, <1>5, <1>6, <1>7, <1>8
  DEF Client, ClientTimer, ClientStep, ClientTimeout, ClientReceive

\* What FileCopy sees of the destination: the bytes written, and the bytes due.
LEMMA DueBytes ==
    ASSUME GetInv, ClientCopies, cl.pc = "recv" \/ cl.expected > 1
    PROVE  /\ cl.pos \in Nat /\ Handed \in Nat /\ cl.pos <= Handed /\ Handed <= L
           /\ out = SourceFile(cl.pos) /\ Len(out) = cl.pos
           /\ SubSeq(Source, Len(out) + 1, Handed) = Segment(cl.pos, Handed)
           /\ out \o Segment(cl.pos, Handed) = SourceFile(Handed)
<1>1. /\ cl \in ClientStates /\ cl.pos \in Nat /\ cl.pending.len \in Nat
      /\ cl.expected \in Nat /\ cl.expected > 0 /\ cl.broken \in BOOLEAN
  BY DEF GetInv, ClientOK, ClientStates, Writes
<1>2. B \in Nat /\ L \in Nat /\ cl.blksize = B
  BY SettledFacts DEF ClientCopies
<1>3. Handed \in Nat /\ Handed <= L
  <2>1. (cl.expected - 1) * B \in Nat
    <3>1. cl.expected - 1 \in Nat
      BY <1>1
    <3> QED BY <1>2, <3>1, ProductIsNat
  <2> QED BY <1>2, <2>1 DEF Handed, L
<1>4. cl.pos <= Handed
  BY <1>1, <1>3 DEF ClientCopies, Held
<1>5. out = SourceFile(cl.pos)
  BY DEF ClientCopies, Held
<1>6. Len(out) = cl.pos
  BY <1>1, <1>5, SourceIsFile
<1>7. Source = SourceFile(L)
  BY DEF Source, L
<1> HIDE DEF Source, Handed
<1>8. /\ SubSeq(SourceFile(L), cl.pos + 1, Handed) = Segment(cl.pos, Handed)
      /\ SourceFile(cl.pos) \o Segment(cl.pos, Handed) = SourceFile(Handed)
  BY <1>1, <1>2, <1>3, <1>4, SegmentOfFile
<1> QED BY <1>1, <1>3, <1>4, <1>5, <1>6, <1>7, <1>8

LEMMA StepStarts ==
    ASSUME GetInv, GetInv', Plain, ClientCopies, ClientCopies', Starts,
           UNCHANGED <<cfg, served>>
    PROVE  Copy!Begin
<1>1. /\ cl.expected = 1 /\ cl'.expected = 1 /\ out \in Seq(Nat)
      /\ cl.blksize \in Nat /\ cl'.blksize \in Nat /\ L \in Nat
  <2>1. cl.expected = 1 /\ cl'.expected = 1 /\ out \in Seq(Nat) /\ L \in Nat
    BY SettledFacts DEF GetInv, ClientOK, AckBound, Starts, Plain
  <2>2. cl \in ClientStates /\ cl' \in ClientStates
    BY DEF GetInv, ClientOK
  <2> QED BY <2>1, <2>2 DEF ClientStates
<1>2. Handed = 0 /\ Handed' = 0
  <2>1. (cl.expected - 1) * cl.blksize = 0 /\ (cl'.expected - 1) * cl'.blksize = 0
    BY <1>1
  <2> QED BY <1>1, <2>1 DEF Handed, L
<1>3. Len(out) \in Nat /\ Len(out') = 0 /\ out' = <<>>
  BY <1>1 DEF Starts
<1>4. /\ SubSeq(Source, Len(out) + 1, Handed) = <<>>
      /\ SubSeq(Source', Len(out') + 1, Handed') = <<>>
  <2>1. /\ Len(out) + 1 \in Int /\ 0 < Len(out) + 1
        /\ Len(out') + 1 \in Int /\ 0 < Len(out') + 1
    BY <1>3
  <2> QED BY <1>2, <2>1, SubSeqEmpty
<1>5. Status = "idle" /\ Status' = "active" /\ Source' = Source
  BY DEF Starts, Status, ClientFailed, Source
<1> QED BY <1>3, <1>4, <1>5 DEF Copy!Begin

LEMMA StepTakes ==
    ASSUME GetInv, GetInv', CopyInv, Safe, ClientCopies, ClientCopies', Takes,
           UNCHANGED <<cfg, served>>
    PROVE  Copy!Continue \/ Copy!Complete
<1> DEFINE m == Head(net[ClientPort])
<1>1. ReceiveData(m) /\ NextData(m) /\ ~WriteFails(m) /\ net[ClientPort] # <<>>
  BY DEF Takes
<1>2. net \in [Ports -> Seq(HonestPackets(cfg, L, cl.expected))]
  BY DEF CopyInv
<1>3. Rightful(m, B, L)
  BY <1>1, <1>2, CopyData
<1>4. m \in AckedBefore(cl.expected) /\ m.type = "DATA"
  BY <1>1, <1>2, ReceivedKeepsPackets, PortsAreDistinct DEF HonestPackets, ReceiveData
<1>5. cl.expected \in Nat /\ cl'.expected \in Nat /\ cl.expected > 0
  BY DEF GetInv, ClientOK, ClientStates
<1>6. m.from \in Ports /\ m.block \in Blocks /\ m.off \in Nat /\ m.len \in Nat
  BY <1>4, <1>5, PacketFields, PortsAreDistinct
<1> HIDE DEF m
<1>7. /\ cl.pc = "recv" /\ UNCHANGED out
      /\ IsLast(m) => cl' = [Taken(m) EXCEPT !.pc = "ok"]
      /\ ~IsLast(m) => cl' = Taken(m)
  BY <1>1 DEF ReceiveData, NextData
<1>8. /\ cl'.expected = cl.expected + 1
      /\ Handed' = Handed + m.len /\ Handed' <= L
      /\ IsLast(m) => Handed' = L
      /\ ~IsLast(m) => m.len > 0
      /\ m.len > 0 => cl.pos = Handed
  BY <1>1, <1>3, <1>6, <1>7, BlockIsHandedOver
<1>9. /\ cl'.pos = cl.pos
      /\ IsLast(m) => cl'.pc = "ok"
      /\ ~IsLast(m) => cl'.pc = "recv"
  <2>1. /\ cl \in ClientStates /\ cfg \in Configs
    BY DEF GetInv, ClientOK
  <2>2. Taken(m) \in ClientStates /\ Taken(m).pc = "recv" /\ Taken(m).pos = cl.pos
    BY <1>6, <1>7, <2>1, TakenFacts
  <2> QED BY <1>7, <2>2 DEF ClientStates
<1>10. L' = L /\ Source' = Source /\ L \in Nat /\ Source = SourceFile(L)
  BY SettledFacts DEF L, Source
<1> DEFINE now == SubSeq(Source, Len(out) + 1, Handed)
           later == SubSeq(Source, Len(out) + 1, Handed')
<1>11. /\ cl.pos \in Nat /\ Handed \in Nat /\ cl.pos <= Handed
       /\ now = Segment(cl.pos, Handed)
  BY <1>7, DueBytes
<1>12. /\ Handed' \in Nat /\ cl.pos <= Handed' /\ later = Segment(cl.pos, Handed')
       /\ out \o later = SourceFile(Handed')
  <2>1. /\ Handed' \in Nat /\ cl.pos <= Handed' /\ Handed' <= L
    BY <1>6, <1>8, <1>11
  <2>2. Len(out) = cl.pos /\ out = SourceFile(cl.pos)
    BY <1>7, DueBytes
  <2> HIDE DEF Handed
  <2>3. /\ SubSeq(SourceFile(L), cl.pos + 1, Handed') = Segment(cl.pos, Handed')
        /\ SourceFile(cl.pos) \o Segment(cl.pos, Handed') = SourceFile(Handed')
    BY <1>10, <1>11, <2>1, SegmentOfFile
  <2> QED BY <1>10, <2>1, <2>2, <2>3
<1>13. Status = "active" /\ Status' = IF IsLast(m) THEN "ok" ELSE "active"
  BY <1>7, <1>9 DEF Status, ClientFailed
<1> HIDE DEF now, later, Handed, IsLast
<1>14. m.len > 0 => Copy!HandOver
  <2> SUFFICES ASSUME m.len > 0 PROVE Copy!HandOver
    OBVIOUS
  <2>1. now = <<>> /\ later # <<>>
    <3>1. cl.pos = Handed /\ cl.pos < Handed'
      BY <1>6, <1>8, <1>11
    <3> QED BY <1>11, <1>12, <3>1, SegmentIsFile
  <2>2. IsPrefix(out \o later, Source)
    BY <1>8, <1>10, <1>12, SourcePrefix
  <2>3. Copy!IsPrefix(out \o later, Source)
    BY <2>2 DEF IsPrefix, Copy!IsPrefix
  <2> QED BY <1>7, <1>10, <2>1, <2>3 DEF Copy!HandOver, now, later
<1>15. m.len = 0 => UNCHANGED <<Source, out, SubSeq(Source, Len(out) + 1, Handed)>>
  BY <1>7, <1>8, <1>10, <1>11
<1>16. IsLast(m) => out' \o later = Source
  BY <1>7, <1>8, <1>10, <1>12
<1>17. CASE IsLast(m)
  <2>1. Copy!HandOver \/ UNCHANGED <<Source, out, SubSeq(Source, Len(out) + 1, Handed)>>
    <3>1. m.len = 0 \/ m.len > 0
      BY <1>6
    <3> QED BY <1>14, <1>15, <3>1, Zenon
  <2>2. SubSeq(Source', Len(out') + 1, Handed') = later
    BY <1>7, <1>10 DEF later
  <2>3. Status = "active" /\ Status' = "ok"
    BY <1>13, <1>17
  <2> QED BY <1>16, <1>17, <2>1, <2>2, <2>3 DEF Copy!Complete
<1>18. CASE ~IsLast(m)
  BY <1>8, <1>13, <1>14, <1>18 DEF Copy!Continue
<1> QED BY <1>17, <1>18

LEMMA StepLands ==
    ASSUME GetInv, GetInv', CopyInv, Safe, ClientCopies, ClientCopies', Land,
           UNCHANGED <<cfg, served>>
    PROVE  Copy!Write \/ UNCHANGED Copy!vars
<1>1. PICK n \in Nat :
          /\ cl.pos + n <= Handed /\ Handed' = Handed /\ cl.expected > 1
          /\ out = SourceFile(cl.pos) /\ out' = SourceFile(cl.pos + n)
          /\ cl'.pc = cl.pc
  BY CopyLands DEF CopyInv
<1>2. /\ cl.pos \in Nat /\ Handed \in Nat /\ cl.pos <= Handed /\ Handed <= L
      /\ Len(out) = cl.pos
      /\ SubSeq(Source, Len(out) + 1, Handed) = Segment(cl.pos, Handed)
  BY <1>1, DueBytes
<1>3. Source' = Source /\ Status' = Status /\ L \in Nat /\ Source = SourceFile(L)
  BY <1>1, SettledFacts DEF Source, Status, L
<1> DEFINE now == SubSeq(Source, Len(out) + 1, Handed)
           later == SubSeq(Source', Len(out') + 1, Handed')
<1>4. cl.pos + n \in Nat /\ Len(out') = cl.pos + n
  <2>1. cl.pos + n \in Nat
    BY <1>2
  <2> QED BY <1>1, <2>1, SourceIsFile
<1>5. later = Segment(cl.pos + n, Handed)
  <2>1. later = SubSeq(SourceFile(L), (cl.pos + n) + 1, Handed)
    BY <1>1, <1>3, <1>4
  <2> QED BY <1>1, <1>2, <1>3, <1>4, <2>1, SegmentOfFile
<1>6. CASE n = 0
  <2>1. cl.pos + n = cl.pos
    BY <1>2, <1>6
  <2>2. out' = out /\ later = now
    BY <1>1, <1>2, <1>5, <2>1
  <2> QED BY <1>3, <2>2 DEF Copy!vars
<1>7. CASE n > 0
  <2>1. Len(now) = Handed - cl.pos
    BY <1>2, SegmentIsFile
  <2>2. n \in 1..Len(now)
    BY <1>1, <1>2, <1>7, <2>1
  <2>3. /\ SubSeq(now, 1, n) = Segment(cl.pos, cl.pos + n)
        /\ SubSeq(now, n + 1, Len(now)) = Segment(cl.pos + n, Handed)
    <3>1. /\ SubSeq(Segment(cl.pos, Handed), 1, n) = Segment(cl.pos, cl.pos + n)
          /\ SubSeq(Segment(cl.pos, Handed), n + 1, Handed - cl.pos)
                 = Segment(cl.pos + n, Handed)
      <4> HIDE DEF Handed
      <4> QED BY <1>1, <1>2, SegmentSplits
    <3> QED BY <1>2, <2>1, <3>1
  <2>4. out' = out \o SubSeq(now, 1, n)
    <3>1. SourceFile(cl.pos) \o Segment(cl.pos, cl.pos + n) = SourceFile(cl.pos + n)
      <4>1. cl.pos <= cl.pos + n
        BY <1>2
      <4> QED BY <1>2, <1>4, <4>1, SegmentOfFile
    <3> QED BY <1>1, <2>3, <3>1
  <2>5. later = SubSeq(now, n + 1, Len(now))
    BY <1>5, <2>3
  <2> QED BY <1>3, <2>2, <2>4, <2>5 DEF Copy!Write
<1> QED BY <1>6, <1>7

LEMMA CopyStep ==
    ASSUME GetInv, CopyInv, Safe, [Next]_vars, GetInv', CopyInv'
    PROVE  [Copy!Next]_Copy!vars
<1>1. UNCHANGED <<cfg, served>> /\ Source' = Source /\ Safe'
  BY FilesConstant DEF L, B, Settled, Source, Safe, Plain, Lockstep, NoWrap
<1>2. ClientCopies /\ ClientCopies' /\ Plain
  BY <1>1 DEF CopyInv, Safe
<1>3. CASE Client \/ ClientTimer
  <2>1. CASE Nothing
    <3>1. Status' = Status
      BY <2>1 DEF Nothing, Idle, Status, ClientFailed
    <3>2. UNCHANGED <<out, Handed>>
      BY <1>1, <2>1 DEF Nothing, Untouched, Handed
    <3> QED BY <1>1, <3>1, <3>2 DEF Copy!vars
  <2>2. CASE Starts
    BY <1>1, <1>2, <2>2, StepStarts DEF Copy!Next
  <2>3. CASE Fails
    <3>1. Status \in {"idle", "active"} /\ Status' = "failed"
      BY <2>3 DEF Fails, Idle, Status, ClientFailed
    <3>2. UNCHANGED <<out, Handed>>
      BY <1>1, <2>3 DEF Fails, Untouched, Handed
    <3> QED BY <1>1, <3>1, <3>2 DEF Copy!Next, Copy!Abort
  <2>4. CASE Takes
    BY <1>1, <1>2, <2>4, StepTakes DEF Copy!Next
  <2> QED BY <1>3, <2>1, <2>2, <2>3, <2>4, ClientEffects
<1>4. CASE Writer
  BY <1>1, <1>2, <1>4, StepLands DEF Writer, WriteDone, Copy!Next
<1>5. CASE UNCHANGED <<cl, out>>
  <2>1. Status' = Status /\ Handed' = Handed
    BY <1>1, <1>5 DEF Status, Handed
  <2> QED BY <1>1, <1>5, <2>1 DEF Copy!vars
<1>6. [Next]_vars => (Client \/ ClientTimer) \/ Writer \/ UNCHANGED <<cl, out>>
  BY DEF Next, vars, Listener, Session, SessionTimer, Refused, Network, getVars
<1> QED BY <1>3, <1>4, <1>5, <1>6

\* get keeps the promise of FileCopy: the destination is truncated when the server
\* has answered and grows by the right bytes only; when get returns Ok, all of the
\* file has been handed to write_all and all but the last block is written, and that
\* block, which tokio still has to write or has failed to, is all that may follow.
THEOREM GetImplementsFileCopy ==
    ASSUME \A c \in Configs : c.resume = 0 /\ c.blksize \in MinBlock..MaxBlock,
           \A c \in Configs, f \in ServedFiles :
               \/ Granted(RequestOptions(c, NoSize)).windowsize = 1
               \/ f.len < (BlockMod - 1) * Granted(RequestOptions(c, NoSize)).blksize
    PROVE  Spec => ImplementsFileCopy
<1>1. GetInv => Safe
  BY DEF GetInv, ClientOK, ServerOK, Safe, Plain, Lockstep, NoWrap,
         Settled, SettledFor
<1>2. Init => Copy!Init
  <2> SUFFICES ASSUME Init PROVE Copy!Init
    OBVIOUS
  <2>1. Source \in Seq(Nat) /\ L \in Nat
    BY GetInvInit, SettledFacts, SourceIsFile DEF Source, L
  <2>2. out \in Seq(Nat)
    BY OldIsFile, TftpGetAssumption DEF Init, ClientInit
  <2>3. Status = "idle"
    BY StatusValues DEF Init, ClientInit, Idle
  <2>4. Handed = 0
    <3>1. cl.expected = 1 /\ cl.blksize \in Nat
      BY ConfigTypes DEF Init, ClientInit
    <3>2. (cl.expected - 1) * cl.blksize = 0
      BY <3>1
    <3> QED BY <2>1, <3>2 DEF Handed, L
  <2>5. SubSeq(Source, Len(out) + 1, Handed) = <<>>
    <3>1. Len(out) + 1 \in Int /\ 0 < Len(out) + 1 /\ 0 \in Int
      BY <2>2
    <3> QED BY <2>4, <3>1, SubSeqEmpty
  <2> QED BY <2>1, <2>2, <2>3, <2>5 DEF Copy!Init, Copy!Bytes
<1>3. GetInv /\ CopyInv /\ [Next]_vars /\ GetInv' /\ CopyInv'
          => [Copy!Next]_Copy!vars
  BY <1>1, CopyStep
<1>4. Spec => Copy!Spec
  BY <1>2, <1>3, GetInvHolds, GetKeepsCopyInv, PTL DEF Spec, Copy!Spec
<1> QED BY <1>4 DEF ImplementsFileCopy

-----------------------------------------------------------------------------
(* A session stays within a window of the client, and one that has ended well has
   waited for the blocks it should *)

Window(s) == Greater(sess[s].neg.windowsize, 1)

\* The first block, and the last one before `block` that ends a window, have been
\* counted.
Behind(s) ==
    /\ sess[s].block > 0
    /\ sess[s].block > 1 => cl.expected > 1
    /\ (sess[s].block - 1) - ((sess[s].block - 1) % Window(s)) < cl.expected

\* The blocks awaited of a file that ends in a full block have been counted.
Vouched(s) ==
    L % B = 0 /\ NoWrap => LastAwaited(L, sess[s].neg) < cl.expected

Paced(s) ==
    /\ sess[s].pc \in SessionRuns =>
           sess[s].rpos <= L /\ (Behind(s) \/ cl.expected >= BlockMod)
    /\ sess[s].pc = "ok" => Vouched(s)

PaceInv == Safe => \A s \in Sessions : Paced(s)

LEMMA RemainderIsUnique ==
    ASSUME NEW q \in Nat, NEW w \in Nat, NEW r \in Nat, r < w
    PROVE  (w * q + r) % w = r
OBVIOUS

LEMMA DivisionTheorem ==
    ASSUME NEW b \in Nat, NEW w \in Nat, w > 0
    PROVE  /\ b \div w \in Nat /\ b % w \in Nat /\ b % w < w
           /\ b = w * (b \div w) + (b % w)
OBVIOUS

LEMMA WindowStartStays ==
    ASSUME NEW b \in Nat, NEW w \in Nat, b > 0, w > 0, b % w # 0
    PROVE  b - (b % w) = (b - 1) - ((b - 1) % w)
<1> DEFINE q == b \div w
           r == b % w
<1>1. q \in Nat /\ r \in Nat /\ r < w /\ r > 0 /\ b = w * q + r
  BY DivisionTheorem
<1> HIDE DEF q, r
<1>2. r - 1 \in Nat /\ r - 1 < w /\ b - 1 = w * q + (r - 1)
  BY <1>1
<1>3. (b - 1) % w = r - 1
  <2>1. (w * q + (r - 1)) % w = r - 1
    BY <1>1, <1>2, RemainderIsUnique, Zenon
  <2> QED BY <1>2, <2>1
<1>4. b - r = (b - 1) - (r - 1)
  BY <1>1
<1> QED BY <1>3, <1>4 DEF r

\* What a step of session s must keep.
PaceKeeps(s) ==
    /\ sess'[s].pc \in SessionRuns =>
           sess'[s].rpos <= L /\ (Behind(s)' \/ cl.expected >= BlockMod)
    /\ sess'[s].pc = "ok" => Vouched(s)'
    /\ \A t \in Sessions : t # s => sess'[t] = sess[t]

\* A session that has waited for the end of a file that ends in a full block has been
\* told of all blocks it was to wait for.
LEMMA OkVouches ==
    ASSUME GetInv, NEW s \in Sessions, SessionCopies(s), Paced(s),
           sess[s].pc \in SessionRuns,
           sess[s].pc \in {"waitEof", "waitEmpty", "waitLast"} \/ ~InStep(s)
    PROVE  Vouched(s)
<1> SUFFICES ASSUME L % B = 0, NoWrap
             PROVE  LastAwaited(L, sess[s].neg) < cl.expected
  BY DEF Vouched
<1> DEFINE n == L \div B
           w == Window(s)
           b == sess[s].block
           last == (n \div w) * w
           e == cl.expected
<1>1. /\ B \in Nat /\ B > 0 /\ L \in Nat /\ w \in Nat /\ w > 0
      /\ b \in Nat /\ e \in Nat /\ e > 0 /\ BlockMod \in Nat /\ BlockMod > 2
      /\ sess[s].neg.blksize = B
  <2>1. sess[s] \in SessionStates /\ cl \in ClientStates
    BY DEF GetInv, ServerOK, ClientOK
  <2>2. b \in Nat /\ e \in Nat /\ e > 0 /\ w \in Nat /\ w > 0
    BY <2>1, PacketsAssumption DEF SessionStates, ClientStates, Blocks, Window, Negotiations
  <2>3. sess[s].neg.blksize = B
    BY DEF SessionCopies, B, SessionRuns, SessionWaits
  <2> QED BY <2>2, <2>3, SettledFacts, PacketsAssumption
<1>2. n \in Nat /\ L = n * B
  <2>1. n \in Nat /\ L = B * n + (L % B)
    BY <1>1, DivisionTheorem
  <2> HIDE DEF n
  <2> QED BY <1>1, <2>1
<1>3. n \div w \in Nat /\ last \in Nat /\ last = n - (n % w)
  <2> HIDE DEF n, w
  <2>1. /\ n \div w \in Nat /\ n % w \in Nat /\ n = w * (n \div w) + (n % w)
    BY <1>1, <1>2, DivisionTheorem
  <2>2. \A k \in Nat : k * w \in Nat /\ w * k = k * w
    BY <1>1
  <2> QED BY <1>2, <2>1, <2>2
<1>4. LastAwaited(L, sess[s].neg) = Lesser(n, Greater(last, 1))
  BY <1>1 DEF LastAwaited, Window
<1> HIDE DEF n, last
<1>5. CASE e >= BlockMod
  <2>1. n < BlockMod - 1
    <3>1. n * B < (BlockMod - 1) * B
      BY <1>2 DEF NoWrap, L, B, Settled, SettledFor
    <3>2. BlockMod - 1 \in Nat
      BY <1>1
    <3> QED BY <1>1, <1>2, <3>1, <3>2, ProductCancels
  <2> HIDE DEF e
  <2>2. Lesser(n, Greater(last, 1)) < e
    BY <1>1, <1>2, <1>3, <1>5, <2>1
  <2> QED BY <1>4, <2>2 DEF e
<1>6. CASE sess[s].pc = "waitEmpty"
  <2>1. n = 0
    <3>1. L = 0
      BY <1>6 DEF SessionCopies
    <3>2. ~(0 * B < n * B)
      BY <1>1, <1>2, <3>1
    <3>3. n > 0 => 1 * B <= n * B
      BY <1>1, <1>2, ProductMonotonic
    <3> QED BY <1>1, <1>2, <3>1, <3>3
  <2>2. Lesser(n, Greater(last, 1)) = 0
    BY <1>3, <2>1
  <2> QED BY <1>1, <1>4, <2>2
<1>7. CASE InStep(s) /\ Behind(s) /\ sess[s].pc = "waitLast"
  <2>1. (b - 1) * B < n * B /\ n * B < b * B /\ b > 0 /\ b - 1 \in Nat
    BY <1>1, <1>2, <1>7 DEF InStep
  <2>2. b - 1 < n /\ n < b
    BY <1>1, <1>2, <2>1, ProductCancels
  <2> QED BY <1>1, <1>2, <2>2
<1>8. CASE InStep(s) /\ Behind(s) /\ sess[s].pc = "waitEof"
  <2>1. (b - 1) * B = n * B /\ b > 0 /\ b - 1 \in Nat
    BY <1>1, <1>2, <1>8 DEF InStep
  <2>2. b - 1 = n
    <3>1. \A d, k \in Nat : d < k => d * B < k * B
      <4> SUFFICES ASSUME NEW d \in Nat, NEW k \in Nat, d < k PROVE d * B < k * B
        OBVIOUS
      <4>1. (d + 1) * B <= k * B /\ (d + 1) * B = d * B + B
        <5>1. d + 1 \in Nat /\ d + 1 <= k
          OBVIOUS
        <5> QED BY <1>1, <5>1, ProductMonotonic
      <4> QED BY <1>1, <4>1, ProductIsNat
    <3>2. ~(b - 1 < n) /\ ~(n < b - 1)
      <4>1. (b - 1) * B \in Nat
        BY <1>1, <2>1, ProductIsNat
      <4> QED BY <1>2, <2>1, <3>1, <4>1
    <3> QED BY <1>2, <2>1, <3>2
  <2>3. last < e
    <3>1. (b - 1) - ((b - 1) % w) < e
      BY <1>8 DEF Behind
    <3> QED BY <1>3, <2>2, <3>1
  <2>4. n > 0 => 1 < e
    BY <1>1, <1>8, <2>2 DEF Behind
  <2> HIDE DEF e
  <2>5. Lesser(n, Greater(last, 1)) < e
    BY <1>1, <1>2, <1>3, <2>3, <2>4
  <2> QED BY <1>4, <2>5 DEF e
<1>9. (InStep(s) \/ e >= BlockMod) /\ (Behind(s) \/ e >= BlockMod)
  BY DEF SessionCopies, Paced
<1> QED BY <1>5, <1>6, <1>7, <1>8, <1>9

LEMMA PaceEnds ==
    ASSUME GetInv, NEW s \in Sessions, NEW q, NEW result \in SessionDone,
           UNCHANGED <<cfg, cl>>, EndSession(q, s, result),
           result = "ok" => Vouched(s)
    PROVE  PaceKeeps(s)
<1>1. /\ sess'[s].pc = result /\ sess'[s].neg = sess[s].neg
      /\ \A t \in Sessions : t # s => sess'[t] = sess[t]
  BY DEF EndSession, GetInv, ServerOK, SessionStates
<1>2. L' = L /\ B' = B /\ (NoWrap' <=> NoWrap)
  BY DEF EndSession, L, B, Settled, NoWrap
<1>3. Vouched(s)' <=> Vouched(s)
  BY <1>1, <1>2 DEF Vouched
<1> QED BY <1>1, <1>3 DEF PaceKeeps, SessionDone, SessionRuns, SessionWaits

LEMMA PaceOpens ==
    ASSUME GetInv, NEW s \in Sessions, SessionCopies(s), UNCHANGED <<cfg, cl>>,
           Spawn(s) \/ RefusePath(s) \/ RefuseFile(s) \/ SendOack(s)
    PROVE  PaceKeeps(s)
<1>1. sess \in [Sessions -> SessionStates] /\ cl.expected \in Nat /\ cl.expected > 0
  BY DEF GetInv, ServerOK, ClientOK, ClientStates
<1>2. CASE Spawn(s)
  BY <1>1, <1>2 DEF Spawn, SessionStates, PaceKeeps, SessionRuns, SessionWaits
<1>3. CASE RefusePath(s) \/ RefuseFile(s)
  BY <1>3, PaceEnds DEF RefusePath, RefuseFile, SessionDone
<1>4. CASE SendOack(s)
  <2>1. /\ sess'[s].block = 1 /\ sess'[s].rpos = 0 /\ sess'[s].neg = Settled
        /\ sess'[s].pc = "send"
        /\ \A t \in Sessions : t # s => sess'[t] = sess[t]
    BY <1>1, <1>4 DEF SendOack, SessionStates, SessionCopies
  <2> DEFINE w == Greater(Settled.windowsize, 1)
  <2>2. w \in Nat /\ w > 0 /\ L \in Nat
    BY SettledFacts DEF Negotiations
  <2> HIDE DEF w
  <2>3. (1 - 1) - ((1 - 1) % w) = 0
    <3>1. 0 % w = 0
      BY <2>2, SmallHasNoQuotient
    <3> QED BY <3>1
  <2>4. Behind(s)'
    BY <1>1, <2>1, <2>3 DEF Behind, Window, w
  <2> QED BY <2>1, <2>2, <2>4 DEF PaceKeeps
<1> QED BY <1>2, <1>3, <1>4

LEMMA PaceSends ==
    ASSUME GetInv, Safe, NEW s \in Sessions, SessionCopies(s), Paced(s),
           UNCHANGED <<cfg, cl, out>>, SendData(s) \/ SendEmptyBlock(s)
    PROVE  PaceKeeps(s)
<1> DEFINE b == sess[s].block
           pos == sess[s].rpos
           w == Window(s)
<1>1. /\ sess \in [Sessions -> SessionStates] /\ b \in Blocks /\ b \in Nat
      /\ b < BlockMod /\ pos \in Nat /\ B \in Nat /\ B > 0 /\ L \in Nat
      /\ cl.expected \in Nat /\ BlockMod \in Nat /\ BlockMod > 2
  BY SettledFacts, PacketsAssumption
  DEF GetInv, ServerOK, SessionStates, ClientOK, ClientStates, Blocks
<1>2. /\ sess[s].pc = "send" /\ sess[s].neg = Settled /\ sess[s].neg.blksize = B
      /\ served.len = L /\ w \in Nat /\ w > 0
  BY SettledFacts
  DEF SendData, SendEmptyBlock, SessionCopies, B, L, Window, Negotiations
<1>3. /\ InStep(s) \/ cl.expected >= BlockMod
      /\ Behind(s) \/ cl.expected >= BlockMod
      /\ pos <= L
  BY <1>2 DEF SessionCopies, SessionRuns, Paced
<1>4. ASSUME NEW n, NEW pc, NEW c, SendBlock(s, n, pc, c)
      PROVE  /\ sess'[s].pc = pc /\ sess'[s].block = c /\ sess'[s].rpos = pos + n
             /\ sess'[s].neg = sess[s].neg
             /\ \A t \in Sessions : t # s => sess'[t] = sess[t]
  BY <1>1, <1>4 DEF SendBlock, SessionStates
<1>5. ASSUME NEW n \in Nat, NEW pc \in SessionRuns, SendBlock(s, n, pc, b),
             pos + n <= L
      PROVE  PaceKeeps(s)
  BY <1>3, <1>4, <1>5 DEF PaceKeeps, Behind, Window, SessionRuns, SessionWaits
<1>6. CASE SendEmptyBlock(s)
  <2>1. \E pc \in SessionRuns : SendBlock(s, 0, pc, b)
    BY <1>6 DEF SendEmptyBlock, SessionRuns, SessionWaits
  <2>2. pos + 0 <= L
    BY <1>1, <1>3
  <2> QED BY <1>5, <2>1, <2>2
<1>7. CASE SendData(s)
  <2> DEFINE n == Lesser(B, L - pos)
  <2>1. n \in Nat /\ pos + n <= L /\ (~(n < B) => n = B)
    BY <1>1, <1>2, <1>7 DEF SendData
  <2>2. \/ \E pc \in SessionRuns : SendBlock(s, n, pc, b)
        \/ /\ ~WaitsAfter(b, w, n < B) /\ ~(n < B)
           /\ SendBlock(s, n, "send", NextBlock(b))
        \/ /\ ~WaitsAfter(b, w, n < B) /\ n < B
           /\ EndSession(Sent(net, ClientPort, Data(s, b, pos, n)), s, "ok")
    BY <1>2, <1>7 DEF SendData, Window, SessionRuns, SessionWaits
  <2> HIDE DEF n
  <2>3. CASE \E pc \in SessionRuns : SendBlock(s, n, pc, b)
    BY <1>5, <2>1, <2>3
  <2>4. CASE /\ ~WaitsAfter(b, w, n < B) /\ n < B
             /\ EndSession(Sent(net, ClientPort, Data(s, b, pos, n)), s, "ok")
    <3>1. ~InStep(s)
      BY <1>1, <2>4 DEF InStep, WaitsAfter
    <3>2. Vouched(s)
      BY <1>2, <3>1, OkVouches DEF SessionRuns
    <3> QED BY <2>4, <3>2, PaceEnds DEF SessionDone
  <2>5. CASE /\ ~WaitsAfter(b, w, n < B) /\ ~(n < B)
             /\ SendBlock(s, n, "send", NextBlock(b))
    <3>1. /\ sess'[s].pc = "send" /\ sess'[s].block = NextBlock(b)
          /\ sess'[s].rpos <= L /\ sess'[s].neg = sess[s].neg
          /\ \A t \in Sessions : t # s => sess'[t] = sess[t]
      BY <1>4, <2>1, <2>5
    <3>2. ASSUME InStep(s), Behind(s) PROVE Behind(s)'
      <4>1. ~WaitsAfter(b, w, FALSE)
        BY <2>5 DEF WaitsAfter
      <4>2. b > 0 /\ b % w # 0 /\ b > 1 /\ cl.expected > 1
        BY <1>1, <3>2, <4>1 DEF Behind, WaitsAfter
      <4>3. b + 1 < BlockMod
        BY <1>1, <1>2, <2>1, <2>5, <3>2, <4>1, NoWrapUnacknowledged DEF w, Window
      <4>4. NextBlock(b) = b + 1
        <5>1. b + 1 \in Nat /\ (b + 1) % BlockMod = b + 1
          BY <1>1, <4>3, SmallHasNoQuotient
        <5> QED BY <5>1 DEF NextBlock
      <4>5. b - (b % w) < cl.expected
        <5>1. b - (b % w) = (b - 1) - ((b - 1) % w)
          BY <1>1, <1>2, <4>2, WindowStartStays
        <5> QED BY <3>2, <5>1 DEF Behind
      <4>6. Window(s)' = w
        BY <3>1 DEF Window
      <4>7. sess'[s].block = b + 1
        BY <3>1, <4>4
      <4> HIDE DEF b, w
      <4>8. sess'[s].block - 1 = b /\ sess'[s].block > 0
        BY <1>1, <4>7
      <4> QED BY <4>2, <4>5, <4>6, <4>8 DEF Behind
    <3>3. Behind(s)' \/ cl.expected >= BlockMod
      BY <1>3, <3>2
    <3> QED BY <3>1, <3>3 DEF PaceKeeps, SessionRuns, SessionWaits
  <2> QED BY <2>2, <2>3, <2>4, <2>5
<1> QED BY <1>6, <1>7

LEMMA PaceTakesAck ==
    ASSUME GetInv, NEW s \in Sessions, SessionCopies(s), Paced(s),
           UNCHANGED <<cfg, cl, out>>, net[s] # <<>>, TakeAck(s, Head(net[s]))
    PROVE  PaceKeeps(s)
<1> DEFINE m == Head(net[s])
           q == Received(net, s)
           b == sess[s].block
           w == Window(s)
<1>1. /\ sess \in [Sessions -> SessionStates] /\ b \in Nat /\ b < BlockMod
      /\ cl.expected \in Nat /\ BlockMod \in Nat /\ BlockMod > 0
      /\ w \in Nat /\ w > 0
  BY PacketsAssumption
  DEF GetInv, ServerOK, SessionStates, ClientOK, ClientStates, Blocks, Window,
      Negotiations
<1>2. m.type = "ACK" => m.block \in Nat /\ m.block < cl.expected
  <2>1. m \in AckedBefore(cl.expected)
    BY ReceivedKeepsPackets, PortsAreDistinct DEF GetInv, AckBound
  <2> QED BY <1>1, <2>1, PacketFields, PacketsAssumption DEF Blocks
<1>3. sess[s].pc \in SessionRuns
  BY DEF TakeAck, SessionRuns
<1> HIDE DEF m, q
<1>4. CASE \/ EndSession(q, s, "failed")
           \/ /\ sess[s].pc \in {"waitEof", "waitEmpty", "waitLast"}
              /\ EndSession(q, s, "ok")
  BY <1>3, <1>4, OkVouches, PaceEnds DEF SessionDone
<1>5. CASE /\ m.type = "ACK" /\ Covers(m, b)
           /\ sess' = [sess EXCEPT ![s].pc = "send", ![s].block = NextBlock(b)]
           /\ UNCHANGED served
  <2>1. /\ sess'[s].pc = "send" /\ sess'[s].block = NextBlock(b)
        /\ sess'[s].rpos = sess[s].rpos /\ sess'[s].neg = sess[s].neg
        /\ \A t \in Sessions : t # s => sess'[t] = sess[t]
    BY <1>1, <1>5 DEF SessionStates
  <2>2. b < cl.expected
    BY <1>1, <1>2, <1>5 DEF Covers
  <2>3. Behind(s)' \/ cl.expected >= BlockMod
    <3>1. CASE b + 1 < BlockMod /\ Behind(s)
      <4>1. NextBlock(b) = b + 1
        <5>1. b + 1 \in Nat
          BY <1>1
        <5> HIDE DEF b
        <5>2. (b + 1) % BlockMod = b + 1
          BY <1>1, <3>1, <5>1, SmallHasNoQuotient, Zenon
        <5> QED BY <5>2 DEF NextBlock
      <4>2. Window(s)' = w
        BY <2>1 DEF Window
      <4>3. sess'[s].block = b + 1
        BY <2>1, <4>1
      <4>4. b % w \in Nat
        BY <1>1, DivisionTheorem
      <4> HIDE DEF b, w
      <4>5. sess'[s].block - 1 = b /\ sess'[s].block > 0
        BY <1>1, <4>3
      <4>6. b - (b % w) < cl.expected
        BY <1>1, <2>2, <4>4
      <4>7. cl.expected > 1
        BY <1>1, <2>2, <3>1 DEF Behind, b
      <4> QED BY <4>2, <4>5, <4>6, <4>7 DEF Behind
    <3>2. CASE b + 1 >= BlockMod
      BY <1>1, <2>2, <3>2
    <3> QED BY <1>1, <1>3, <3>1, <3>2 DEF Paced
  <2> QED BY <1>3, <2>1, <2>3 DEF PaceKeeps, Paced
<1>6. CASE UNCHANGED <<served, sess>>
  <2>1. sess[s].pc # "ok"
    BY <1>3 DEF SessionRuns, SessionWaits
  <2> QED BY <1>3, <1>6, <2>1 DEF PaceKeeps, Paced, Behind, Window
<1> QED BY <1>4, <1>5, <1>6 DEF TakeAck, m, q

LEMMA PaceServer ==
    ASSUME GetInv, Safe, NEW s \in Sessions, SessionCopies(s), Paced(s),
           UNCHANGED cfg,
           \/ Session(s) \/ SessionTimer(s) \/ Refused(s)
           \/ Spawn(s) /\ UNCHANGED <<getVars, faults>>
    PROVE  PaceKeeps(s)
<1>1. UNCHANGED <<cfg, cl, out>>
  BY DEF Session, SessionTimer, Refused, getVars
<1>2. CASE Spawn(s) \/ RefusePath(s) \/ RefuseFile(s) \/ SendOack(s)
  BY <1>1, <1>2, PaceOpens
<1>3. CASE SendData(s) \/ SendEmptyBlock(s)
  BY <1>1, <1>3, PaceSends
<1>4. CASE net[s] # <<>> /\ TakeAck(s, Head(net[s]))
  BY <1>1, <1>4, PaceTakesAck
<1>5. CASE SessionTimeout(s) \/ PeerGone(s)
  <2>1. /\ sess[s].pc \in SessionRuns
        /\ \/ EndSession(net, s, "failed")
           \/ sess[s].pc = "waitEmpty" /\ EndSession(net, s, "ok")
    BY <1>5 DEF SessionTimeout, PeerGone, SessionRuns, SessionWaits
  <2> QED BY <1>1, <2>1, OkVouches, PaceEnds DEF SessionDone
<1> QED
  BY <1>2, <1>3, <1>4, <1>5 DEF Session, SessionTimer, Refused, SessionStep

LEMMA PaceInvInit == Init => PaceInv
BY DEF Init, ServerInit, PaceInv, Paced, SessionRuns, SessionWaits

LEMMA PaceInvNext == GetInv /\ CopyInv /\ PaceInv /\ [Next]_vars => PaceInv'
<1> SUFFICES ASSUME GetInv, CopyInv, PaceInv, [Next]_vars, Safe'
             PROVE  \A s \in Sessions : Paced(s)'
  BY DEF PaceInv
<1>1. /\ cfg' = cfg /\ served' = served /\ L' = L /\ B' = B /\ Safe
      /\ (NoWrap' <=> NoWrap)
  BY FilesConstant DEF B, L, Settled, NoWrap, Safe, Plain, Lockstep
<1>2. /\ ClientCopies /\ \A s \in Sessions : SessionCopies(s) /\ Paced(s)
      /\ net \in [Ports -> Seq(HonestPackets(cfg, L, cl.expected))]
  BY <1>1 DEF CopyInv, PaceInv
<1>3. /\ cl.expected \in Nat /\ cl'.expected \in Nat
      /\ sess \in [Sessions -> SessionStates]
  BY GetInvNext DEF GetInv, ClientOK, ClientStates, ServerOK
<1>4. ASSUME UNCHANGED sess, cl'.expected >= cl.expected, NEW s \in Sessions
      PROVE  Paced(s)'
  <2>1. Window(s) \in Nat /\ Window(s) > 0 /\ sess[s].block \in Nat
    BY <1>3, PacketsAssumption DEF Window, SessionStates, Negotiations, Blocks
  <2>2. Behind(s) => Behind(s)'
    <3> SUFFICES ASSUME Behind(s) PROVE Behind(s)'
      OBVIOUS
    <3> DEFINE b == sess[s].block - 1
               start == b - (b % Window(s))
    <3>1. b \in Nat
      BY <2>1 DEF Behind
    <3>2. b % Window(s) \in Nat
      BY <2>1, <3>1, DivisionTheorem, Zenon
    <3>3. start \in Int /\ start < cl.expected
      BY <3>1, <3>2 DEF Behind
    <3>4. start' = start /\ sess'[s].block > 0
      BY <1>4 DEF Behind, Window
    <3> HIDE DEF start
    <3>5. start' < cl'.expected
      BY <1>3, <1>4, <3>3, <3>4
    <3>6. sess'[s].block > 1 => cl'.expected > 1
      BY <1>3, <1>4 DEF Behind
    <3> QED BY <3>4, <3>5, <3>6 DEF Behind, start
  <2>3. cl.expected >= BlockMod => cl'.expected >= BlockMod
    BY <1>3, <1>4, PacketsAssumption
  <2>4. Paced(s)
    BY <1>2
  <2>5. sess[s].pc = "ok" /\ Vouched(s) => Vouched(s)'
    <3> DEFINE last == LastAwaited(L, sess[s].neg)
    <3> SUFFICES ASSUME sess[s].pc = "ok", Vouched(s), L % B = 0, NoWrap
                 PROVE  last < cl'.expected
      BY <1>1, <1>4 DEF Vouched
    <3>1. last < cl.expected
      BY DEF Vouched
    <3>2. last \in Int
      <4>1. /\ sess[s].neg.blksize = B /\ B \in Nat /\ B > 0 /\ L \in Nat
        BY <1>2, SettledFacts DEF SessionCopies, B
      <4>2. L \div B \in Nat
        BY <4>1, DivisionTheorem
      <4>3. ((L \div B) \div Window(s)) * Window(s) \in Nat
        <5>1. (L \div B) \div Window(s) \in Nat
          BY <2>1, <4>2, DivisionTheorem
        <5> QED BY <2>1, <5>1, ProductIsNat
      <4> QED BY <4>1, <4>2, <4>3 DEF LastAwaited, Window
    <3> HIDE DEF last
    <3> QED BY <1>3, <1>4, <3>1, <3>2
  <2> QED BY <1>1, <1>4, <2>2, <2>3, <2>4, <2>5 DEF Paced
<1>5. CASE Client \/ ClientTimer \/ Writer
  <2>1. CopyKeeps
    BY <1>1, <1>2, <1>5, ClientKeepsCopy DEF Safe
  <2>2. UNCHANGED sess
    BY <1>5 DEF Client, ClientTimer, Writer, serverVars
  <2> QED BY <1>4, <2>1, <2>2 DEF CopyKeeps
<1>6. ASSUME NEW s \in Sessions,
             \/ Session(s) \/ SessionTimer(s) \/ Refused(s)
             \/ Spawn(s) /\ UNCHANGED <<getVars, faults>>
      PROVE  \A t \in Sessions : Paced(t)'
  <2>1. PaceKeeps(s)
    BY <1>1, <1>2, <1>6, PaceServer
  <2>2. cl' = cl
    BY <1>6 DEF Session, SessionTimer, Refused, getVars
  <2>3. Paced(s)'
    BY <1>1, <2>1, <2>2 DEF PaceKeeps, Paced
  <2>4. \A t \in Sessions : t # s => Paced(t)'
    BY <1>1, <1>2, <2>1, <2>2 DEF PaceKeeps, Paced, Behind, Window, Vouched
  <2> QED BY <2>3, <2>4
<1>7. CASE Network \/ UNCHANGED vars
  BY <1>3, <1>4, <1>7 DEF Network, vars, getVars, serverVars
<1> QED BY <1>5, <1>6, <1>7 DEF Next, Listener

LEMMA PaceInvHolds == Spec => []PaceInv
BY PaceInvInit, PaceInvNext, GetInvHolds, GetKeepsCopyInv, PTL DEF Spec

\* No session runs ahead of what the client has taken by more than a window,
\* whatever is lost, duplicated or late.
THEOREM GetAheadByAWindow ==
    ASSUME \A c \in Configs : c.resume = 0 /\ c.blksize \in MinBlock..MaxBlock
    PROVE  Spec => []AheadByAWindow
<1>1. GetInv /\ CopyInv /\ PaceInv => AheadByAWindow
  <2> SUFFICES ASSUME GetInv, CopyInv, PaceInv, NEW s \in Sessions,
                      sess[s].pc \in SessionRuns, NoWrap
               PROVE  sess[s].rpos <= (cl.expected - 1 + Window(s)) * sess[s].neg.blksize
    BY DEF AheadByAWindow, Window
  <2> DEFINE b == sess[s].block
             e == cl.expected
             w == Window(s)
             pos == sess[s].rpos
             start == (b - 1) % w
  <2>1. Safe
    BY DEF Safe, Plain, GetInv, ClientOK
  <2>2. SessionCopies(s) /\ Paced(s)
    BY <2>1 DEF CopyInv, PaceInv
  <2>3. /\ b \in Nat /\ pos \in Nat /\ e \in Nat /\ e > 0 /\ w \in Nat /\ w > 0
        /\ B \in Nat /\ B > 0 /\ L \in Nat /\ BlockMod \in Nat /\ BlockMod > 2
    <3>1. sess[s] \in SessionStates /\ cl \in ClientStates
      BY DEF GetInv, ServerOK, ClientOK
    <3>2. b \in Nat /\ pos \in Nat /\ e \in Nat /\ e > 0
      BY <3>1, PacketsAssumption DEF SessionStates, ClientStates, Blocks
    <3>3. w \in Nat /\ w > 0
      BY <3>1 DEF Window, SessionStates, Negotiations
    <3>4. B \in Nat /\ B > 0 /\ L \in Nat
      BY SettledFacts
    <3> QED BY <3>2, <3>3, <3>4, PacketsAssumption
  <2>4. sess[s].neg.blksize = B /\ pos <= L
    BY <2>2 DEF SessionCopies, Paced, B, SessionRuns, SessionWaits
  <2>5. L < (BlockMod - 1) * B
    BY DEF NoWrap, L, B, Settled, SettledFor
  <2>6. CASE e >= BlockMod
    <3>1. BlockMod - 1 \in Nat /\ e - 1 + w \in Nat /\ BlockMod - 1 <= e - 1 + w
      BY <2>3, <2>6
    <3>2. (BlockMod - 1) * B <= (e - 1 + w) * B
      BY <2>3, <3>1, ProductMonotonic
    <3>3. (BlockMod - 1) * B \in Nat /\ (e - 1 + w) * B \in Nat
      BY <2>3, <3>1, ProductIsNat
    <3> HIDE DEF b, e, w, pos, start
    <3>4. pos <= (e - 1 + w) * B
      BY <2>3, <2>4, <2>5, <3>2, <3>3
    <3> QED BY <2>4, <3>4 DEF pos, e, w
  <2>7. CASE InStep(s) /\ Behind(s)
    <3>1. b > 0 /\ b - 1 \in Nat
      BY <2>3, <2>7 DEF Behind
    <3>2. start \in Nat /\ start < w
      BY <2>3, <3>1, DivisionTheorem, Zenon
    <3>3. (b - 1) - start < e
      BY <2>7 DEF Behind
    <3>4. b * B \in Nat /\ pos <= b * B
      <4>1. b * B \in Nat /\ (b - 1) * B \in Nat
        BY <2>3, <3>1, ProductIsNat
      <4>2. (b - 1) * B <= b * B
        BY <2>3, <3>1, ProductMonotonic
      <4>3. \/ pos = (b - 1) * B \/ pos = b * B
            \/ pos <= L /\ L < b * B
            \/ pos <= L /\ (b - 1) * B = L
            \/ pos <= L /\ L = 0
        BY <2>2, <2>4, <2>7
        DEF InStep, SessionCopies, SessionRuns, SessionWaits
      <4> HIDE DEF b, pos
      <4> QED BY <2>3, <4>1, <4>2, <4>3
    <3> HIDE DEF b, e, w, pos, start
    <3>5. e - 1 + w \in Nat /\ b <= e - 1 + w
      BY <2>3, <3>1, <3>2, <3>3
    <3>6. b * B <= (e - 1 + w) * B /\ (e - 1 + w) * B \in Nat
      BY <2>3, <3>5, ProductMonotonic, ProductIsNat
    <3>7. pos <= (e - 1 + w) * B
      BY <2>3, <3>4, <3>6
    <3> QED BY <2>4, <3>7 DEF pos, e, w
  <2> QED BY <2>2, <2>6, <2>7 DEF SessionCopies, Paced
<1> QED BY <1>1, GetInvHolds, GetKeepsCopyInv, PaceInvHolds, PTL

-----------------------------------------------------------------------------
(* What an acknowledged block says of the file *)

LEMMA NothingIsPrefix ==
    ASSUME NEW f \in Seq(Nat)
    PROVE  IsPrefix(SourceFile(0), f)
<1>1. SourceFile(0) = <<>> /\ Len(SourceFile(0)) = 0
  BY SourceIsFile DEF SourceFile
<1>2. SubSeq(SourceFile(0), 1, 0) = <<>> /\ SubSeq(f, 1, 0) = <<>>
  BY SubSeqEmpty
<1> QED BY <1>1, <1>2 DEF IsPrefix

\* The blocks the client has counted have arrived.
LEMMA CountedHasArrived ==
    ASSUME GetInv, ClientCopies, NEW b \in Nat, b < cl.expected
    PROVE  Arrived(Lesser(b * B, L))
<1> DEFINE n == Lesser(b * B, L)
           e == cl.expected
<1>1. /\ B \in Nat /\ B > 0 /\ L \in Nat /\ e \in Nat /\ e > 0 /\ cl.blksize = B
      /\ out \in Seq(Nat) /\ cl.pos \in Nat
  BY SettledFacts DEF GetInv, ClientOK, ClientStates, ClientCopies
<1>2. b * B \in Nat /\ (e - 1) * B \in Nat /\ b * B <= (e - 1) * B
  <2>1. e - 1 \in Nat /\ b <= e - 1
    BY <1>1
  <2> QED BY <1>1, <2>1, ProductIsNat, ProductMonotonic
<1>3. Handed = Lesser((e - 1) * B, L)
  BY <1>1 DEF Handed, L
<1>4. n \in Nat /\ n <= Handed /\ Handed \in Nat /\ Handed <= L
  BY <1>1, <1>2, <1>3
<1>5. n = b * B \/ n = L
  OBVIOUS
<1>6. CASE e = 1
  <2>1. n = 0
    <3>1. b = 0
      BY <1>1, <1>6
    <3>2. b * B = 0
      BY <1>1, <3>1
    <3> QED BY <1>1, <3>2
  <2> HIDE DEF n
  <2> QED BY <1>1, <2>1, NothingIsPrefix DEF Arrived, n
<1>7. CASE e > 1
  <2>1. out = SourceFile(cl.pos) /\ cl.pos <= Handed
    BY <1>7, DueBytes
  <2>2. CASE n <= cl.pos
    <3> HIDE DEF n
    <3>1. IsPrefix(SourceFile(n), out)
      BY <1>1, <1>4, <2>1, <2>2, SourcePrefix
    <3> QED BY <3>1 DEF Arrived, n
  <2>3. CASE n > cl.pos
    <3> DEFINE q == (Handed - 1) \div B
               first == q * B
               r == (Handed - 1) % B
    <3>1. Unsettled
      <4>1. SUFFICES ASSUME cl.pending = NoWrite, ~cl.broken PROVE FALSE
        BY DEF Unsettled
      <4>2. cl.pos + 0 = Handed
        BY <4>1 DEF ClientCopies, Held, NoWrite
      <4> HIDE DEF n
      <4> QED BY <1>1, <1>4, <2>3, <4>2
    <3> HIDE DEF n
    <3>2. Handed - 1 \in Nat
      BY <1>1, <1>4, <2>3
    <3>3. q \in Nat /\ r \in Nat /\ r < B /\ Handed - 1 = B * q + r
      <4> HIDE DEF Handed
      <4> QED BY <1>1, <3>2, DivisionTheorem
    <3>4. first <= cl.pos /\ AllButLast(Handed, B) = first
      BY DEF ClientCopies, Held, AllButLast
    <3> HIDE DEF q, r
    <3>5. first \in Nat /\ Handed <= first + B
      <4>1. first = B * q /\ first \in Nat
        BY <1>1, <3>3
      <4> HIDE DEF first, Handed
      <4> QED BY <1>1, <1>4, <3>3, <4>1
    <3>6. n = Handed
      <4>1. CASE n = L
        BY <1>1, <1>4, <4>1
      <4>2. CASE n = b * B
        <5>1. first < b * B
          <6> HIDE DEF first
          <6> QED BY <1>1, <1>4, <2>3, <3>4, <3>5, <4>2
        <5>2. q < b
          BY <1>1, <3>3, <5>1, ProductCancels
        <5>3. (q + 1) * B <= b * B /\ (q + 1) * B = first + B
          <6>1. q + 1 \in Nat /\ q + 1 <= b
            BY <3>3, <5>2
          <6>2. (q + 1) * B <= b * B
            BY <1>1, <6>1, ProductMonotonic
          <6> QED BY <1>1, <3>3, <6>2
        <5> HIDE DEF first, Handed
        <5> QED BY <1>1, <1>2, <1>4, <3>5, <4>2, <5>3
      <4> QED BY <1>5, <4>1, <4>2 DEF n
    <3>7. IsPrefix(SourceFile(first), out)
      <4> HIDE DEF first, Handed
      <4> QED BY <1>1, <2>1, <3>4, <3>5, SourcePrefix
    <3>8. AllButLast(n, cl.blksize) = first
      BY <1>1, <3>4, <3>6
    <3> QED BY <3>1, <3>6, <3>7, <3>8 DEF Arrived, n
  <2> HIDE DEF n
  <2> QED BY <1>1, <1>4, <2>2, <2>3
<1> QED BY <1>1, <1>6, <1>7

\* A session is told that a block has arrived only when this block has been handed
\* to the client's file and all blocks before it are written there: for every file
\* with fewer blocks than there are numbers, whatever is lost, repeated or late.
THEOREM GetAcksAreStored ==
    ASSUME \A c \in Configs : c.blksize \in MinBlock..MaxBlock
    PROVE  Spec => []AckedIsStored
<1>1. GetInv /\ CopyInv => AckedIsStored
  <2> SUFFICES ASSUME GetInv, CopyInv, Countable, NEW s \in Sessions,
                      NEW i \in 1..Len(net[s]), net[s][i].type = "ACK"
               PROVE  Arrived(Lesser(net[s][i].block * cl.blksize, served.len))
    BY DEF AckedIsStored
  <2>1. Safe
    BY DEF Safe, Plain, Countable, GetInv, ClientOK
  <2>2. ClientCopies /\ net \in [Ports -> Seq(AckedBefore(cl.expected))]
    BY <2>1 DEF CopyInv, GetInv, AckBound
  <2>3. net[s][i] \in AckedBefore(cl.expected)
    <3>1. net[s] \in Seq(AckedBefore(cl.expected))
      BY <2>2, PortsAreDistinct
    <3> QED BY <3>1, ElementOfSeq
  <2>4. net[s][i].block \in Nat /\ net[s][i].block < cl.expected
    <3>1. cl.expected \in Nat
      BY DEF GetInv, ClientOK, ClientStates
    <3> QED BY <2>3, <3>1, PacketFields, PacketsAssumption DEF Blocks
  <2>5. Arrived(Lesser(net[s][i].block * B, L))
    BY <2>2, <2>4, CountedHasArrived
  <2> QED BY <2>2, <2>5 DEF ClientCopies, L
<1> QED BY <1>1, GetInvHolds, GetKeepsCopyInv, PTL

\* What serve_read's Ok vouches for: the whole file, its last block at most
\* unsettled, if it ends in a short block, and the blocks it has waited for if it
\* ends in a full one; as long as the block numbers do not wrap.
THEOREM GetServerOkMeansStored ==
    ASSUME \A c \in Configs : c.blksize \in MinBlock..MaxBlock
    PROVE  Spec => []ServerOkMeansStored
<1>1. GetInv /\ CopyInv /\ PaceInv => ServerOkMeansStored
  <2> SUFFICES ASSUME GetInv, CopyInv, PaceInv, NEW s \in Sessions,
                      sess[s].pc = "ok", Countable
               PROVE  LET neg == sess[s].neg
                      IN  Arrived(IF served.len % neg.blksize # 0 THEN served.len
                                  ELSE LastAwaited(served.len, neg) * neg.blksize)
    BY DEF ServerOkMeansStored
  <2> DEFINE k == LastAwaited(L, sess[s].neg)
             e == cl.expected
  <2>1. Safe
    BY DEF Safe, Plain, Countable, GetInv, ClientOK
  <2>2. ClientCopies /\ SessionCopies(s) /\ Paced(s)
    BY <2>1 DEF CopyInv, PaceInv
  <2>3. /\ B \in Nat /\ B > 0 /\ L \in Nat /\ e \in Nat /\ e > 0
        /\ sess[s].neg.blksize = B /\ sess[s].neg = Settled
    BY <2>2, SettledFacts DEF GetInv, ClientOK, ClientStates, SessionCopies, B
  <2>4. CASE L % B # 0
    <3>1. ~((e - 1) * B <= L)
      BY <2>2, <2>4 DEF SessionCopies, ClientCopies, Counted, Countable
    <3>2. e - 1 \in Nat /\ e - 1 < e
      BY <2>3
    <3>3. Arrived(Lesser((e - 1) * B, L))
      BY <2>2, <3>2, CountedHasArrived
    <3>4. Lesser((e - 1) * B, L) = L
      BY <3>1
    <3> QED BY <2>3, <2>4, <3>3, <3>4 DEF L
  <2>5. CASE L % B = 0
    <3>1. k < e
      BY <2>2, <2>5 DEF Paced, Vouched, Countable
    <3>2. k \in Nat /\ k <= L \div B /\ L \div B \in Nat /\ L = (L \div B) * B
      <4> DEFINE n == L \div B
                 w == Greater(sess[s].neg.windowsize, 1)
                 last == (n \div w) * w
      <4>1. n \in Nat /\ L = B * n + (L % B)
        BY <2>3, DivisionTheorem
      <4>2. w \in Nat /\ w > 0
        BY <2>3, SettledFacts DEF Negotiations
      <4>3. k = Lesser(n, Greater(last, 1))
        BY <2>3 DEF LastAwaited
      <4> HIDE DEF n, w, k
      <4>4. last \in Nat
        <5>1. n \div w \in Nat
          BY <4>1, <4>2, DivisionTheorem
        <5> QED BY <4>2, <5>1, ProductIsNat
      <4>5. L = n * B
        BY <2>3, <2>5, <4>1
      <4> HIDE DEF last
      <4> QED BY <4>1, <4>3, <4>4, <4>5 DEF n
    <3> HIDE DEF k
    <3>3. k * B <= L /\ k * B \in Nat
      <4>1. k * B <= (L \div B) * B
        BY <2>3, <3>2, ProductMonotonic
      <4> QED BY <2>3, <3>2, <4>1, ProductIsNat
    <3>4. Arrived(Lesser(k * B, L))
      BY <2>2, <3>1, <3>2, CountedHasArrived
    <3>5. Lesser(k * B, L) = k * B
      BY <3>3
    <3> QED BY <2>3, <2>5, <3>4, <3>5 DEF L, k
  <2> QED BY <2>4, <2>5
<1> QED BY <1>1, GetInvHolds, GetKeepsCopyInv, PaceInvHolds, PTL

-----------------------------------------------------------------------------
(* As long as the network loses nothing, however it repeats and delays datagrams and
   however early the timers fire, and the transfer is in lockstep, the two ends never
   wait for each other. *)

Calm ==
    /\ "lose" \notin FaultKinds
    /\ \A c \in Configs : SettledFor(c).windowsize = 1

\* What may be under way when the client c of a file of len bytes expects block e:
\* in lockstep no block is ahead of the one expected.
OrderlyPackets(c, len, e) ==
    {m \in AckedBefore(e) :
        /\ m.type = "RRQ" => m.options = RequestOptions(c, NoSize)
        /\ m.type = "OACK" => m.options = OackOptions(SettledFor(c), len)
        /\ m.type = "DATA" => m.block <= e}

Orderly == OrderlyPackets(cfg, L, cl.expected)

\* The OACK of session s is under way: a second one ends get.
Greeted(s) == \E m \in ToSet(net[ClientPort]) : m.type = "OACK" /\ m.from = s

\* The block of session s is under way: the client will acknowledge it.
Brought(s) ==
    \E m \in ToSet(net[ClientPort]) :
        m.type = "DATA" /\ m.from = s /\ m.block = sess[s].block

\* What session s waits for is under way.
Acknowledged(s) ==
    \E m \in ToSet(net[s]) : m.type = "ACK" /\ m.block >= sess[s].block

\* The two ends are in lockstep, and their sockets are open.
EndsInv ==
    /\ cl.pc \notin ClientDone => ClientPort \in open
    /\ cl.pc = "recv" => cl.windowsize <= 1
    /\ \A s \in Sessions :
        /\ sess[s].block <= cl.expected
        /\ sess[s].pc # "free" => sess[s].neg = Settled
        /\ sess[s].pc \in SessionRuns => s \in open

\* Until the client takes its first packet, all that was sent to it waits for it.
UntakenInv ==
    cl.pc \in Idle =>
        \A s \in Sessions :
            /\ sess[s].pc \in SessionRuns => Greeted(s)
            /\ sess[s].pc \in SessionWaits => Brought(s)

NobodyWaitsInVain ==
    \A s \in Sessions :
        cl.pc = "recv" /\ sess[s].pc \in SessionWaits =>
            Greeted(s) \/ Brought(s) \/ Acknowledged(s)

FlowInv ==
    /\ net \in [Ports -> Seq(Orderly)]
    /\ EndsInv /\ UntakenInv /\ NobodyWaitsInVain

-----------------------------------------------------------------------------
LEMMA OrderlyGrows ==
    ASSUME NEW d \in Nat, NEW e \in Nat, d <= e, NEW c, NEW len,
           NEW q \in [Ports -> Seq(OrderlyPackets(c, len, d))]
    PROVE  q \in [Ports -> Seq(OrderlyPackets(c, len, e))]
<1>1. OrderlyPackets(c, len, d) \subseteq OrderlyPackets(c, len, e)
  <2> SUFFICES ASSUME NEW m \in OrderlyPackets(c, len, d)
               PROVE  m \in OrderlyPackets(c, len, e)
    OBVIOUS
  <2>1. m \in AckedBefore(d) /\ (m.type = "DATA" => m.block <= d)
    BY DEF OrderlyPackets
  <2>2. /\ m.type \in {"DATA", "ACK"} => m.block \in Nat
        /\ m.type = "ACK" => m.block < d
    BY <2>1, PacketFields, PacketsAssumption DEF Blocks
  <2> QED BY <2>1, <2>2 DEF OrderlyPackets, AckedBefore
<1> QED BY <1>1, QueuesMonotonic

\* What the client and the session s build is orderly.
LEMMA OrderlyBuilt ==
    ASSUME GetInv
    PROVE  /\ Rrq(ClientPort, RequestOptions(cfg, NoSize)) \in Orderly
           /\ \A b \in Blocks : b < cl.expected => Ack(ClientPort, b) \in Orderly
           /\ \A s \in Sessions :
                 /\ Oack(s, OackOptions(Settled, L)) \in Orderly
                 /\ Error(s) \in Orderly
                 /\ \A b \in Blocks, off \in Nat, n \in Nat :
                       b <= cl.expected => Data(s, b, off, n) \in Orderly
<1>1. /\ cfg \in Configs /\ cl.expected \in Nat /\ L \in Nat
      /\ Settled \in Negotiations
  BY SettledFacts DEF GetInv, ClientOK, ClientStates
<1>2. Settled = SettledFor(cfg)
  BY DEF Settled
<1>3. /\ Rrq(ClientPort, RequestOptions(cfg, NoSize)) \in AckedBefore(cl.expected)
      /\ \A b \in Blocks : b < cl.expected => Ack(ClientPort, b) \in AckedBefore(cl.expected)
      /\ \A s \in Sessions :
            /\ Oack(s, OackOptions(Settled, L)) \in AckedBefore(cl.expected)
            /\ Error(s) \in AckedBefore(cl.expected)
            /\ \A b \in Blocks, off \in Nat, n \in Nat :
                  Data(s, b, off, n) \in AckedBefore(cl.expected)
  BY <1>1, PacketsBuilt
<1> QED BY <1>2, <1>3 DEF Orderly, OrderlyPackets, Rrq, Ack, Oack, Error, Data

LEMMA OrderlyFields ==
    ASSUME GetInv, NEW m \in Orderly
    PROVE  /\ m.from \in Ports
           /\ m.type = "RRQ" => m.options = RequestOptions(cfg, NoSize)
           /\ m.type = "OACK" => m.options = OackOptions(Settled, L)
           /\ m.type = "DATA" => /\ m.from \in Sessions /\ m.block \in Blocks
                                 /\ m.block <= cl.expected
           /\ m.type = "ACK" => m.block \in Blocks /\ m.block < cl.expected
<1>1. cl.expected \in Nat /\ m \in AckedBefore(cl.expected)
  BY DEF GetInv, ClientOK, ClientStates, Orderly, OrderlyPackets
<1> QED BY <1>1, PacketFields DEF Orderly, OrderlyPackets, Settled

-----------------------------------------------------------------------------
\* The property: when nothing is under way, there is nothing that anyone who waits
\* could have been promised.
LEMMA NobodyWaits ==
    ASSUME FlowInv, cl.pc \in ClientWaits, ClientTimerDue, NEW s \in Sessions
    PROVE  sess[s].pc \notin SessionWaits
<1>1. net[ClientPort] = <<>> /\ net[s] = <<>>
  BY DEF ClientTimerDue, SessionIdle
<1>2. ToSet(net[ClientPort]) = {} /\ ToSet(net[s]) = {}
  BY <1>1 DEF ToSet
<1>3. ~Greeted(s) /\ ~Brought(s) /\ ~Acknowledged(s)
  BY <1>2 DEF Greeted, Brought, Acknowledged
<1> QED BY <1>3 DEF FlowInv, UntakenInv, NobodyWaitsInVain, ClientWaits, Idle

-----------------------------------------------------------------------------
(* The client's steps *)

\* get returns: it waits for nobody any more.
LEMMA FlowReturns ==
    ASSUME GetInv, FlowInv, UNCHANGED <<cfg, served, sess>>,
           cl'.pc \in ClientDone, cl'.expected \in Nat, cl.expected <= cl'.expected,
           NEW q \in [Ports -> Seq(OrderlyPackets(cfg, L, cl'.expected))],
           net' = Closed(q, ClientPort), open' = open \ {ClientPort}
    PROVE  FlowInv'
<1>1. net' \in [Ports -> Seq(Orderly')]
  BY ClosedKeepsPackets, PortsAreDistinct DEF Orderly, L
<1>2. cl'.pc \notin Idle \cup {"recv"}
  BY DEF ClientDone, ClientFailed, Idle
<1>3. EndsInv'
  <2>1. ASSUME NEW s \in Sessions PROVE sess[s].block <= cl'.expected
    BY DEF FlowInv, EndsInv, GetInv, ClientOK, ClientStates, ServerOK, SessionStates,
           Blocks
  <2> QED
    BY <1>2, <2>1, PortsAreDistinct
    DEF FlowInv, EndsInv, Settled, SettledFor
<1> QED BY <1>1, <1>2, <1>3 DEF FlowInv, UntakenInv, NobodyWaitsInVain

\* Whoever waits still has coming what the client does not take.
LEMMA Waiting ==
    ASSUME FlowInv, cl.pc \in ClientWaits, NEW s \in Sessions, sess[s].pc \in SessionWaits
    PROVE  \/ cl.pc = "recv" /\ Greeted(s)
           \/ Brought(s) \/ Acknowledged(s)
BY DEF FlowInv, UntakenInv, NobodyWaitsInVain, ClientWaits, Idle

\* The client takes a packet and answers it: a block with an ACK of its own.
LEMMA FlowAnswers ==
    ASSUME GetInv, FlowInv, UNCHANGED <<cfg, served, sess, open>>,
           net[ClientPort] # <<>>, cl.pc \in ClientWaits,
           cl'.pc = "recv", cl'.expected \in Nat, cl.expected <= cl'.expected,
           cl'.windowsize <= 1,
           NEW b \in Blocks, b < cl'.expected, NEW m, m = Head(net[ClientPort]),
           \/ m.type = "OACK" /\ cl.pc = "await"
           \/ m.type = "DATA" /\ m.block = b,
           net' = Sent(Received(net, ClientPort), m.from, Ack(ClientPort, b))
    PROVE  FlowInv'
<1> DEFINE e == cl'.expected
           G == OrderlyPackets(cfg, L, e)
<1>0. PICK q, a : q = Received(net, ClientPort) /\ a = Ack(ClientPort, b)
  OBVIOUS
<1>1. /\ net \in [Ports -> Seq(Orderly)] /\ cl.expected \in Nat
      /\ sess \in [Sessions -> SessionStates]
      /\ ClientPort \in open
  BY DEF FlowInv, EndsInv, GetInv, ClientOK, ClientStates, ServerOK, ClientWaits,
         ClientDone, ClientFailed
<1>2. net \in [Ports -> Seq(G)]
  BY <1>1, OrderlyGrows DEF Orderly
<1>3. q \in [Ports -> Seq(G)] /\ m \in Orderly /\ q[ClientPort] = Tail(net[ClientPort])
  BY <1>0, <1>1, <1>2, ReceivedKeepsPackets, PortsAreDistinct DEF Received
<1>4. m.from \in Ports /\ (m.type = "DATA" => m.from \in Sessions)
  BY <1>3, OrderlyFields
<1>5. a \in G
  <2>1. a \in AckedBefore(e)
    BY <1>0, PacketsBuilt
  <2> QED BY <1>0, <2>1 DEF OrderlyPackets, Ack
<1>6. net' \in [Ports -> Seq(Orderly')]
  <2>1. Orderly' = G
    BY DEF Orderly, L
  <2> HIDE DEF G
  <2> QED BY <1>0, <1>3, <1>4, <1>5, <2>1, SentKeepsPackets
<1>7. ToSet(net[ClientPort]) = {m} \cup ToSet(q[ClientPort])
  BY <1>1, <1>3, MembersBehindHead, PortsAreDistinct
<1>8. \A s \in Sessions : q[s] = net[s]
  BY <1>0, <1>1, PortsAreDistinct DEF Received
<1>9. /\ \A p \in Ports : ToSet(q[p]) \subseteq ToSet(net'[p])
      /\ m.from \in open => a \in ToSet(net'[m.from])
  <2>1. q \in Queues(G) /\ net' = Sent(q, m.from, a)
    BY <1>0, <1>3 DEF Queues
  <2> HIDE DEF G
  <2>2. \A p \in Ports : ToSet(q[p]) \subseteq ToSet(Sent(q, m.from, a)[p])
    BY <1>4, <1>5, <2>1, SentKeepsMembers
  <2>3. m.from \in open => a \in ToSet(net'[m.from])
    BY <1>4, <1>5, <2>1, SentIsMember
  <2> QED BY <2>1, <2>2, <2>3
<1>10. EndsInv'
  <2>1. ASSUME NEW s \in Sessions PROVE sess[s].block <= cl'.expected
    BY <1>1 DEF FlowInv, EndsInv, SessionStates, Blocks
  <2> QED BY <1>1, <2>1 DEF FlowInv, EndsInv, Settled, SettledFor
<1>11. ASSUME NEW s \in Sessions, sess[s].pc \in SessionWaits
       PROVE  (Greeted(s) \/ Brought(s) \/ Acknowledged(s))'
  <2>1. s \in open /\ sess[s].block \in Blocks
    BY <1>1, <1>11 DEF FlowInv, EndsInv, SessionRuns, SessionStates
  <2>2. CASE Acknowledged(s)
    BY <1>8, <1>9, <2>2, PortsAreDistinct DEF Acknowledged
  <2>3. CASE cl.pc = "recv" /\ Greeted(s)
    <3>1. m.type = "DATA"
      BY <2>3
    <3> QED BY <1>7, <1>9, <2>3, <3>1, PortsAreDistinct DEF Greeted
  <2>4. ASSUME NEW n \in ToSet(net[ClientPort]),
               n.type = "DATA", n.from = s, n.block = sess[s].block
        PROVE  (Brought(s) \/ Acknowledged(s))'
    <3>1. CASE n = m
      <4>1. a.type = "ACK" /\ a.block = sess[s].block /\ a \in ToSet(net'[s])
        BY <1>0, <1>9, <2>1, <2>4, <3>1 DEF Ack
      <4>2. a.block >= sess[s].block
        BY <2>1, <4>1, PacketsAssumption DEF Blocks
      <4> QED BY <4>1, <4>2 DEF Acknowledged
    <3>2. CASE n # m
      BY <1>7, <1>9, <2>4, <3>2, PortsAreDistinct DEF Brought
    <3> QED BY <3>1, <3>2
  <2> QED BY <1>11, <2>2, <2>3, <2>4, Waiting DEF Brought
<1> QED BY <1>6, <1>10, <1>11 DEF FlowInv, UntakenInv, Idle, NobodyWaitsInVain

\* DATA in place of the OACK, which is still to come: get waits for the block to be
\* sent again.
LEMMA FlowDropsData ==
    ASSUME GetInv, FlowInv, UNCHANGED <<cfg, served, sess, open>>,
           net[ClientPort] # <<>>, cl.pc = "await",
           cl'.pc = "recv", cl'.expected \in Nat, cl.expected <= cl'.expected,
           cl'.windowsize <= 1,
           Head(net[ClientPort]).type = "DATA", net' = Received(net, ClientPort)
    PROVE  FlowInv'
<1>1. /\ net \in [Ports -> Seq(Orderly)] /\ cl.expected \in Nat
      /\ sess \in [Sessions -> SessionStates] /\ ClientPort \in open
  BY DEF FlowInv, EndsInv, GetInv, ClientOK, ClientStates, ServerOK,
         ClientDone, ClientFailed
<1>2. net' \in [Ports -> Seq(Orderly')]
  <2> DEFINE G == OrderlyPackets(cfg, L, cl'.expected)
  <2>1. Orderly' = G
    BY DEF Orderly, L
  <2>2. net \in [Ports -> Seq(G)]
    BY <1>1, OrderlyGrows DEF Orderly
  <2> HIDE DEF G
  <2> QED BY <2>1, <2>2, ReceivedKeepsPackets, PortsAreDistinct
<1>3. ToSet(net[ClientPort]) = {Head(net[ClientPort])} \cup ToSet(net'[ClientPort])
  <2>1. net'[ClientPort] = Tail(net[ClientPort])
    BY <1>1, PortsAreDistinct DEF Received
  <2> QED BY <1>1, <2>1, MembersBehindHead, PortsAreDistinct
<1>4. EndsInv'
  <2>1. ASSUME NEW s \in Sessions PROVE sess[s].block <= cl'.expected
    BY <1>1 DEF FlowInv, EndsInv, SessionStates, Blocks
  <2> QED BY <1>1, <2>1 DEF FlowInv, EndsInv, Settled, SettledFor
<1>5. ASSUME NEW s \in Sessions, sess[s].pc \in SessionWaits PROVE Greeted(s)'
  <2>1. Greeted(s)
    BY <1>5 DEF FlowInv, UntakenInv, Idle, SessionRuns
  <2> QED BY <1>3, <2>1 DEF Greeted
<1> QED BY <1>2, <1>4, <1>5 DEF FlowInv, UntakenInv, Idle, NobodyWaitsInVain

-----------------------------------------------------------------------------
\* The client is in lockstep whichever way it has got its window.
LEMMA WindowIsOne ==
    ASSUME GetInv, Calm
    PROVE  /\ Settled.windowsize = 1
           /\ InitialNegotiation(cfg).windowsize <= 1
           /\ apply_oack(InitialNegotiation(cfg),
                         OackOptions(Settled, L)).windowsize <= 1
<1>1. cfg \in Configs /\ Settled.windowsize = 1
  BY DEF GetInv, ClientOK, Calm, Settled
<1>2. L \in Nat \cup {NoSize} /\ NoSize \in Nat \cup {NoSize}
  BY SettledFacts
<1> DEFINE w == apply_oack(InitialNegotiation(cfg),
                           OackOptions(Settled, L)).windowsize
<1>3. w = Settled.windowsize \/ w = 0
  BY <1>1, <1>2, ConfigTypes, AdoptedAgrees DEF Settled, SettledFor
<1>4. cfg.windowsize <= 1
  <2> DEFINE o == RequestOptions(cfg, NoSize)
  <2>1. "windowsize" \in DOMAIN o /\ o["windowsize"] = cfg.windowsize
    BY DEF RequestOptions
  <2>2. cfg.windowsize \in 0..(U16 - 1) /\ U16 \in Nat
    BY <1>1, ConfigTypes, OptionsAssumption
  <2> HIDE DEF o
  <2>3. apply_oack(defaults, o).windowsize = cfg.windowsize
    BY <2>1, <2>2 DEF apply_oack, U16Option
  <2>4. Granted(o).windowsize = 1
    BY <1>1 DEF Settled, SettledFor, o
  <2> QED BY <2>2, <2>3, <2>4 DEF Granted, clamp_negotiation
<1> QED BY <1>1, <1>3, <1>4 DEF InitialNegotiation

LEMMA FlowRequests ==
    ASSUME GetInv, FlowInv, Calm,
           \/ SendRequest
           \/ NoAttempt
           \/ RequestTimeout,
           UNCHANGED <<served, sess>>
    PROVE  FlowInv'
<1>1. /\ net \in [Ports -> Seq(Orderly)] /\ cl.expected \in Nat
      /\ cl \in ClientStates
  BY DEF FlowInv, GetInv, ClientOK, ClientStates
<1>2. CASE \E result \in ClientDone : Return(net, result) /\ UNCHANGED cfg
  <2>1. /\ cl'.pc \in ClientDone /\ cl'.expected = cl.expected
        /\ net' = Closed(net, ClientPort) /\ open' = open \ {ClientPort}
    BY <1>1, <1>2 DEF Return, ClientStates
  <2> QED BY <1>1, <1>2, <2>1, FlowReturns DEF Orderly
<1>3. ASSUME cl.pc \in Idle, cl'.pc \in Idle, cl'.expected = cl.expected,
             UNCHANGED <<cfg, open>>, net' \in [Ports -> Seq(Orderly)],
             net'[ClientPort] = net[ClientPort]
      PROVE  FlowInv'
  <2>1. net' \in [Ports -> Seq(Orderly')]
    BY <1>3 DEF Orderly, L
  <2>2. EndsInv'
    BY <1>3
    DEF FlowInv, EndsInv, Settled, SettledFor, Idle, ClientDone, ClientFailed
  <2> QED
    BY <1>3, <2>1, <2>2
    DEF FlowInv, UntakenInv, Idle, Greeted, Brought, NobodyWaitsInVain
<1>4. CASE SendRequest
  <2>1. /\ cl' = [cl EXCEPT !.pc = "await"] /\ UNCHANGED <<cfg, open>>
        /\ cl.pc \in {"start", "backoff"}
        /\ net' = Sent(net, ListenPort, Rrq(ClientPort, RequestOptions(cfg, NoSize)))
    BY <1>4 DEF SendRequest
  <2>2. cl'.pc = "await" /\ cl'.expected = cl.expected
    BY <1>1, <2>1 DEF ClientStates
  <2>3. net' \in [Ports -> Seq(Orderly)]
    BY <1>1, <2>1, OrderlyBuilt, SentKeepsPackets, PortsAreDistinct
  <2>4. net'[ClientPort] = net[ClientPort]
    BY <1>1, <2>1, PortsAreDistinct DEF Sent
  <2> QED BY <1>3, <2>1, <2>2, <2>3, <2>4 DEF Idle
<1>5. CASE /\ RequestTimeout
           /\ cl' = [cl EXCEPT !.pc = "backoff", !.attempt = @ + 1]
           /\ UNCHANGED <<net, open>>
  <2>1. cl'.pc = "backoff" /\ cl'.expected = cl.expected /\ UNCHANGED cfg
    BY <1>1, <1>5 DEF ClientStates, RequestTimeout
  <2>2. cl.pc = "await"
    BY <1>5 DEF RequestTimeout
  <2> QED BY <1>1, <1>3, <1>5, <2>1, <2>2 DEF Idle
<1> QED
  BY <1>2, <1>4, <1>5 DEF NoAttempt, RequestTimeout, ClientDone, ClientFailed

LEMMA FlowReply ==
    ASSUME GetInv, FlowInv, Calm, UNCHANGED <<served, sess>>,
           net[ClientPort] # <<>>, ReceiveReply(Head(net[ClientPort]))
    PROVE  FlowInv'
<1> DEFINE m == Head(net[ClientPort])
           q == Received(net, ClientPort)
<1>1. /\ net \in [Ports -> Seq(Orderly)] /\ cl.expected \in Nat
      /\ cl \in ClientStates /\ cfg \in Configs
      /\ cl.pc = "await" /\ cl.expected = 1
  BY DEF FlowInv, GetInv, ClientOK, ClientStates, AckBound, ReceiveReply
<1>2. q \in [Ports -> Seq(Orderly)] /\ m \in Orderly
  BY <1>1, ReceivedKeepsPackets, PortsAreDistinct
<1>3. ASSUME NEW n, EnterLoop(n, m.from)
      PROVE  /\ cl'.pc = "recv" /\ cl'.expected = cfg.resume + 1
             /\ cl'.windowsize = n.windowsize /\ UNCHANGED <<cfg, open>>
             /\ cl'.expected \in Nat /\ cl.expected <= cl'.expected
             /\ 0 < cl'.expected
  <2>1. /\ cl'.pc = "recv" /\ cl'.expected = cfg.resume + 1
        /\ cl'.windowsize = n.windowsize /\ UNCHANGED <<cfg, open>>
    BY <1>1, <1>3 DEF EnterLoop, ClientStates
  <2> QED BY <1>1, <2>1, ConfigTypes
<1>4. CASE \E result \in ClientDone : Return(q, result) /\ UNCHANGED cfg
  <2>1. /\ cl'.pc \in ClientDone /\ cl'.expected = cl.expected
        /\ net' = Closed(q, ClientPort) /\ open' = open \ {ClientPort}
    BY <1>1, <1>4 DEF Return, ClientStates
  <2> HIDE DEF q
  <2> QED BY <1>1, <1>2, <1>4, <2>1, FlowReturns DEF Orderly
<1>5. CASE /\ m.type = "OACK"
           /\ net' = Sent(q, m.from, Ack(ClientPort, 0))
           /\ EnterLoop(apply_oack(InitialNegotiation(cfg), m.options), m.from)
  <2> DEFINE n == apply_oack(InitialNegotiation(cfg), m.options)
  <2>1. n.windowsize <= 1
    BY <1>2, <1>5, OrderlyFields, WindowIsOne
  <2> HIDE DEF n, m
  <2>2. /\ cl'.pc = "recv" /\ cl'.windowsize <= 1 /\ UNCHANGED <<cfg, open>>
        /\ cl'.expected \in Nat /\ cl.expected <= cl'.expected /\ 0 < cl'.expected
    BY <1>3, <1>5, <2>1 DEF n, m
  <2>3. 0 \in Blocks
    BY PacketsAssumption DEF Blocks
  <2> QED BY <1>1, <1>5, <2>2, <2>3, FlowAnswers DEF m, ClientWaits
<1>6. CASE /\ m.type = "DATA" /\ net' = q
           /\ EnterLoop(InitialNegotiation(cfg), m.from)
  BY <1>1, <1>3, <1>6, WindowIsOne, FlowDropsData
<1> QED
  BY <1>4, <1>5, <1>6 DEF ReceiveReply, ClientDone, ClientFailed

LEMMA FlowData ==
    ASSUME GetInv, FlowInv, Calm, UNCHANGED <<served, sess>>,
           net[ClientPort] # <<>>, ReceiveData(Head(net[ClientPort]))
    PROVE  FlowInv'
<1> DEFINE m == Head(net[ClientPort])
           q == Received(net, ClientPort)
<1>1. /\ net \in [Ports -> Seq(Orderly)] /\ cl.expected \in Nat /\ cl.expected > 0
      /\ cl \in ClientStates /\ cfg \in Configs /\ cl.lastAcked \in Nat
      /\ cl.pc = "recv" /\ cl.lastAcked < cl.expected
      /\ cl.windowsize \in Nat /\ cl.windowsize <= 1
  BY PacketsAssumption
  DEF FlowInv, EndsInv, GetInv, ClientOK, ClientStates, AckBound, ReceiveData, Blocks
<1>2. /\ q \in [Ports -> Seq(Orderly)] /\ m \in Orderly /\ m.type = "DATA"
  BY <1>1, ReceivedKeepsPackets, PortsAreDistinct DEF ReceiveData
<1>3. m.block \in Blocks /\ m.block \in Nat /\ m.block <= cl.expected /\ m.from \in Sessions
  BY <1>2, OrderlyFields, PacketsAssumption DEF Blocks
<1>4. CASE OldData(m)
  <2>1. /\ net' = Sent(q, m.from, Ack(ClientPort, m.block)) /\ UNCHANGED <<cfg, open>>
        /\ cl' = [Heard(m) EXCEPT !.lastAcked = m.block]
    BY <1>4 DEF OldData, Acknowledge
  <2>2. m.block < cl.expected
    BY <1>1, <1>3, <1>4 DEF OldData
  <2>3. cl'.pc = "recv" /\ cl'.expected = cl.expected /\ cl'.windowsize = cl.windowsize
    BY <1>1, <2>1 DEF Heard, ClientStates
  <2> HIDE DEF m
  <2> QED BY <1>1, <1>2, <1>3, <2>1, <2>2, <2>3, FlowAnswers DEF m, ClientWaits
<1>5. ~GapData(m)
  BY <1>1, <1>3 DEF GapData
<1>6. CASE NextData(m)
  <2> DEFINE acked == Sent(q, m.from, Ack(ClientPort, m.block))
             stored == Taken(m)
  <2>0. m.off \in Nat /\ m.len \in Nat /\ m.from \in Ports
    <3>1. m \in AckedBefore(cl.expected)
      BY <1>2 DEF Orderly, OrderlyPackets
    <3> QED BY <1>1, <1>2, <3>1, PacketFields
  <2>1. /\ UNCHANGED cfg /\ m.block = cl.expected
        /\ \/ Return(q, "io")
           \/ /\ IsLast(m)
              /\ cl' = [stored EXCEPT !.pc = "ok"]
              /\ net' = Closed(acked, ClientPort)
              /\ open' = open \ {ClientPort}
           \/ cl' = stored /\ net' = acked /\ UNCHANGED open
    <3>1. \A x \in Int : x % 1 = 0
      OBVIOUS
    <3>2. cl.expected - cfg.resume \in Int
      BY <1>1, ConfigTypes
    <3>3. Greater(cl.windowsize, 1) = 1
      BY <1>1
    <3>4. (cl.expected - cfg.resume) % Greater(cl.windowsize, 1) = 0
      BY <3>1, <3>2, <3>3
    <3> HIDE DEF m, q
    <3> QED BY <1>6, <3>4 DEF NextData, q
  <2>2. /\ stored.pc = "recv" /\ stored.expected = cl.expected + 1
        /\ stored.windowsize = cl.windowsize
        /\ [stored EXCEPT !.pc = "ok"].pc = "ok"
        /\ [stored EXCEPT !.pc = "ok"].expected = cl.expected + 1
    <3>1. /\ stored \in ClientStates /\ stored.expected = cl.expected + 1
          /\ stored.pc = cl.pc /\ stored.windowsize = cl.windowsize
      <4> HIDE DEF m
      <4> QED BY <1>1, <1>3, <2>0, TakenFacts
    <3> HIDE DEF stored
    <3> QED BY <1>1, <3>1 DEF ClientStates
  <2> HIDE DEF stored
  <2>3. cl.expected + 1 \in Nat /\ cl.expected <= cl.expected + 1
        /\ m.block < cl.expected + 1
    BY <1>1, <1>3
  <2>4. CASE cl' = stored /\ net' = acked /\ UNCHANGED open
    <3> HIDE DEF m
    <3> QED
      BY <1>1, <1>2, <1>3, <2>1, <2>2, <2>3, <2>4, FlowAnswers DEF m, ClientWaits
  <2>5. CASE /\ cl' = [stored EXCEPT !.pc = "ok"]
             /\ net' = Closed(acked, ClientPort)
             /\ open' = open \ {ClientPort}
    <3> DEFINE G == OrderlyPackets(cfg, L, cl.expected + 1)
    <3>1. q \in [Ports -> Seq(G)]
      <4>1. q \in [Ports -> Seq(OrderlyPackets(cfg, L, cl.expected))]
        BY <1>2 DEF Orderly
      <4> HIDE DEF q
      <4> QED BY <1>1, <2>3, <4>1, OrderlyGrows
    <3>2. Ack(ClientPort, m.block) \in G
      <4>1. Ack(ClientPort, m.block) \in AckedBefore(cl.expected + 1)
        BY <1>3, <2>3, PacketsBuilt
      <4> QED BY <4>1 DEF OrderlyPackets, Ack
    <3>3. acked \in [Ports -> Seq(G)]
      <4> HIDE DEF G, q
      <4> QED BY <1>3, <3>1, <3>2, SentKeepsPackets, PortsAreDistinct
    <3>4. cl'.pc \in ClientDone /\ cl'.expected = cl.expected + 1
      BY <2>2, <2>5 DEF ClientDone
    <3> HIDE DEF acked
    <3> QED BY <2>1, <2>3, <2>5, <3>3, <3>4, FlowReturns
  <2>6. CASE Return(q, "io")
    <3>1. /\ cl'.pc = "io" /\ cl'.expected = cl.expected
          /\ net' = Closed(q, ClientPort) /\ open' = open \ {ClientPort}
      BY <1>1, <2>6 DEF Return, ClientStates
    <3> HIDE DEF q
    <3> QED
      BY <1>1, <1>2, <2>1, <3>1, FlowReturns DEF Orderly, ClientDone, ClientFailed
  <2> QED BY <2>1, <2>4, <2>5, <2>6
<1> QED BY <1>4, <1>5, <1>6 DEF ReceiveData

LEMMA FlowOther ==
    ASSUME GetInv, FlowInv, UNCHANGED <<served, sess>>,
           net[ClientPort] # <<>>, ReceiveOther(Head(net[ClientPort]))
    PROVE  FlowInv'
<1> DEFINE q == Received(net, ClientPort)
<1>1. /\ net \in [Ports -> Seq(Orderly)] /\ cl.expected \in Nat /\ cl \in ClientStates
  BY DEF FlowInv, GetInv, ClientOK, ClientStates
<1>2. q \in [Ports -> Seq(Orderly)]
  BY <1>1, ReceivedKeepsPackets, PortsAreDistinct
<1>3. /\ cl'.pc \in ClientDone /\ cl'.expected = cl.expected /\ UNCHANGED cfg
      /\ net' = Closed(q, ClientPort) /\ open' = open \ {ClientPort}
  BY <1>1 DEF ReceiveOther, Return, ClientStates, ClientDone, ClientFailed
<1> HIDE DEF q
<1> QED BY <1>1, <1>2, <1>3, FlowReturns DEF Orderly

\* The last ACK once more only adds to what is under way.
LEMMA FlowTimeout ==
    ASSUME GetInv, FlowInv, UNCHANGED <<served, sess>>, ReceiveTimeout
    PROVE  FlowInv'
<1>1. /\ net \in [Ports -> Seq(Orderly)] /\ cl.expected \in Nat /\ cl \in ClientStates
      /\ cl.pc = "recv" /\ cl.server \in Ports /\ cl.lastAcked \in Blocks
      /\ cl.lastAcked < cl.expected
  BY DEF FlowInv, GetInv, ClientOK, ClientStates, AckBound, ReceiveTimeout
<1>2. CASE Return(net, "timeout") /\ UNCHANGED cfg
  <2>1. /\ cl'.pc \in ClientDone /\ cl'.expected = cl.expected
        /\ net' = Closed(net, ClientPort) /\ open' = open \ {ClientPort}
    BY <1>1, <1>2 DEF Return, ClientStates, ClientDone, ClientFailed
  <2> QED BY <1>1, <1>2, <2>1, FlowReturns DEF Orderly
<1>3. CASE /\ cl' = [cl EXCEPT !.retries = @ - 1]
           /\ net' = Sent(net, cl.server, Ack(ClientPort, cl.lastAcked))
           /\ UNCHANGED <<cfg, open>>
  <2>1. /\ cl'.pc = "recv" /\ cl'.expected = cl.expected
        /\ cl'.windowsize = cl.windowsize
    BY <1>1, <1>3 DEF ClientStates
  <2>2. Ack(ClientPort, cl.lastAcked) \in Orderly
    BY <1>1, OrderlyBuilt
  <2>3. net' \in [Ports -> Seq(Orderly')]
    <3>1. Orderly' = Orderly
      BY <1>3, <2>1 DEF Orderly, L
    <3> QED BY <1>1, <1>3, <2>2, <3>1, SentKeepsPackets
  <2>4. \A p \in Ports : ToSet(net[p]) \subseteq ToSet(net'[p])
    <3>1. net \in Queues(Orderly)
      BY <1>1 DEF Queues
    <3>2. \A p \in Ports :
              ToSet(net[p])
                  \subseteq ToSet(Sent(net, cl.server, Ack(ClientPort, cl.lastAcked))[p])
      BY <1>1, <2>2, <3>1, SentKeepsMembers
    <3> QED BY <1>3, <3>2
  <2>5. NobodyWaitsInVain'
    BY <1>1, <2>1, <2>4, PortsAreDistinct
    DEF FlowInv, NobodyWaitsInVain, Greeted, Brought, Acknowledged
  <2>6. EndsInv'
    BY <1>1, <1>3, <2>1 DEF FlowInv, EndsInv, Settled, SettledFor, ClientDone, ClientFailed
  <2> QED BY <2>1, <2>3, <2>5, <2>6 DEF FlowInv, UntakenInv, Idle
<1> QED BY <1>2, <1>3 DEF ReceiveTimeout

\* Writing the file takes nothing from anybody.
LEMMA FlowLands ==
    ASSUME GetInv, FlowInv, Land, UNCHANGED <<served, sess>>
    PROVE  FlowInv'
<1>1. /\ UNCHANGED <<cfg, net, open>>
      /\ cl'.pc = cl.pc /\ cl'.expected = cl.expected
      /\ cl'.windowsize = cl.windowsize
  BY LandKeeps
<1>2. L' = L /\ Settled' = Settled
  BY <1>1 DEF L, Settled
<1>3. Orderly' = Orderly
  BY <1>1, <1>2 DEF Orderly
<1>4. EndsInv'
  BY <1>1, <1>2 DEF FlowInv, EndsInv
<1>5. UntakenInv' /\ NobodyWaitsInVain'
  BY <1>1
  DEF FlowInv, UntakenInv, NobodyWaitsInVain, Greeted, Brought, Acknowledged
<1> QED BY <1>1, <1>3, <1>4, <1>5 DEF FlowInv

LEMMA FlowClient ==
    ASSUME GetInv, FlowInv, Calm, Client \/ ClientTimer \/ Writer
    PROVE  FlowInv'
<1>1. UNCHANGED <<served, sess>>
  BY DEF Client, ClientTimer, Writer, serverVars
<1>2. CASE Client
  BY <1>1, <1>2, FlowRequests, FlowReply, FlowData, FlowOther
  DEF Client, ClientStep, ClientReceive
<1>3. CASE ClientTimer
  BY <1>1, <1>3, FlowRequests, FlowTimeout DEF ClientTimer, ClientTimeout
<1>4. CASE Writer
  BY <1>1, <1>4, FlowLands DEF Writer, WriteDone
<1> QED BY <1>2, <1>3, <1>4

-----------------------------------------------------------------------------
(* The server's steps *)

\* What a step of session s must show: its own part, and that it takes away nothing
\* that others wait for.
LEMMA FlowServer ==
    ASSUME GetInv, FlowInv, NEW s \in Sessions,
           UNCHANGED <<cfg, cl, served>>,
           net' \in [Ports -> Seq(Orderly)],
           \A t \in Sessions : t # s => sess'[t] = sess[t] /\ net'[t] = net[t],
           \A t \in Sessions : t # s => (t \in open' <=> t \in open),
           ClientPort \in open' <=> ClientPort \in open,
           ToSet(net[ClientPort]) \subseteq ToSet(net'[ClientPort]),
           sess'[s].block <= cl.expected,
           sess'[s].pc # "free" => sess'[s].neg = Settled,
           sess'[s].pc \in SessionRuns => s \in open',
           cl.pc \in Idle /\ sess'[s].pc \in SessionRuns => Greeted(s)',
           cl.pc \in Idle /\ sess'[s].pc \in SessionWaits => Brought(s)',
           cl.pc = "recv" /\ sess'[s].pc \in SessionWaits =>
               (Greeted(s) \/ Brought(s) \/ Acknowledged(s))'
    PROVE  FlowInv'
<1>1. Orderly' = Orderly /\ Settled' = Settled
  BY DEF Orderly, L, Settled, SettledFor
<1>2. EndsInv'
  BY <1>1 DEF FlowInv, EndsInv
<1>3. ASSUME NEW t \in Sessions, t # s
      PROVE  /\ Greeted(t) => Greeted(t)'
             /\ Brought(t) => Brought(t)'
             /\ Acknowledged(t) => Acknowledged(t)'
  BY <1>3 DEF Greeted, Brought, Acknowledged
<1>4. UntakenInv'
  <2> SUFFICES ASSUME cl.pc \in Idle, NEW t \in Sessions, t # s
               PROVE  /\ sess[t].pc \in SessionRuns => Greeted(t)'
                      /\ sess[t].pc \in SessionWaits => Brought(t)'
    BY DEF UntakenInv
  <2> QED BY <1>3 DEF FlowInv, UntakenInv
<1>5. NobodyWaitsInVain'
  <2> SUFFICES ASSUME NEW t \in Sessions, t # s, cl.pc = "recv",
                      sess[t].pc \in SessionWaits
               PROVE  (Greeted(t) \/ Brought(t) \/ Acknowledged(t))'
    BY DEF NobodyWaitsInVain
  <2> QED BY <1>3 DEF FlowInv, NobodyWaitsInVain
<1> QED BY <1>1, <1>2, <1>4, <1>5 DEF FlowInv

\* What a packet added to the client's queue does to it.
LEMMA FlowSends ==
    ASSUME GetInv, FlowInv, NEW m \in Orderly
    PROVE  LET q == Sent(net, ClientPort, m)
           IN  /\ q \in [Ports -> Seq(Orderly)]
               /\ ToSet(net[ClientPort]) \subseteq ToSet(q[ClientPort])
               /\ \A t \in Sessions : q[t] = net[t]
               /\ cl.pc \notin ClientDone => m \in ToSet(q[ClientPort])
<1> DEFINE q == Sent(net, ClientPort, m)
<1>1. /\ net \in [Ports -> Seq(Orderly)] /\ net \in Queues(Orderly)
      /\ ClientPort \in Ports
      /\ cl.pc \notin ClientDone => ClientPort \in open
  BY PortsAreDistinct DEF FlowInv, Queues, EndsInv
<1>2. q \in [Ports -> Seq(Orderly)]
  BY <1>1, SentKeepsPackets
<1>3. ToSet(net[ClientPort]) \subseteq ToSet(q[ClientPort])
  BY <1>1, SentKeepsMembers
<1>4. \A t \in Sessions : q[t] = net[t]
  BY <1>1, PortsAreDistinct DEF Sent
<1>5. ClientPort \in open => m \in ToSet(q[ClientPort])
  BY <1>1, SentIsMember
<1> QED BY <1>1, <1>2, <1>3, <1>4, <1>5

\* A session ends: nobody has to answer it any more.
LEMMA FlowEnds ==
    ASSUME GetInv, FlowInv, NEW s \in Sessions, UNCHANGED <<cfg, cl>>,
           sess[s].pc # "free", NEW result \in SessionDone,
           NEW q \in [Ports -> Seq(Orderly)], EndSession(q, s, result),
           \A t \in Sessions : t # s => q[t] = net[t],
           ToSet(net[ClientPort]) \subseteq ToSet(q[ClientPort])
    PROVE  FlowInv'
<1>1. /\ sess \in [Sessions -> SessionStates] /\ served' = served
      /\ sess' = [sess EXCEPT ![s].pc = result]
      /\ net' = Closed(q, s) /\ open' = open \ {s}
  BY DEF GetInv, ServerOK, EndSession
<1>2. /\ sess'[s].block = sess[s].block /\ sess'[s].neg = sess[s].neg
      /\ sess'[s].pc = result
      /\ \A t \in Sessions : t # s => sess'[t] = sess[t]
  BY <1>1 DEF SessionStates
<1>3. /\ net'[ClientPort] = q[ClientPort]
      /\ \A t \in Sessions : t # s => net'[t] = net[t]
      /\ net' \in [Ports -> Seq(Orderly)]
  BY <1>1, PortsAreDistinct, ClosedKeepsPackets DEF Closed
<1>4. result \notin SessionRuns /\ result \notin SessionWaits
  BY DEF SessionDone, SessionRuns, SessionWaits
<1>5. sess[s].block <= cl.expected /\ sess[s].neg = Settled
  BY DEF FlowInv, EndsInv
<1> QED BY <1>1, <1>2, <1>3, <1>4, <1>5, PortsAreDistinct, FlowServer

LEMMA FlowSpawns ==
    ASSUME GetInv, FlowInv, NEW s \in Sessions, UNCHANGED <<cfg, cl>>, Spawn(s)
    PROVE  FlowInv'
<1> DEFINE m == Head(net[ListenPort])
<1>1. /\ net \in [Ports -> Seq(Orderly)] /\ sess \in [Sessions -> SessionStates]
      /\ net[ListenPort] # <<>> /\ m.type = "RRQ" /\ sess[s].pc = "free"
      /\ net' = Received(net, ListenPort) /\ served' = served /\ open' = open
  BY DEF FlowInv, GetInv, ServerOK, Spawn
<1>2. m \in Orderly /\ net' \in [Ports -> Seq(Orderly)]
  BY <1>1, ReceivedKeepsPackets, PortsAreDistinct
<1>3. Granted(m.options) = Settled
  BY <1>1, <1>2, OrderlyFields DEF Settled, SettledFor
<1>4. sess' = [sess EXCEPT ![s].pc = "spawned", ![s].neg = Settled]
  BY <1>3 DEF Spawn
<1>5. /\ sess'[s].pc = "spawned" /\ sess'[s].neg = Settled
      /\ sess'[s].block = sess[s].block
      /\ \A t \in Sessions : t # s => sess'[t] = sess[t]
  <2> HIDE DEF m
  <2> QED BY <1>1, <1>4 DEF SessionStates
<1>6. \A p \in Ports : p # ListenPort => net'[p] = net[p]
  BY <1>1 DEF Received
<1>7. sess[s].block <= cl.expected
  BY DEF FlowInv, EndsInv
<1>8. "spawned" \notin SessionRuns /\ "spawned" \notin SessionWaits
  BY DEF SessionRuns, SessionWaits
<1> HIDE DEF m
<1> QED
  BY <1>1, <1>2, <1>5, <1>6, <1>7, <1>8, PortsAreDistinct, FlowServer

LEMMA FlowOpens ==
    ASSUME GetInv, FlowInv, NEW s \in Sessions, UNCHANGED <<cfg, cl>>,
           RefusePath(s) \/ RefuseFile(s) \/ SendOack(s)
    PROVE  FlowInv'
<1>1. /\ net \in [Ports -> Seq(Orderly)] /\ sess \in [Sessions -> SessionStates]
      /\ sess[s].pc = "spawned"
      /\ sess[s].neg = Settled /\ sess[s].block <= cl.expected
  BY DEF FlowInv, EndsInv, GetInv, ServerOK, RefusePath, RefuseFile, SendOack
<1>2. CASE RefusePath(s)
  BY <1>1, <1>2, FlowEnds DEF RefusePath, SessionDone
<1>3. CASE RefuseFile(s)
  <2> DEFINE q == Sent(net, ClientPort, Error(s))
  <2>1. /\ q \in [Ports -> Seq(Orderly)]
        /\ ToSet(net[ClientPort]) \subseteq ToSet(q[ClientPort])
        /\ \A t \in Sessions : q[t] = net[t]
    BY OrderlyBuilt, FlowSends
  <2>2. EndSession(q, s, "denied") /\ "denied" \in SessionDone
    BY <1>3 DEF RefuseFile, SessionDone
  <2> HIDE DEF q
  <2> QED BY <1>1, <2>1, <2>2, FlowEnds
<1>4. CASE SendOack(s)
  <2> DEFINE m == Oack(s, OackOptions(Settled, L))
  <2>1. /\ net' = Sent(net, ClientPort, m) /\ served' = served
        /\ sess' = [sess EXCEPT ![s].pc = "send"] /\ open' = open \cup {s}
    BY <1>1, <1>4 DEF SendOack, L
  <2>2. m \in Orderly /\ m.type = "OACK" /\ m.from = s
    BY OrderlyBuilt DEF Oack
  <2> HIDE DEF m
  <2>3. /\ net' \in [Ports -> Seq(Orderly)]
        /\ ToSet(net[ClientPort]) \subseteq ToSet(net'[ClientPort])
        /\ \A t \in Sessions : net'[t] = net[t]
        /\ cl.pc \notin ClientDone => m \in ToSet(net'[ClientPort])
    BY <2>1, <2>2, FlowSends
  <2>4. /\ sess'[s].pc = "send" /\ sess'[s].neg = Settled
        /\ sess'[s].block = sess[s].block
        /\ \A t \in Sessions : t # s => sess'[t] = sess[t]
    BY <1>1, <2>1 DEF SessionStates
  <2>5. "send" \notin SessionWaits
    BY DEF SessionWaits
  <2>6. cl.pc \in Idle => Greeted(s)'
    BY <2>2, <2>3 DEF Idle, ClientDone, ClientFailed, Greeted
  <2> QED BY <1>1, <2>1, <2>3, <2>4, <2>5, <2>6, PortsAreDistinct, FlowServer
<1> QED BY <1>2, <1>3, <1>4

-----------------------------------------------------------------------------
\* A session sends its block, and waits for its ACK or goes on.
LEMMA FlowSendsBlock ==
    ASSUME GetInv, FlowInv, NEW s \in Sessions, UNCHANGED <<cfg, cl>>,
           sess[s].pc = "send", NEW n \in Nat, NEW pc \in SessionRuns, NEW b \in Blocks,
           SendBlock(s, n, pc, b), b <= cl.expected,
           pc \in SessionWaits => b = sess[s].block
    PROVE  FlowInv'
<1> DEFINE m == Data(s, sess[s].block, sess[s].rpos, n)
<1>1. /\ net \in [Ports -> Seq(Orderly)] /\ sess \in [Sessions -> SessionStates]
      /\ sess[s].block \in Blocks /\ sess[s].rpos \in Nat
      /\ sess[s].neg = Settled /\ sess[s].block <= cl.expected /\ s \in open
  BY DEF FlowInv, EndsInv, GetInv, ServerOK, SessionStates, SessionRuns
<1>2. m \in Orderly
  BY <1>1, OrderlyBuilt
<1>3. cl.pc \in Idle => Greeted(s)
  BY DEF FlowInv, UntakenInv, SessionRuns
<1>4. m.type = "DATA" /\ m.from = s /\ m.block = sess[s].block
  BY DEF Data
<1>5. net' = Sent(net, ClientPort, m) /\ served' = served /\ open' = open
  BY DEF SendBlock
<1>6. /\ sess'[s].pc = pc /\ sess'[s].block = b /\ sess'[s].neg = Settled
      /\ \A t \in Sessions : t # s => sess'[t] = sess[t]
  <2> DEFINE pos == sess[s].rpos + n
  <2>1. sess' = [sess EXCEPT ![s].pc = pc, ![s].block = b, ![s].rpos = pos]
    BY <1>1 DEF SendBlock, SessionStates
  <2> HIDE DEF pos
  <2> QED BY <1>1, <2>1 DEF SessionStates
<1> HIDE DEF m
<1>7. /\ net' \in [Ports -> Seq(Orderly)]
      /\ ToSet(net[ClientPort]) \subseteq ToSet(net'[ClientPort])
      /\ \A t \in Sessions : net'[t] = net[t]
      /\ cl.pc \notin ClientDone => m \in ToSet(net'[ClientPort])
  BY <1>2, <1>5, FlowSends
<1>8. cl.pc \in Idle => Greeted(s)'
  BY <1>3, <1>7 DEF Greeted
<1>9. cl.pc \in Idle \cup {"recv"} /\ sess'[s].pc \in SessionWaits => Brought(s)'
  BY <1>4, <1>6, <1>7 DEF Brought, Idle, ClientDone, ClientFailed
<1> QED BY <1>1, <1>5, <1>6, <1>7, <1>8, <1>9, FlowServer

LEMMA FlowTransfers ==
    ASSUME GetInv, FlowInv, Calm, NEW s \in Sessions, UNCHANGED <<cfg, cl>>,
           SendData(s) \/ SendEmptyBlock(s)
    PROVE  FlowInv'
<1> DEFINE b == sess[s].block
<1>0. /\ sess[s].pc = "send"
      /\ net \in [Ports -> Seq(Orderly)] /\ sess \in [Sessions -> SessionStates]
  <2>1. sess[s].pc = "send"
    BY DEF SendData, SendEmptyBlock
  <2> QED BY <2>1 DEF FlowInv, GetInv, ServerOK
<1>1. /\ b \in Blocks /\ b \in Nat /\ sess[s].rpos \in Nat
      /\ sess[s].neg = Settled /\ b <= cl.expected
      /\ sess[s].neg.blksize \in Nat /\ served.len \in Nat
      /\ cl.expected \in Nat /\ cl.expected > 0
  <2>1. b \in Blocks /\ sess[s].rpos \in Nat /\ sess[s].neg \in Negotiations
    BY <1>0 DEF SessionStates
  <2>2. b \in Nat /\ sess[s].neg.blksize \in Nat
    BY <2>1, PacketsAssumption DEF Blocks, Negotiations
  <2>3. served.len \in Nat
    BY ReadServerAssumption DEF GetInv, ServerOK, FileStates
  <2>4. cl \in ClientStates /\ cl.lastAcked < cl.expected
    BY DEF GetInv, ClientOK, AckBound
  <2>5. cl.expected \in Nat /\ cl.expected > 0
    BY <2>4, PacketsAssumption DEF ClientStates, Blocks
  <2> QED BY <1>0, <2>1, <2>2, <2>3, <2>5 DEF FlowInv, EndsInv
<1>2. CASE SendEmptyBlock(s)
  BY <1>0, <1>1, <1>2, FlowSendsBlock DEF SendEmptyBlock, SessionRuns, SessionWaits
<1>3. CASE SendData(s)
  <2> DEFINE n == Lesser(sess[s].neg.blksize, served.len - sess[s].rpos)
             m == Data(s, b, sess[s].rpos, n)
  <2>1. n \in Nat
    BY <1>0, <1>1, <1>3 DEF SendData
  <2>2. CASE \E pc \in {"waitLast", "wait"} : SendBlock(s, n, pc, b)
    BY <1>0, <1>1, <2>1, <2>2, FlowSendsBlock DEF SessionRuns, SessionWaits
  <2>3. CASE /\ SendBlock(s, n, "send", NextBlock(b))
             /\ ~WaitsAfter(b, Greater(Settled.windowsize, 1), FALSE)
    <3>1. b = 0
      <4>1. Greater(Settled.windowsize, 1) = 1
        BY WindowIsOne
      <4>2. b % 1 = 0
        BY <1>0, <1>1
      <4> QED BY <1>0, <1>1, <2>3, <4>1, <4>2 DEF WaitsAfter
    <3>2. NextBlock(b) = 1 /\ 1 \in Blocks
      BY <3>1, PacketsAssumption, SmallHasNoQuotient DEF NextBlock, Blocks
    <3> QED
      BY <1>0, <1>1, <2>1, <2>3, <3>2, FlowSendsBlock DEF SessionRuns, SessionWaits
  <2>4. CASE EndSession(Sent(net, ClientPort, m), s, "ok")
    <3> DEFINE q == Sent(net, ClientPort, m)
    <3>1. m \in Orderly
      BY <1>0, <1>1, <2>1, OrderlyBuilt
    <3> HIDE DEF m
    <3>2. /\ q \in [Ports -> Seq(Orderly)]
          /\ ToSet(net[ClientPort]) \subseteq ToSet(q[ClientPort])
          /\ \A t \in Sessions : q[t] = net[t]
      BY <3>1, FlowSends
    <3>3. EndSession(q, s, "ok") /\ "ok" \in SessionDone
      BY <2>4 DEF SessionDone
    <3> HIDE DEF q
    <3> QED BY <1>0, <1>1, <3>2, <3>3, FlowEnds
  <2> HIDE DEF n, m
  <2>5. \/ \E pc \in {"waitLast", "wait"} : SendBlock(s, n, pc, b)
        \/ /\ SendBlock(s, n, "send", NextBlock(b))
           /\ ~WaitsAfter(b, Greater(Settled.windowsize, 1), FALSE)
        \/ EndSession(Sent(net, ClientPort, m), s, "ok")
    <3> DEFINE short == n < sess[s].neg.blksize
               waits == WaitsAfter(b, Greater(sess[s].neg.windowsize, 1), short)
    <3>1. \/ waits /\ SendBlock(s, n, IF short THEN "waitLast" ELSE "wait", b)
          \/ ~waits /\ ~short /\ SendBlock(s, n, "send", NextBlock(b))
          \/ EndSession(Sent(net, ClientPort, m), s, "ok")
      BY <1>3 DEF SendData, n, m
    <3>2. ~waits /\ ~short => ~WaitsAfter(b, Greater(Settled.windowsize, 1), FALSE)
      BY <1>0, <1>1 DEF WaitsAfter
    <3> QED BY <3>1, <3>2
  <2> QED BY <2>2, <2>3, <2>4, <2>5
<1> QED BY <1>2, <1>3

LEMMA FlowTakesAck ==
    ASSUME GetInv, FlowInv, NEW s \in Sessions, UNCHANGED <<cfg, cl>>,
           net[s] # <<>>, TakeAck(s, Head(net[s]))
    PROVE  FlowInv'
<1> DEFINE m == Head(net[s])
           q == Received(net, s)
           b == sess[s].block
<1>0. /\ sess[s].pc \in SessionWaits
      /\ sess[s].pc \in SessionRuns /\ sess[s].pc # "free"
      /\ net \in [Ports -> Seq(Orderly)] /\ sess \in [Sessions -> SessionStates]
      /\ cl.expected \in Nat
  BY DEF TakeAck, SessionWaits, SessionRuns, FlowInv, GetInv, ServerOK, ClientOK,
         ClientStates
<1>1. /\ b \in Blocks /\ b \in Nat
      /\ sess[s].neg = Settled /\ b <= cl.expected /\ s \in open
  <2>1. b \in Blocks
    BY <1>0 DEF SessionStates
  <2> QED BY <1>0, <2>1, PacketsAssumption DEF FlowInv, EndsInv, Blocks
<1>2. /\ q \in [Ports -> Seq(Orderly)] /\ m \in Orderly
      /\ q[ClientPort] = net[ClientPort] /\ q[s] = Tail(net[s])
      /\ \A t \in Sessions : t # s => q[t] = net[t]
  BY <1>0, <1>1, ReceivedKeepsPackets, PortsAreDistinct DEF Received
<1>3. cl.pc \in Idle => Greeted(s) /\ Brought(s)
  BY <1>0 DEF FlowInv, UntakenInv
<1>4. CASE \E result \in SessionDone : EndSession(q, s, result)
  <2> HIDE DEF q
  <2> QED BY <1>0, <1>1, <1>2, <1>4, FlowEnds
<1>5. CASE /\ m.type = "ACK" /\ Covers(m, b) /\ net' = q
           /\ sess' = [sess EXCEPT ![s].pc = "send", ![s].block = NextBlock(b)]
           /\ UNCHANGED <<served, open>>
  <2>1. NextBlock(b) <= cl.expected
    <3>1. m.block < cl.expected /\ m.block \in Nat
      BY <1>2, <1>5, OrderlyFields, PacketsAssumption DEF Blocks
    <3>2. b + 1 \in Nat /\ b + 1 <= cl.expected
      BY <1>0, <1>1, <1>5, <3>1 DEF Covers
    <3>3. BlockMod \in Nat /\ BlockMod > 0
      BY PacketsAssumption
    <3>4. NextBlock(b) \in Nat /\ NextBlock(b) <= b + 1
      BY <3>2, <3>3, ModFacts DEF NextBlock
    <3> QED BY <1>0, <1>1, <3>2, <3>4
  <2>2. /\ sess'[s].pc = "send" /\ sess'[s].block = NextBlock(b)
        /\ sess'[s].neg = sess[s].neg
        /\ \A t \in Sessions : t # s => sess'[t] = sess[t]
    BY <1>0, <1>1, <1>5 DEF SessionStates
  <2>3. "send" \notin SessionWaits
    BY DEF SessionWaits
  <2> HIDE DEF q
  <2> QED
    <3>1. /\ net' = q /\ open' = open /\ served' = served
          /\ ToSet(net[ClientPort]) \subseteq ToSet(net'[ClientPort])
          /\ net' \in [Ports -> Seq(Orderly)]
          /\ net'[ClientPort] = net[ClientPort]
          /\ \A t \in Sessions : t # s => net'[t] = net[t]
      BY <1>2, <1>5
    <3>2. sess'[s].block <= cl.expected /\ sess'[s].neg = Settled
      BY <1>1, <2>1, <2>2
    <3>3. sess'[s].pc \notin SessionWaits
      BY <2>2, <2>3
    <3>4. cl.pc \in Idle => Greeted(s)'
      BY <1>3, <3>1 DEF Greeted
    <3> QED
      BY <1>1, <2>2, <3>1, <3>2, <3>3, <3>4, FlowServer
<1>6. CASE m.type = "ACK" /\ ~Covers(m, b) /\ net' = q /\ UNCHANGED <<served, sess, open>>
  <2>1. ToSet(net[s]) = {m} \cup ToSet(q[s])
    BY <1>0, <1>2, MembersBehindHead, PortsAreDistinct
  <2>2. ~(m.block >= b)
    BY <1>6 DEF Covers
  <2>3. /\ Greeted(s) => Greeted(s)'
        /\ Brought(s) => Brought(s)'
    BY <1>2, <1>6 DEF Greeted, Brought
  <2> HIDE DEF m, q
  <2>4. Acknowledged(s) => Acknowledged(s)'
    BY <1>6, <2>1, <2>2 DEF Acknowledged
  <2>5. cl.pc = "recv" => (Greeted(s) \/ Brought(s) \/ Acknowledged(s))'
    BY <1>0, <2>3, <2>4 DEF FlowInv, NobodyWaitsInVain
  <2> QED BY <1>0, <1>1, <1>2, <1>3, <1>6, <2>3, <2>5, FlowServer
<1> QED BY <1>4, <1>5, <1>6 DEF TakeAck, SessionDone

LEMMA FlowStops ==
    ASSUME GetInv, FlowInv, NEW s \in Sessions, UNCHANGED <<cfg, cl>>,
           SessionTimeout(s) \/ PeerGone(s)
    PROVE  FlowInv'
<1>1. \E result \in {"ok", "failed"} : EndSession(net, s, result)
  BY DEF SessionTimeout, PeerGone
<1>2. sess[s].pc # "free"
  BY DEF SessionTimeout, PeerGone, SessionRuns, SessionWaits
<1>3. net \in [Ports -> Seq(Orderly)]
  BY DEF FlowInv
<1> QED BY <1>1, <1>2, <1>3, FlowEnds DEF SessionDone

LEMMA FlowServerSteps ==
    ASSUME GetInv, FlowInv, Calm, NEW s \in Sessions,
           \/ Session(s) \/ SessionTimer(s) \/ Refused(s)
           \/ Spawn(s) /\ UNCHANGED <<getVars, faults>>
    PROVE  FlowInv'
<1>1. UNCHANGED <<cfg, cl>>
  BY DEF Session, SessionTimer, Refused, getVars
<1> QED
  BY <1>1, FlowSpawns, FlowOpens, FlowTransfers, FlowTakesAck, FlowStops
  DEF Session, SessionTimer, Refused, SessionStep

\* Nothing of what is under way is lost.
LEMMA FlowNetwork ==
    ASSUME GetInv, FlowInv, Calm, Network
    PROVE  FlowInv'
<1>1. /\ net \in [Ports -> Seq(Orderly)] /\ NetworkFault
      /\ UNCHANGED <<cfg, cl, served, sess>>
  BY DEF FlowInv, Network, getVars, serverVars
<1>2. net' \in [Ports -> Seq(Orderly)] /\ UNCHANGED open
  BY <1>1, FaultKeepsPackets
<1>3. \A p \in Ports : ToSet(net'[p]) = ToSet(net[p])
  <2>1. "lose" \notin FaultKinds /\ net \in Queues(Orderly)
    BY <1>1 DEF Calm, Queues
  <2> QED BY <1>1, <2>1, FaultMembers
<1>4. \A s \in Sessions :
          /\ Greeted(s)' <=> Greeted(s)
          /\ Brought(s)' <=> Brought(s)
          /\ Acknowledged(s)' <=> Acknowledged(s)
  BY <1>1, <1>3, PortsAreDistinct DEF Greeted, Brought, Acknowledged
<1>5. Orderly' = Orderly /\ Settled' = Settled
  BY <1>1 DEF Orderly, L, Settled, SettledFor
<1>6. EndsInv'
  BY <1>1, <1>2, <1>5 DEF FlowInv, EndsInv
<1> QED
  BY <1>1, <1>2, <1>4, <1>5, <1>6 DEF FlowInv, UntakenInv, NobodyWaitsInVain

-----------------------------------------------------------------------------
LEMMA FlowInvInit == Init => FlowInv
<1> SUFFICES ASSUME Init PROVE FlowInv
  OBVIOUS
<1>1. /\ cl.pc = "start" /\ cl.expected = 1 /\ net = [p \in Ports |-> <<>>]
      /\ open = {ListenPort, ClientPort}
      /\ \A s \in Sessions : sess[s].pc = "free" /\ sess[s].block = 1
  BY DEF Init, ClientInit, ServerInit, NetInit
<1>2. "free" \notin SessionRuns /\ "free" \notin SessionWaits
  BY DEF SessionRuns, SessionWaits
<1>3. net \in [Ports -> Seq(Orderly)]
  BY <1>1
<1> QED
  BY <1>1, <1>2, <1>3 DEF FlowInv, EndsInv, UntakenInv, NobodyWaitsInVain

LEMMA FlowInvNext == GetInv /\ FlowInv /\ Calm /\ [Next]_vars => FlowInv'
<1> SUFFICES ASSUME GetInv, FlowInv, Calm, [Next]_vars PROVE FlowInv'
  OBVIOUS
<1>1. CASE Client \/ ClientTimer \/ Writer
  BY <1>1, FlowClient
<1>2. CASE Listener
  BY <1>2, FlowServerSteps DEF Listener
<1>3. CASE \E s \in Sessions : Session(s) \/ SessionTimer(s) \/ Refused(s)
  BY <1>3, FlowServerSteps
<1>4. CASE Network
  BY <1>4, FlowNetwork
<1>5. CASE UNCHANGED vars
  BY <1>5
  DEF vars, FlowInv, Orderly, L, EndsInv, Settled, SettledFor, UntakenInv,
      NobodyWaitsInVain, Greeted, Brought, Acknowledged
<1> QED BY <1>1, <1>2, <1>3, <1>4, <1>5 DEF Next

\* Nobody waits for nothing unless something was lost: whenever the client's timer is
\* due no session waits for an ACK of its, for every file, wrap and resumption included,
\* however datagrams are repeated and delayed and however early timers fire, as long as
\* the transfer is in lockstep.
THEOREM GetNeverStandsOff ==
    ASSUME "lose" \notin FaultKinds,
           \A c \in Configs : SettledFor(c).windowsize = 1
    PROVE  Spec => []NoStandOff
<1>1. Calm
  BY DEF Calm
<1>2. GetInv /\ FlowInv => NoStandOff
  BY NobodyWaits DEF NoStandOff
<1>3. Spec => []FlowInv
  BY <1>1, FlowInvInit, FlowInvNext, GetInvHolds, PTL DEF Spec
<1> QED BY <1>2, <1>3, GetInvHolds, PTL
=============================================================================
