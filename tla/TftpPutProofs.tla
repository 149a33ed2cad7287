--------------------------- MODULE TftpPutProofs ---------------------------
(***************************************************************************)
(* Proofs about a PUT, for every number of sessions, every fault budget,   *)
(* every configuration, file and disk, and every block size and range of   *)
(* block numbers.  PutInv says where the client and every session stand in *)
(* the file and what each datagram under way carries; KeepInv says what is *)
(* in the remote file.                                                     *)
(***************************************************************************)
EXTENDS TftpPut, OptionsProofs, TransferProofs, FiniteSetTheorems

USE DEF Lesser, Greater

\* What both ends settle on, and the block size in it.
SettledFor(c, len) == Granted(RequestOptions(c, len))
Settled == SettledFor(cfg, srcLen)
B == Settled.blksize

Asking == cl.pc \in {"start", "await", "backoff"}
Working == cl.pc \in {"read", "ack", "pause"}

-----------------------------------------------------------------------------
\* DATA packet m carries the block that its number says of a file of len bytes.
Rightful(m, blksize, len) ==
    /\ m.block > 0 /\ m.len > 0
    /\ m.off = (m.block - 1) * blksize
    /\ m.len = Lesser(blksize, len - m.off)

\* What may be under way: while the client c asks there is nothing to acknowledge.
HonestPackets(c, len, asking) ==
    {m \in PutPackets :
        /\ m.type = "WRQ" => m.options = RequestOptions(c, len)
        /\ m.type = "OACK" => m.options = OackOptions(SettledFor(c, len), NoSize)
        /\ m.type = "DATA" => Rightful(m, SettledFor(c, len).blksize, len)
        /\ asking => m.type \notin {"DATA", "ACK"}}

\* The client works with the settled block size and stands where its block number
\* says, within the file.
ClientInv ==
    /\ cfg \in Configs /\ srcLen \in FileLens /\ cl \in ClientStates
    /\ Asking => cl.block = 1 /\ cl.rpos = 0
    /\ Working => /\ cl.blksize = B /\ cl.block > 0
                  /\ cl.rpos = (cl.block - 1) * B /\ cl.rpos <= srcLen
    /\ cl.pc \in {"ack", "pause"} => cl.rpos < srcLen

\* How many blocks session t has counted: its next one may be the one after the
\* greatest number.
Counted(t) == IF t.expected = 0 THEN BlockMod - 1 ELSE t.expected - 1

\* A session writes behind what it has written, and stands where its block number
\* says as long as every write has succeeded.
InStep(t) ==
    /\ t.pc # "free" => t.neg = Settled
    /\ t.pc \in {"free", "spawned", "create"} =>
           t.expected = 1 /\ t.wpos = 0 /\ t.pending = NoWrite /\ ~t.broken
    /\ t.pending # NoWrite =>
           /\ ~t.broken /\ t.pending.len > 0
           /\ t.pending.off = t.wpos /\ t.wpos + t.pending.len <= srcLen
    /\ t.pc = "recv" /\ ~t.broken => t.wpos + t.pending.len = Counted(t) * B

ServerInv ==
    /\ access \in Accesses /\ room \in Rooms /\ remote \in Seq(Nat)
    /\ sess \in [Sessions -> SessionStates]
    /\ \A s \in Sessions : InStep(sess[s])

SocketsInv == open \subseteq Ports /\ faults \in 0..MaxFaults

QueuesInv == net \in [Ports -> Seq(HonestPackets(cfg, srcLen, Asking))]

PutInv == ClientInv /\ ServerInv /\ SocketsInv /\ QueuesInv

-----------------------------------------------------------------------------
(* Facts about the parts *)

LEMMA ConfigTypes ==
    ASSUME NEW c \in Configs
    PROVE  /\ c.blksize \in 0..(U16 - 1) /\ c.timeout \in 0..(U16 - 1)
           /\ c.windowsize \in 0..(U16 - 1)
           /\ c.blksize \in Nat /\ c.timeout \in Nat /\ c.windowsize \in Nat
           /\ c.retries \in Nat
BY PutClientAssumption, OptionsAssumption DEF ClientConfigs

LEMMA LengthTypes ==
    ASSUME NEW len \in FileLens
    PROVE  len \in Nat /\ len # NoSize /\ len \in Nat \cup {NoSize}
BY PutClientAssumption DEF NoSize

LEMMA SettledFacts ==
    ASSUME NEW c \in Configs, NEW len \in FileLens
    PROVE  /\ SettledFor(c, len) \in Negotiations
           /\ SettledFor(c, len).blksize \in Nat /\ SettledFor(c, len).blksize > 0
           /\ SettledFor(c, len).timeout \in Nat
<1>1. IsOptionSet(RequestOptions(c, len))
  BY ConfigTypes, LengthTypes, RequestCarriesConfig
<1>2. SettledFor(c, len) \in Negotiations /\ Legal(SettledFor(c, len))
  BY <1>1, GrantedIsLegal DEF SettledFor
<1> QED BY <1>2, OptionsAssumption DEF Legal, Negotiations

\* What the client adopts from the OACK of a session is what that settled on.
LEMMA AdoptsSettled ==
    ASSUME NEW c \in Configs, NEW len \in FileLens
    PROVE  LET a == apply_oack(InitialNegotiation(c),
                               OackOptions(SettledFor(c, len), NoSize))
           IN  a.blksize = SettledFor(c, len).blksize
               /\ a.timeout = SettledFor(c, len).timeout
<1>1. NoSize \in Nat \cup {NoSize}
  OBVIOUS
<1> QED BY <1>1, ConfigTypes, LengthTypes, AdoptedAgrees DEF SettledFor

\* What the two ends build is honest; DATA and ACKs come after the questions.
LEMMA PacketsBuilt ==
    ASSUME NEW c \in Configs, NEW len \in FileLens
    PROVE  /\ \A asking \in BOOLEAN :
                  Wrq(ClientPort, RequestOptions(c, len)) \in HonestPackets(c, len, asking)
           /\ \A asking \in BOOLEAN, s \in Sessions :
                  /\ Oack(s, OackOptions(SettledFor(c, len), NoSize))
                         \in HonestPackets(c, len, asking)
                  /\ Error(s) \in HonestPackets(c, len, asking)
           /\ \A s \in Sessions, b \in Blocks : Ack(s, b) \in HonestPackets(c, len, FALSE)
           /\ \A b \in Blocks, off \in Nat, n \in Nat :
                  Rightful(Data(ClientPort, b, off, n), SettledFor(c, len).blksize, len)
                  => Data(ClientPort, b, off, n) \in HonestPackets(c, len, FALSE)
<1>1. RequestOptions(c, len) \in [OptionNames -> Nat]
  BY ConfigTypes, LengthTypes, RequestCarriesConfig
<1>2. OackOptions(SettledFor(c, len), NoSize)
          \in [{"blksize", "timeout"} -> Nat]
                  \cup [{"blksize", "timeout", "windowsize"} -> Nat]
  <2>1. NoSize \in Nat \cup {NoSize}
    OBVIOUS
  <2> QED BY <2>1, SettledFacts, OackCarriesSettled
<1>3. ASSUME NEW asking \in BOOLEAN
      PROVE  Wrq(ClientPort, RequestOptions(c, len)) \in HonestPackets(c, len, asking)
  BY <1>1 DEF HonestPackets, PutPackets, Wrq
<1>4. ASSUME NEW asking \in BOOLEAN, NEW s \in Sessions
      PROVE  /\ Oack(s, OackOptions(SettledFor(c, len), NoSize))
                    \in HonestPackets(c, len, asking)
             /\ Error(s) \in HonestPackets(c, len, asking)
  BY <1>2 DEF HonestPackets, PutPackets, Oack, Error
<1>5. ASSUME NEW s \in Sessions, NEW b \in Blocks
      PROVE  Ack(s, b) \in HonestPackets(c, len, FALSE)
  BY DEF HonestPackets, PutPackets, Ack
<1>6. ASSUME NEW b \in Blocks, NEW off \in Nat, NEW n \in Nat,
             Rightful(Data(ClientPort, b, off, n), SettledFor(c, len).blksize, len)
      PROVE  Data(ClientPort, b, off, n) \in HonestPackets(c, len, FALSE)
  BY <1>6 DEF HonestPackets, PutPackets, Data
<1> QED BY <1>3, <1>4, <1>5, <1>6

\* The fields of a packet under way.
LEMMA PacketFields ==
    ASSUME NEW c, NEW len, NEW asking, NEW m \in HonestPackets(c, len, asking)
    PROVE  /\ m.type \in {"WRQ", "OACK", "DATA", "ACK", "ERROR"}
           /\ m.from \in Ports
           /\ m.type # "DATA" /\ m.type # "WRQ" => m.from \in Sessions
           /\ m.type = "WRQ" => m.options = RequestOptions(c, len)
           /\ m.type = "OACK" => m.options = OackOptions(SettledFor(c, len), NoSize)
           /\ m.type = "DATA" => /\ m.block \in Blocks /\ m.off \in Nat /\ m.len \in Nat
                                 /\ Rightful(m, SettledFor(c, len).blksize, len)
           /\ m.type = "ACK" => m.block \in Blocks
           /\ asking => m.type \notin {"DATA", "ACK"}
BY PortsAreDistinct DEF HonestPackets, PutPackets

\* What may be under way while the client asks may be so later.
LEMMA HonestGrows ==
    ASSUME NEW c, NEW len, NEW now \in BOOLEAN, NEW later \in BOOLEAN, later => now,
           NEW q \in [Ports -> Seq(HonestPackets(c, len, now))]
    PROVE  q \in [Ports -> Seq(HonestPackets(c, len, later))]
<1>1. HonestPackets(c, len, now) \subseteq HonestPackets(c, len, later)
  BY DEF HonestPackets
<1> QED BY <1>1, QueuesMonotonic

\* The numbers the proofs calculate with.
LEMMA PutFacts ==
    ASSUME PutInv
    PROVE  /\ cfg \in Configs /\ srcLen \in FileLens /\ srcLen \in Nat
           /\ B \in Nat /\ B > 0 /\ B = SettledFor(cfg, srcLen).blksize
           /\ Settled = SettledFor(cfg, srcLen)
           /\ BlockMod \in Nat /\ BlockMod > 2
           /\ Asking \in BOOLEAN
BY SettledFacts, LengthTypes, PacketsAssumption
DEF PutInv, ClientInv, B, Settled, Asking

-----------------------------------------------------------------------------
(* The client's steps *)

\* What a step of the client must keep.
ClientKeeps == ClientInv' /\ QueuesInv' /\ open' \subseteq Ports

\* A step that leaves the client where it stands.
LEMMA ClientStays ==
    ASSUME PutInv, UNCHANGED <<cfg, srcLen>>, cl' \in ClientStates,
           cl'.block = cl.block, cl'.rpos = cl.rpos, cl'.blksize = cl.blksize,
           Asking' => Asking, Working' => Working,
           cl'.pc \in {"ack", "pause"} => cl.rpos < srcLen,
           net' \in [Ports -> Seq(HonestPackets(cfg, srcLen, Asking'))],
           open' \subseteq Ports
    PROVE  ClientKeeps
<1>1. B' = B
  BY DEF B, Settled, SettledFor
<1> QED
  BY <1>1 DEF PutInv, ClientInv, ClientKeeps, QueuesInv, Asking, Working

LEMMA ReturnKeeps ==
    ASSUME PutInv, NEW q \in [Ports -> Seq(HonestPackets(cfg, srcLen, Asking))],
           NEW result \in ClientDone, Return(q, result), UNCHANGED <<cfg, srcLen>>
    PROVE  ClientKeeps
<1>1. /\ cl' \in ClientStates /\ cl'.block = cl.block /\ cl'.rpos = cl.rpos
      /\ cl'.blksize = cl.blksize /\ cl'.pc = result
  BY DEF PutInv, ClientInv, Return, ClientStates
<1>2. ~Asking' /\ ~Working' /\ cl'.pc \notin {"ack", "pause"}
  BY <1>1 DEF Asking, Working, ClientDone, ClientFailed
<1>3. net' \in [Ports -> Seq(HonestPackets(cfg, srcLen, Asking'))]
  <2>1. net' \in [Ports -> Seq(HonestPackets(cfg, srcLen, Asking))]
    BY ClosedKeepsPackets, PortsAreDistinct DEF Return
  <2>2. net' \in [Ports -> Seq(HonestPackets(cfg, srcLen, FALSE))]
    BY <2>1, HonestGrows, PutFacts
  <2>3. Asking' = FALSE
    BY <1>2 DEF Asking
  <2> QED BY <2>2, <2>3
<1>4. open' \subseteq Ports
  BY DEF PutInv, SocketsInv, Return
<1> QED BY <1>1, <1>2, <1>3, <1>4, ClientStays

LEMMA FailsKeeps ==
    ASSUME PutInv, NEW q \in [Ports -> Seq(HonestPackets(cfg, srcLen, Asking))],
           NEW again, AttemptFails(q, again), UNCHANGED <<cfg, srcLen>>,
           \/ cl.pc = "await" /\ again = "backoff"
           \/ cl.pc = "ack" /\ again = "pause"
    PROVE  ClientKeeps
<1>1. cl \in ClientStates /\ cl.attempt \in Nat
  BY DEF PutInv, ClientInv, ClientStates
<1>2. CASE Return(q, "protocol")
  BY <1>2, ReturnKeeps DEF ClientDone, ClientFailed
<1>3. CASE /\ cl' = [cl EXCEPT !.pc = again, !.attempt = @ + 1]
           /\ net' = q
           /\ UNCHANGED open
  <2> DEFINE n == cl.attempt + 1
  <2>1. n \in Nat /\ cl' = [cl EXCEPT !.pc = again, !.attempt = n]
    BY <1>1, <1>3 DEF ClientStates
  <2> HIDE DEF n
  <2>2. /\ cl' \in ClientStates /\ cl'.block = cl.block /\ cl'.rpos = cl.rpos
        /\ cl'.blksize = cl.blksize /\ cl'.pc = again
    BY <1>1, <2>1 DEF ClientStates
  <2>3. /\ Asking' = Asking /\ Working' = Working
        /\ cl'.pc \in {"ack", "pause"} => cl.rpos < srcLen
    BY <2>2 DEF Asking, Working, PutInv, ClientInv
  <2> QED BY <1>3, <2>2, <2>3, ClientStays DEF PutInv, SocketsInv
<1> QED BY <1>2, <1>3 DEF AttemptFails

LEMMA AskingKeeps ==
    ASSUME PutInv, SendRequest \/ NoAttempt, UNCHANGED <<cfg, srcLen>>
    PROVE  ClientKeeps
<1>1. /\ net \in [Ports -> Seq(HonestPackets(cfg, srcLen, Asking))]
      /\ cl \in ClientStates /\ open \subseteq Ports
  BY DEF PutInv, QueuesInv, ClientInv, SocketsInv
<1>2. CASE SendRequest
  <2>1. /\ cl' \in ClientStates /\ cl'.block = cl.block /\ cl'.rpos = cl.rpos
        /\ cl'.blksize = cl.blksize /\ cl'.pc = "await" /\ cl.pc \in {"start", "backoff"}
    BY <1>1, <1>2 DEF SendRequest, ClientStates, ClientWaits
  <2>2. Asking' = Asking /\ Asking /\ ~Working' /\ cl'.pc \notin {"ack", "pause"}
    BY <2>1 DEF Asking, Working
  <2>3. Wrq(ClientPort, RequestOptions(cfg, srcLen))
            \in HonestPackets(cfg, srcLen, Asking)
    BY PacketsBuilt, PutFacts
  <2>4. net' \in [Ports -> Seq(HonestPackets(cfg, srcLen, Asking))]
    BY <1>1, <1>2, <2>3, SentKeepsPackets, PortsAreDistinct DEF SendRequest
  <2> QED BY <1>1, <1>2, <2>1, <2>2, <2>4, ClientStays DEF SendRequest
<1>3. CASE NoAttempt
  BY <1>1, <1>3, ReturnKeeps DEF NoAttempt, ClientDone, ClientFailed
<1> QED BY <1>2, <1>3

\* The reply is an OACK, whose values are those of the session.
LEMMA ReplyKeeps ==
    ASSUME PutInv, net[ClientPort] # <<>>, ReceiveReply(Head(net[ClientPort])),
           UNCHANGED <<cfg, srcLen>>
    PROVE  ClientKeeps
<1> DEFINE m == Head(net[ClientPort])
           q == Received(net, ClientPort)
           neg == apply_oack(InitialNegotiation(cfg), m.options)
<1>1. /\ net \in [Ports -> Seq(HonestPackets(cfg, srcLen, Asking))]
      /\ cl \in ClientStates /\ open \subseteq Ports
      /\ cl.pc = "await" /\ Asking /\ cl.block = 1 /\ cl.rpos = 0
  BY DEF PutInv, QueuesInv, ClientInv, SocketsInv, ReceiveReply, Asking
<1>2. /\ q \in [Ports -> Seq(HonestPackets(cfg, srcLen, Asking))]
      /\ m \in HonestPackets(cfg, srcLen, Asking)
  BY <1>1, ReceivedKeepsPackets, PortsAreDistinct
<1>3. /\ m.type # "ACK" /\ m.from \in Ports
      /\ m.type = "OACK" => m.options = OackOptions(SettledFor(cfg, srcLen), NoSize)
  BY <1>1, <1>2, PacketFields
<1>4. m.type = "OACK" => /\ neg.blksize = B /\ neg.blksize \in Nat
                         /\ neg.timeout \in Nat
  <2>1. SettledFor(cfg, srcLen).timeout \in Nat
    BY PutFacts, SettledFacts
  <2> QED BY <1>3, <2>1, PutFacts, AdoptsSettled
<1> HIDE DEF m, q, neg
<1>5. CASE \E result \in {"remote", "protocol"} : Return(q, result)
  BY <1>2, <1>5, ReturnKeeps DEF ClientDone, ClientFailed
<1>6. CASE /\ m.type = "OACK"
           /\ cl' = [cl EXCEPT !.pc = "read", !.attempt = 0, !.server = m.from,
                               !.blksize = neg.blksize, !.timeout = neg.timeout]
           /\ net' = q
           /\ UNCHANGED open
  <2>1. /\ cl' \in ClientStates /\ cl'.pc = "read" /\ cl'.blksize = B
        /\ cl'.block = 1 /\ cl'.rpos = 0
    BY <1>1, <1>3, <1>4, <1>6 DEF ClientStates
  <2>2. B' = B /\ ~Asking'
    BY <2>1 DEF B, Settled, SettledFor, Asking
  <2>3. ClientInv'
    BY <2>1, <2>2, PutFacts DEF PutInv, ClientInv
  <2>4. QueuesInv'
    <3>1. net' \in [Ports -> Seq(HonestPackets(cfg, srcLen, FALSE))]
      BY <1>2, <1>6, HonestGrows, PutFacts
    <3>2. Asking' = FALSE
      BY <2>2 DEF Asking
    <3> QED BY <3>1, <3>2 DEF QueuesInv
  <2> QED BY <1>1, <1>6, <2>3, <2>4 DEF ClientKeeps
<1> QED
  BY <1>3, <1>5, <1>6 DEF ReceiveReply, m, q, neg

\* A block goes out with the number and the bytes that belong together.
LEMMA SendBlockKeeps ==
    ASSUME PutInv, SendBlock, UNCHANGED <<cfg, srcLen>>
    PROVE  ClientKeeps
<1>1. /\ net \in [Ports -> Seq(HonestPackets(cfg, srcLen, Asking))]
      /\ cl \in ClientStates /\ open \subseteq Ports
      /\ Working /\ Asking = FALSE
  BY DEF PutInv, QueuesInv, ClientInv, SocketsInv, SendBlock, Asking, Working
<1>2. /\ cl.block \in Blocks /\ cl.rpos \in Nat /\ cl.server \in Ports
      /\ cl.blksize = B /\ cl.block > 0 /\ cl.rpos = (cl.block - 1) * B
      /\ cl.rpos <= srcLen
  BY <1>1 DEF PutInv, ClientInv, ClientStates
<1>3. cl.rpos < srcLen
  BY <1>2, PutFacts DEF PutInv, ClientInv, SendBlock, BlockLen
<1> DEFINE n == BlockLen
           m == Data(ClientPort, cl.block, cl.rpos, n)
<1>4. n = Lesser(B, srcLen - cl.rpos) /\ n \in Nat /\ n > 0
  BY <1>2, <1>3, PutFacts DEF BlockLen
<1> HIDE DEF n
<1>5. Rightful(m, B, srcLen)
  BY <1>2, <1>4 DEF Rightful, Data
<1>6. m \in HonestPackets(cfg, srcLen, FALSE)
  BY <1>2, <1>4, <1>5, PutFacts, PacketsBuilt
<1>7. net' \in [Ports -> Seq(HonestPackets(cfg, srcLen, FALSE))]
  <2>1. net' = Sent(net, cl.server, m)
    BY DEF SendBlock, n
  <2> QED BY <1>1, <1>2, <1>6, <2>1, SentKeepsPackets
<1>8. /\ cl' \in ClientStates /\ cl'.block = cl.block /\ cl'.rpos = cl.rpos
      /\ cl'.blksize = cl.blksize /\ cl'.pc = "ack"
  BY <1>1 DEF SendBlock, ClientStates, ClientWaits
<1>9. Asking' = FALSE /\ Working'
  BY <1>8 DEF Asking, Working
<1> QED
  BY <1>1, <1>3, <1>7, <1>8, <1>9, ClientStays DEF SendBlock

\* The awaited ACK moves the client by one block, which was not the greatest.
LEMMA AckKeeps ==
    ASSUME PutInv, net[ClientPort] # <<>>, ReceiveAck(Head(net[ClientPort])),
           UNCHANGED <<cfg, srcLen>>
    PROVE  ClientKeeps
<1> DEFINE m == Head(net[ClientPort])
           q == Received(net, ClientPort)
<1>1. /\ net \in [Ports -> Seq(HonestPackets(cfg, srcLen, Asking))]
      /\ cl \in ClientStates /\ open \subseteq Ports
      /\ cl.pc = "ack" /\ Working /\ Asking = FALSE /\ cl.rpos < srcLen
  BY DEF PutInv, QueuesInv, ClientInv, SocketsInv, ReceiveAck, Asking, Working
<1>2. /\ q \in [Ports -> Seq(HonestPackets(cfg, srcLen, Asking))]
      /\ m.from \in Ports
  BY <1>1, ReceivedKeepsPackets, PortsAreDistinct, PacketFields
<1>3. /\ cl.block \in Blocks /\ cl.rpos \in Nat
      /\ cl.blksize = B /\ cl.block > 0 /\ cl.rpos = (cl.block - 1) * B
  BY <1>1 DEF PutInv, ClientInv, ClientStates
<1> HIDE DEF m, q
<1>4. CASE \E result \in {"ok", "protocol"} : Return(q, result)
  BY <1>2, <1>4, ReturnKeeps DEF ClientDone, ClientFailed
<1>5. CASE /\ ~(BlockLen < cl.blksize) /\ ~WrapsAfter(cl.block)
           /\ cl' = [cl EXCEPT !.pc = "read", !.attempt = 0, !.server = m.from,
                               !.block = @ + 1, !.rpos = @ + BlockLen]
           /\ net' = q
           /\ UNCHANGED open
  <2> DEFINE b == cl.block + 1
             pos == cl.rpos + BlockLen
  <2>1. BlockLen = B /\ cl.rpos + B <= srcLen
    BY <1>1, <1>3, <1>5, PutFacts DEF BlockLen
  <2>2. b \in Blocks /\ b > 0
    BY <1>3, <1>5, PutFacts DEF WrapsAfter, Blocks
  <2>3. pos \in Nat /\ pos <= srcLen /\ pos = (b - 1) * B
    <3>1. cl.block \in Nat /\ b - 1 = cl.block
      BY <1>3, PutFacts DEF Blocks
    <3>2. cl.block * B = (cl.block - 1) * B + B
      BY <1>3, <3>1, PutFacts, ProductStep
    <3> QED BY <1>3, <2>1, <3>1, <3>2, PutFacts
  <2>4. cl' = [cl EXCEPT !.pc = "read", !.attempt = 0, !.server = m.from,
                         !.block = b, !.rpos = pos]
    BY <1>1, <1>5 DEF ClientStates
  <2> HIDE DEF b, pos
  <2>5. /\ cl' \in ClientStates /\ cl'.pc = "read" /\ cl'.blksize = B
        /\ cl'.block = b /\ cl'.rpos = pos
    BY <1>1, <1>2, <1>3, <2>2, <2>3, <2>4 DEF ClientStates
  <2>6. B' = B /\ Asking' = FALSE
    BY <2>5 DEF B, Settled, SettledFor, Asking
  <2>7. ClientInv'
    BY <2>2, <2>3, <2>5, <2>6, PutFacts DEF PutInv, ClientInv
  <2>8. QueuesInv'
    BY <1>1, <1>2, <1>5, <2>6 DEF QueuesInv
  <2> QED BY <1>1, <1>5, <2>7, <2>8 DEF ClientKeeps
<1> QED
  BY <1>4, <1>5 DEF ReceiveAck, m, q

LEMMA OtherKeeps ==
    ASSUME PutInv, UNCHANGED <<cfg, srcLen>>,
           \/ EndOfFile
           \/ /\ net[ClientPort] # <<>>
              /\ \/ ReceiveError(Head(net[ClientPort]))
                 \/ ReceiveUnexpected(Head(net[ClientPort]))
           \/ ClientTimeout
    PROVE  ClientKeeps
<1>1. net \in [Ports -> Seq(HonestPackets(cfg, srcLen, Asking))]
  BY DEF PutInv, QueuesInv
<1>2. net[ClientPort] # <<>> =>
          Received(net, ClientPort) \in [Ports -> Seq(HonestPackets(cfg, srcLen, Asking))]
  BY <1>1, ReceivedKeepsPackets, PortsAreDistinct
<1>3. CASE EndOfFile
  BY <1>1, <1>3, ReturnKeeps DEF EndOfFile, ClientDone
<1>4. CASE net[ClientPort] # <<>> /\ ReceiveError(Head(net[ClientPort]))
  BY <1>2, <1>4, ReturnKeeps DEF ReceiveError, ClientDone, ClientFailed
<1>5. CASE net[ClientPort] # <<>> /\ ReceiveUnexpected(Head(net[ClientPort]))
  BY <1>2, <1>5, FailsKeeps DEF ReceiveUnexpected
<1>6. CASE ClientTimeout
  BY <1>1, <1>6, FailsKeeps DEF ClientTimeout
<1> QED BY <1>3, <1>4, <1>5, <1>6

\* The timers draw on the budget of faults.
LEMMA TimersInBudget ==
    ASSUME PutInv, NEW due \in BOOLEAN, TimerFires(due)
    PROVE  faults' \in 0..MaxFaults
BY NetworkAssumption DEF TimerFires, Fault, PutInv, SocketsInv

LEMMA ClientInvariant ==
    ASSUME PutInv, Client \/ ClientTimer
    PROVE  PutInv'
<1>1. ClientKeeps
  BY AskingKeeps, ReplyKeeps, SendBlockKeeps, AckKeeps, OtherKeeps
  DEF Client, ClientTimer, ClientStep, ClientReceive, ClientTimeout
<1>2. faults' \in 0..MaxFaults
  <2>1. ClientTimerDue \in BOOLEAN
    BY DEF ClientTimerDue
  <2> QED BY <2>1, TimersInBudget DEF Client, ClientTimer, PutInv, SocketsInv
<1>3. UNCHANGED <<cfg, srcLen, access, room, remote, sess>>
  BY DEF Client, ClientTimer, ClientStep, ClientTimeout, serverVars, disk
<1>4. ServerInv'
  <2>1. B' = B /\ Settled' = Settled
    BY <1>3 DEF B, Settled, SettledFor
  <2>2. \A s \in Sessions : InStep(sess[s])'
    <3> TAKE s \in Sessions
    <3>1. InStep(sess[s])
      BY DEF PutInv, ServerInv
    <3> QED BY <1>3, <2>1, <3>1 DEF InStep
  <2> QED BY <1>3, <2>2 DEF PutInv, ServerInv
<1> QED BY <1>1, <1>2, <1>4 DEF PutInv, ClientKeeps, SocketsInv

-----------------------------------------------------------------------------
(* The server's steps *)

\* What a step of the server must keep.
ServerKeeps ==
    /\ ServerInv' /\ open' \subseteq Ports
    /\ net' \in [Ports -> Seq(HonestPackets(cfg, srcLen, Asking))]

\* Session s goes over to state t.
LEMMA SessionMoves ==
    ASSUME PutInv, UNCHANGED <<cfg, srcLen, disk>>, remote' \in Seq(Nat),
           NEW s \in Sessions, NEW t \in SessionStates, InStep(t),
           sess' = [sess EXCEPT ![s] = t]
    PROVE  ServerInv'
<1>1. B' = B /\ Settled' = Settled
  BY DEF B, Settled, SettledFor
<1>2. sess \in [Sessions -> SessionStates] /\ \A r \in Sessions : InStep(sess[r])
  BY DEF PutInv, ServerInv
<1>3. \A r \in Sessions : InStep(sess[r])'
  <2> TAKE r \in Sessions
  <2>1. sess'[r] = t \/ sess'[r] = sess[r]
    BY <1>2
  <2>2. InStep(sess[r])
    BY <1>2
  <2>3. CASE sess'[r] = t
    BY <1>1, <2>3 DEF InStep
  <2>4. CASE sess'[r] = sess[r]
    BY <1>1, <2>2, <2>4 DEF InStep
  <2> QED BY <2>1, <2>3, <2>4
<1> QED BY <1>2, <1>3 DEF PutInv, ServerInv, disk

LEMMA EndKeeps ==
    ASSUME PutInv, NEW s \in Sessions, NEW result \in SessionDone,
           NEW q \in [Ports -> Seq(HonestPackets(cfg, srcLen, Asking))],
           EndSession(q, s, result), sess[s].pc # "free",
           UNCHANGED <<cfg, srcLen, disk, remote>>
    PROVE  ServerKeeps
<1> DEFINE t == [sess[s] EXCEPT !.pc = result]
<1>1. sess \in [Sessions -> SessionStates] /\ InStep(sess[s]) /\ remote \in Seq(Nat)
  BY DEF PutInv, ServerInv
<1>2. t \in SessionStates
  BY <1>1 DEF SessionStates
<1>3. InStep(t)
  <2>1. sess[s] \in SessionStates
    BY <1>1
  <2>2. /\ t.pc = result /\ t.neg = sess[s].neg /\ t.wpos = sess[s].wpos
        /\ t.pending = sess[s].pending /\ t.broken = sess[s].broken
    BY <2>1 DEF SessionStates
  <2>3. result \notin {"free", "spawned", "create", "recv"}
    BY DEF SessionDone
  <2> HIDE DEF t
  <2> QED BY <1>1, <2>2, <2>3 DEF InStep
<1>4. sess' = [sess EXCEPT ![s] = t]
  BY <1>1 DEF EndSession
<1>5. ServerInv'
  BY <1>1, <1>2, <1>3, <1>4, SessionMoves
<1>6. net' \in [Ports -> Seq(HonestPackets(cfg, srcLen, Asking))]
  BY ClosedKeepsPackets, PortsAreDistinct DEF EndSession
<1> QED
  BY <1>5, <1>6 DEF EndSession, PutInv, ServerKeeps, SocketsInv

LEMMA SpawnKeeps ==
    ASSUME PutInv, NEW s \in Sessions, Spawn(s), UNCHANGED <<cfg, srcLen>>
    PROVE  ServerKeeps
<1> DEFINE m == Head(net[ListenPort])
           t == [sess[s] EXCEPT !.pc = "spawned", !.neg = Settled]
<1>1. /\ net \in [Ports -> Seq(HonestPackets(cfg, srcLen, Asking))]
      /\ net[ListenPort] # <<>> /\ m.type = "WRQ"
      /\ sess \in [Sessions -> SessionStates] /\ InStep(sess[s])
      /\ remote \in Seq(Nat) /\ sess[s].pc = "free"
  BY DEF PutInv, QueuesInv, ServerInv, Spawn
<1>2. /\ Received(net, ListenPort) \in [Ports -> Seq(HonestPackets(cfg, srcLen, Asking))]
      /\ m \in HonestPackets(cfg, srcLen, Asking)
  BY <1>1, ReceivedKeepsPackets, PortsAreDistinct
<1>3. Granted(m.options) = Settled
  BY <1>1, <1>2, PacketFields DEF Settled, SettledFor
<1>4. t \in SessionStates
  <2>1. Settled \in Negotiations
    BY PutFacts, SettledFacts
  <2> QED BY <1>1, <2>1 DEF SessionStates
<1>5. InStep(t)
  <2>1. sess[s] \in SessionStates
    BY <1>1
  <2>2. /\ t.pc = "spawned" /\ t.neg = Settled /\ t.wpos = sess[s].wpos
        /\ t.expected = sess[s].expected
        /\ t.pending = sess[s].pending /\ t.broken = sess[s].broken
    BY <2>1 DEF SessionStates
  <2> HIDE DEF t
  <2> QED BY <1>1, <2>2 DEF InStep
<1>6. sess' = [sess EXCEPT ![s] = t]
  BY <1>1, <1>3 DEF Spawn
<1> HIDE DEF t
<1>7. ServerInv'
  BY <1>1, <1>4, <1>5, <1>6, SessionMoves DEF Spawn
<1> QED
  BY <1>2, <1>7 DEF Spawn, ServerKeeps, PutInv, SocketsInv

\* The steps of a session before its first DATA.
LEMMA OpeningKeeps ==
    ASSUME PutInv, NEW s \in Sessions, RefuseRequest(s) \/ SendOack(s) \/ CreateFile(s),
           UNCHANGED <<cfg, srcLen>>
    PROVE  ServerKeeps
<1>1. /\ net \in [Ports -> Seq(HonestPackets(cfg, srcLen, Asking))]
      /\ sess \in [Sessions -> SessionStates] /\ sess[s] \in SessionStates
      /\ InStep(sess[s]) /\ remote \in Seq(Nat)
      /\ sess[s].pc \in {"spawned", "create"}
  BY DEF PutInv, QueuesInv, ServerInv, RefuseRequest, SendOack, CreateFile
<1>2. Sent(net, ClientPort, Error(s)) \in [Ports -> Seq(HonestPackets(cfg, srcLen, Asking))]
  BY <1>1, PutFacts, PacketsBuilt, SentKeepsPackets, PortsAreDistinct
<1>3. CASE /\ \/ EndSession(net, s, "failed")
              \/ EndSession(Sent(net, ClientPort, Error(s)), s, "denied")
           /\ UNCHANGED <<disk, remote>>
  BY <1>1, <1>2, <1>3, EndKeeps DEF SessionDone
<1>4. CASE SendOack(s)
  <2> DEFINE t == [sess[s] EXCEPT !.pc = "create"]
  <2>1. t \in SessionStates /\ sess' = [sess EXCEPT ![s] = t]
    BY <1>1, <1>4 DEF SendOack, SessionStates
  <2>2. /\ t.pc = "create" /\ t.neg = sess[s].neg /\ t.wpos = sess[s].wpos
        /\ t.expected = sess[s].expected
        /\ t.pending = sess[s].pending /\ t.broken = sess[s].broken
    BY <1>1 DEF SessionStates
  <2> HIDE DEF t
  <2>3. InStep(t)
    BY <1>1, <2>2 DEF InStep
  <2>4. ServerInv'
    BY <1>1, <1>4, <2>1, <2>3, SessionMoves DEF SendOack
  <2>5. sess[s].neg = SettledFor(cfg, srcLen)
    BY <1>1, PutFacts DEF InStep
  <2>6. Oack(s, OackOptions(sess[s].neg, NoSize)) \in HonestPackets(cfg, srcLen, Asking)
    BY <2>5, PutFacts, PacketsBuilt
  <2>7. net' \in [Ports -> Seq(HonestPackets(cfg, srcLen, Asking))]
    BY <1>1, <1>4, <2>6, SentKeepsPackets, PortsAreDistinct DEF SendOack
  <2> QED
    BY <1>4, <2>4, <2>7, PortsAreDistinct
    DEF SendOack, ServerKeeps, PutInv, SocketsInv
<1>5. CASE /\ sess[s].pc = "create"
           /\ sess' = [sess EXCEPT ![s].pc = "recv"]
           /\ remote' = <<>>
           /\ UNCHANGED <<disk, net, open>>
  <2> DEFINE t == [sess[s] EXCEPT !.pc = "recv"]
  <2>1. t \in SessionStates /\ sess' = [sess EXCEPT ![s] = t]
    BY <1>1, <1>5 DEF SessionStates
  <2>2. /\ t.pc = "recv" /\ t.neg = sess[s].neg /\ t.wpos = sess[s].wpos
        /\ t.expected = sess[s].expected
        /\ t.pending = sess[s].pending /\ t.broken = sess[s].broken
    BY <1>1 DEF SessionStates
  <2> HIDE DEF t
  <2>3. InStep(t)
    BY <1>1, <1>5, <2>2, PutFacts DEF InStep, Counted, NoWrite
  <2>4. remote' \in Seq(Nat)
    BY <1>5
  <2>5. ServerInv'
    BY <1>5, <2>1, <2>3, <2>4, SessionMoves
  <2> QED BY <1>1, <1>5, <2>5 DEF ServerKeeps, PutInv, SocketsInv
<1> QED
  BY <1>3, <1>4, <1>5 DEF RefuseRequest, CreateFile

\* A write lands behind what was written; what did not fit ends the writing.
LEMMA LandKeeps ==
    ASSUME PutInv, NEW s \in Sessions, Land(s), UNCHANGED <<cfg, srcLen>>
    PROVE  ServerKeeps
<1> DEFINE w == sess[s].pending
           n == Lesser(w.len, Greater(0, room - sess[s].wpos))
           pos == sess[s].wpos + n
           cut == n < w.len
           t == [sess[s] EXCEPT !.pending = NoWrite, !.wpos = pos, !.broken = cut]
<1>1. /\ sess \in [Sessions -> SessionStates] /\ sess[s] \in SessionStates
      /\ InStep(sess[s]) /\ remote \in Seq(Nat) /\ room \in Nat /\ w # NoWrite
  BY WriteServerAssumption DEF PutInv, ServerInv, Land
<1>2. /\ w.len \in Nat /\ w.off \in Nat /\ sess[s].wpos \in Nat
      /\ n \in Nat /\ n <= w.len /\ pos \in Nat /\ cut \in BOOLEAN
  BY <1>1 DEF SessionStates, Writes
<1>3. remote' \in Seq(Nat)
  BY <1>1, <1>2, WrittenIsFile DEF Land
<1>4. sess' = [sess EXCEPT ![s] = t]
  BY <1>1 DEF Land
<1> HIDE DEF pos, n, cut
<1>5. t \in SessionStates
  <2>1. NoWrite \in Writes
    BY DEF NoWrite, Writes
  <2> QED BY <1>1, <1>2, <2>1 DEF SessionStates
<1>6. InStep(t)
  <2>1. /\ t.pc = sess[s].pc /\ t.neg = sess[s].neg /\ t.wpos = pos
        /\ t.expected = sess[s].expected
        /\ t.pending = NoWrite /\ t.broken = cut
    BY <1>1 DEF SessionStates
  <2>2. sess[s].pc \notin {"free", "spawned", "create"}
    BY <1>1 DEF InStep
  <2>3. ~cut => pos + NoWrite.len = sess[s].wpos + w.len
    BY <1>2 DEF pos, NoWrite, cut
  <2> HIDE DEF t
  <2> QED
    BY <1>1, <1>2, <2>1, <2>2, <2>3 DEF InStep, Counted
<1> HIDE DEF t
<1>7. ServerInv'
  BY <1>3, <1>4, <1>5, <1>6, SessionMoves DEF Land
<1> QED BY <1>7 DEF Land, ServerKeeps, PutInv, SocketsInv, QueuesInv

\* Counting on from block e.
LEMMA NextBlockFacts ==
    ASSUME NEW e \in Blocks, e > 0
    PROVE  /\ NextBlock(e) \in Blocks
           /\ NextBlock(e) = IF e = BlockMod - 1 THEN 0 ELSE e + 1
<1>1. e \in Nat /\ BlockMod \in Nat /\ BlockMod > 2 /\ e <= BlockMod - 1
  BY PacketsAssumption DEF Blocks
<1>2. CASE e = BlockMod - 1
  <2>1. e + 1 = 1 * BlockMod
    BY <1>1, <1>2
  <2>2. (1 * BlockMod) % BlockMod = 0
    BY <1>1, MultipleHasNoRest
  <2> QED BY <1>1, <1>2, <2>1, <2>2 DEF NextBlock, Blocks
<1>3. CASE e # BlockMod - 1
  <2>1. e + 1 \in Nat /\ e + 1 < BlockMod
    BY <1>1, <1>3
  <2>2. (e + 1) % BlockMod = e + 1
    BY <1>1, <2>1, SmallHasNoQuotient
  <2> QED BY <1>1, <1>3, <2>1, <2>2 DEF NextBlock, Blocks
<1> QED BY <1>2, <1>3

\* What a session acknowledges again is the last block it has counted.
LEMMA LastAckIsCounted ==
    ASSUME NEW t \in SessionStates
    PROVE  (t.expected - 1) % BlockMod = Counted(t) /\ Counted(t) \in Blocks
<1>1. t.expected \in Nat /\ BlockMod \in Nat /\ BlockMod > 2 /\ t.expected <= BlockMod - 1
  BY PacketsAssumption DEF SessionStates, Blocks
<1>2. CASE t.expected = 0
  <2>1. (-1) % BlockMod = BlockMod - 1
    BY <1>1
  <2> QED BY <1>1, <1>2, <2>1 DEF Counted, Blocks
<1>3. CASE t.expected # 0
  <2>1. t.expected - 1 \in Nat /\ t.expected - 1 < BlockMod
    BY <1>1, <1>3
  <2>2. (t.expected - 1) % BlockMod = t.expected - 1
    BY <1>1, <2>1, SmallHasNoQuotient
  <2> QED BY <1>1, <1>3, <2>1, <2>2 DEF Counted, Blocks
<1> QED BY <1>2, <1>3

\* The write that a session makes of its expected block: behind the last one, and
\* a full block as long as it is not the last.
LEMMA BlockFits ==
    ASSUME PutInv, NEW s \in Sessions, sess[s].pc = "recv", ~sess[s].broken,
           sess[s].pending = NoWrite,
           NEW m \in HonestPackets(cfg, srcLen, FALSE), m.type = "DATA",
           m.block = sess[s].expected
    PROVE  /\ m.block \in Blocks /\ m.block > 0 /\ m.len \in Nat /\ m.len > 0
           /\ m.off \in Nat /\ m.off = sess[s].wpos /\ m.off = (m.block - 1) * B
           /\ sess[s].neg.blksize = B /\ m.len <= B
           /\ m.off + m.len <= srcLen
           /\ m.off + m.len = Lesser(m.block * B, srcLen)
           /\ m.len < B => m.off + m.len = srcLen
           /\ m.len >= B => m.off + m.len = m.block * B
<1>1. InStep(sess[s]) /\ sess[s] \in SessionStates
  BY DEF PutInv, ServerInv
<1>2. /\ m.block \in Blocks /\ m.off \in Nat /\ m.len \in Nat
      /\ m.block > 0 /\ m.len > 0 /\ m.off = (m.block - 1) * B
      /\ m.len = Lesser(B, srcLen - m.off)
  <2>1. /\ m.block \in Blocks /\ m.off \in Nat /\ m.len \in Nat
        /\ Rightful(m, SettledFor(cfg, srcLen).blksize, srcLen)
    BY PacketFields
  <2>2. SettledFor(cfg, srcLen).blksize = B
    BY PutFacts
  <2> QED BY <2>1, <2>2 DEF Rightful
<1>3. m.block \in Nat /\ sess[s].wpos \in Nat /\ m.block * B = (m.block - 1) * B + B
  BY <1>1, <1>2, PutFacts, ProductStep DEF SessionStates, Blocks
<1>4. sess[s].wpos = (m.block - 1) * B /\ sess[s].neg.blksize = B
  <2>1. sess[s].pending.len = 0
    BY DEF NoWrite
  <2> QED BY <1>1, <1>2, <1>3, <2>1, PutFacts DEF InStep, Counted, B
<1>5. /\ m.off + m.len <= srcLen /\ m.len <= B
      /\ m.len < B => m.off + m.len = srcLen
      /\ m.len >= B => m.off + m.len = m.off + B
      /\ m.off + m.len = Lesser(m.off + B, srcLen)
  BY <1>2, PutFacts
<1> QED BY <1>2, <1>3, <1>4, <1>5

LEMMA TakeDataKeeps ==
    ASSUME PutInv, NEW s \in Sessions, net[s] # <<>>, TakeData(s, Head(net[s])),
           UNCHANGED <<cfg, srcLen>>
    PROVE  ServerKeeps
<1> DEFINE m == Head(net[s])
           q == Received(net, s)
<1>1. /\ net \in [Ports -> Seq(HonestPackets(cfg, srcLen, Asking))]
      /\ sess \in [Sessions -> SessionStates] /\ sess[s] \in SessionStates
      /\ InStep(sess[s]) /\ remote \in Seq(Nat) /\ remote' = remote
      /\ sess[s].pc = "recv" /\ m.type = "DATA" /\ UNCHANGED disk
  BY DEF PutInv, QueuesInv, ServerInv, TakeData, RepeatAck, TakeBlock
<1>2. q \in [Ports -> Seq(HonestPackets(cfg, srcLen, Asking))]
      /\ m \in HonestPackets(cfg, srcLen, Asking)
  BY <1>1, ReceivedKeepsPackets, PortsAreDistinct
<1>3. Asking = FALSE
  BY <1>1, <1>2, PacketFields, PutFacts
<1>4. m.block \in Blocks
  BY <1>1, <1>2, PacketFields
<1>5. ASSUME NEW b \in Blocks
      PROVE  Sent(q, ClientPort, Ack(s, b))
                 \in [Ports -> Seq(HonestPackets(cfg, srcLen, Asking))]
  <2>1. Ack(s, b) \in HonestPackets(cfg, srcLen, Asking)
    BY <1>3, PutFacts, PacketsBuilt
  <2> QED BY <1>2, <2>1, SentKeepsPackets, PortsAreDistinct
<1> HIDE DEF q, m
<1>6. CASE RepeatAck(s, m)
  <2>1. net' \in [Ports -> Seq(HonestPackets(cfg, srcLen, Asking))]
    BY <1>1, <1>5, <1>6, LastAckIsCounted DEF RepeatAck, q
  <2>2. B' = B /\ Settled' = Settled
    BY DEF B, Settled, SettledFor
  <2>3. ServerInv'
    <3>1. sess' = sess /\ UNCHANGED <<access, room, remote>>
      BY <1>1, <1>6 DEF RepeatAck, disk
    <3>2. ASSUME NEW r \in Sessions PROVE InStep(sess[r])'
      <4>1. InStep(sess[r])
        BY DEF PutInv, ServerInv
      <4> QED BY <2>2, <3>1, <4>1 DEF InStep
    <3> QED BY <3>1, <3>2 DEF PutInv, ServerInv
  <2> QED BY <1>6, <2>1, <2>3 DEF RepeatAck, ServerKeeps, PutInv, SocketsInv
<1>7. CASE TakeBlock(s, m) /\ EndSession(q, s, "failed")
  BY <1>1, <1>2, <1>7, EndKeeps DEF SessionDone
<1>8. CASE TakeBlock(s, m) /\ ~EndSession(q, s, "failed")
  <2>1. m.len > 0 /\ m.block = sess[s].expected
    BY <1>1, <1>2, <1>3, <1>8, PacketFields DEF Rightful, TakeBlock, IsExpected
  <2>2. sess[s].pending = NoWrite /\ ~sess[s].broken
    BY <1>8, <2>1 DEF TakeBlock, q
  <2> DEFINE write == [off |-> m.off, len |-> m.len]
             last == IsLast(s, m)
             pc == IF last THEN "ok" ELSE "recv"
             e == IF last THEN m.block ELSE NextBlock(m.block)
             r == Sent(q, ClientPort, Ack(s, m.block))
             t == [sess[s] EXCEPT !.pending = write, !.pc = pc, !.expected = e]
  <2>3. /\ sess' = [sess EXCEPT ![s].pending = write,
                                ![s].pc = IF last THEN "ok" ELSE @,
                                ![s].expected = IF last THEN @ ELSE NextBlock(@)]
        /\ net' = IF last THEN Closed(r, s) ELSE r
        /\ open' = IF last THEN open \ {s} ELSE open
    BY <1>8, <2>1, <2>2 DEF TakeBlock, q
  <2>4. sess' = [sess EXCEPT ![s] = t]
    BY <1>1, <2>1, <2>3
  <2>5. /\ m.block > 0 /\ m.len \in Nat /\ m.off \in Nat /\ m.off = sess[s].wpos
        /\ sess[s].neg.blksize = B /\ m.off + m.len <= srcLen
        /\ m.len >= B => m.off + m.len = m.block * B
    BY <1>1, <1>2, <1>3, <2>1, <2>2, BlockFits
  <2>6. e \in Blocks /\ (~last => Counted([expected |-> e]) = m.block)
    BY <1>4, <2>5, NextBlockFacts, PacketsAssumption DEF Counted, Blocks
  <2>7. /\ t.pc = pc /\ t.neg = sess[s].neg /\ t.wpos = sess[s].wpos
        /\ t.expected = e /\ t.pending = write /\ t.broken = sess[s].broken
    BY <1>1 DEF SessionStates
  <2>8. write.off = m.off /\ write.len = m.len /\ write \in Writes
    BY <2>5 DEF Writes
  <2>9. t \in SessionStates
    BY <1>1, <2>6, <2>8 DEF SessionStates, SessionDone
  <2>10. last <=> m.len < B
    BY <2>5 DEF IsLast
  <2>11. Counted(t) = Counted([expected |-> e])
    BY <2>7 DEF Counted
  <2>12. InStep(t)
    <3> HIDE DEF t, e, write, last
    <3>1. t.pc # "free" => t.neg = Settled
      BY <1>1, <2>7 DEF InStep
    <3>2. t.pc = "recv" => t.wpos + t.pending.len = Counted(t) * B
      BY <2>5, <2>6, <2>7, <2>8, <2>10, <2>11, PutFacts
    <3> QED
      BY <2>1, <2>2, <2>5, <2>7, <2>8, <3>1, <3>2 DEF InStep
  <2> HIDE DEF t
  <2>13. ServerInv'
    BY <1>1, <2>4, <2>9, <2>12, SessionMoves
  <2>14. net' \in [Ports -> Seq(HonestPackets(cfg, srcLen, Asking))]
    BY <1>4, <1>5, <2>3, ClosedKeepsPackets, PortsAreDistinct
  <2> QED BY <2>3, <2>13, <2>14 DEF ServerKeeps, PutInv, SocketsInv
<1> QED BY <1>6, <1>7, <1>8 DEF TakeData, m

LEMMA EndingKeeps ==
    ASSUME PutInv, NEW s \in Sessions, SessionTimeout(s) \/ PeerGone(s),
           UNCHANGED <<cfg, srcLen>>
    PROVE  ServerKeeps
<1>1. net \in [Ports -> Seq(HonestPackets(cfg, srcLen, Asking))]
  BY DEF PutInv, QueuesInv
<1> QED BY <1>1, EndKeeps DEF SessionTimeout, PeerGone, SessionDone

LEMMA ServerInvariant ==
    ASSUME PutInv, NEW s \in Sessions,
           \/ Session(s) \/ SessionTimer(s) \/ Refused(s) \/ Writer(s)
           \/ Spawn(s) /\ UNCHANGED <<putVars, faults>>
    PROVE  PutInv'
<1>1. UNCHANGED <<cfg, srcLen, cl>>
  BY DEF Session, SessionTimer, Refused, Writer, putVars
<1>2. ServerKeeps
  BY <1>1, SpawnKeeps, OpeningKeeps, LandKeeps, TakeDataKeeps, EndingKeeps
  DEF Session, SessionTimer, Refused, Writer, SessionStep
<1>3. faults' \in 0..MaxFaults
  <2>1. SessionTimerDue(s) \in BOOLEAN
    BY DEF SessionTimerDue
  <2> QED
    BY <2>1, TimersInBudget
    DEF Session, SessionTimer, Refused, Writer, PutInv, SocketsInv
<1>4. B' = B /\ Asking' = Asking
  BY <1>1 DEF B, Settled, SettledFor, Asking
<1>5. ClientInv' /\ QueuesInv'
  BY <1>1, <1>2, <1>4
  DEF PutInv, ClientInv, QueuesInv, ServerKeeps, Working, Asking
<1> QED BY <1>2, <1>3, <1>5 DEF PutInv, ServerKeeps, SocketsInv

LEMMA NetworkInvariant ==
    ASSUME PutInv, Network
    PROVE  PutInv'
<1>1. /\ net' \in [Ports -> Seq(HonestPackets(cfg, srcLen, Asking))] /\ UNCHANGED open
      /\ faults' = faults + 1 /\ faults < MaxFaults
  BY FaultKeepsPackets DEF PutInv, QueuesInv, Network
<1>2. UNCHANGED <<cfg, srcLen, cl, access, room, remote, sess>>
  BY DEF Network, putVars, serverVars, disk
<1>3. B' = B /\ Settled' = Settled /\ Asking' = Asking
  BY <1>2 DEF B, Settled, SettledFor, Asking
<1>4. ClientInv' /\ QueuesInv'
  BY <1>1, <1>2, <1>3 DEF PutInv, ClientInv, QueuesInv, Working, Asking
<1>5. ServerInv'
  <2>1. ASSUME NEW s \in Sessions PROVE InStep(sess[s])'
    <3>1. InStep(sess[s])
      BY DEF PutInv, ServerInv
    <3> QED BY <1>2, <1>3, <3>1 DEF InStep
  <2> QED BY <1>2, <2>1 DEF PutInv, ServerInv
<1>6. SocketsInv'
  BY <1>1, NetworkAssumption DEF PutInv, SocketsInv
<1> QED BY <1>4, <1>5, <1>6 DEF PutInv

LEMMA PutInvInit == Init => PutInv
<1> SUFFICES ASSUME Init PROVE PutInv
  OBVIOUS
<1>1. cfg \in Configs /\ srcLen \in FileLens /\ cfg.blksize \in Nat /\ cfg.timeout \in Nat
  BY ConfigTypes DEF Init, ClientInit
<1>2. ClientInv
  BY <1>1, PacketsAssumption, PortsAreDistinct
  DEF Init, ClientInit, ClientInv, ClientStates, Blocks, Working
<1>3. ServerInv
  <2>1. defaults \in Negotiations
    BY OptionsAssumption DEF defaults, Negotiations
  <2>2. NoWrite \in Writes
    BY DEF NoWrite, Writes
  <2> DEFINE t == [pc |-> "free", neg |-> defaults, expected |-> 1, wpos |-> 0,
                   pending |-> NoWrite, broken |-> FALSE]
  <2>3. t \in SessionStates /\ InStep(t)
    BY <2>1, <2>2, PacketsAssumption DEF SessionStates, Blocks, InStep
  <2>4. sess = [s \in Sessions |-> t]
    BY DEF Init, ServerInit
  <2> HIDE DEF t
  <2> QED
    BY <2>3, <2>4, OldIsFile, TftpPutAssumption DEF Init, ServerInit, ServerInv
<1>4. SocketsInv
  BY PortsAreDistinct, NetworkAssumption DEF Init, NetInit, SocketsInv
<1>5. QueuesInv
  <2>1. <<>> \in Seq(HonestPackets(cfg, srcLen, Asking))
    OBVIOUS
  <2> QED BY <2>1 DEF Init, NetInit, QueuesInv
<1> QED BY <1>2, <1>3, <1>4, <1>5 DEF PutInv

LEMMA PutInvNext == PutInv /\ [Next]_vars => PutInv'
<1> SUFFICES ASSUME PutInv, [Next]_vars PROVE PutInv'
  OBVIOUS
<1>1. CASE Client \/ ClientTimer
  BY <1>1, ClientInvariant
<1>2. CASE Listener
  BY <1>2, ServerInvariant DEF Listener
<1>3. CASE \E s \in Sessions : Session(s) \/ SessionTimer(s) \/ Refused(s) \/ Writer(s)
  BY <1>3, ServerInvariant
<1>4. CASE Network
  BY <1>4, NetworkInvariant
<1>5. CASE UNCHANGED vars
  <2>1. UNCHANGED <<cfg, srcLen, cl, access, room, remote, sess, net, open, faults>>
    BY <1>5 DEF vars
  <2>2. B' = B /\ Settled' = Settled /\ Asking' = Asking
    BY <2>1 DEF B, Settled, SettledFor, Asking
  <2>3. ASSUME NEW s \in Sessions PROVE InStep(sess[s])'
    <3>1. InStep(sess[s])
      BY DEF PutInv, ServerInv
    <3> QED BY <2>1, <2>2, <3>1 DEF InStep
  <2> QED
    BY <2>1, <2>2, <2>3
    DEF PutInv, ClientInv, ServerInv, SocketsInv, QueuesInv, Working
<1> QED BY <1>1, <1>2, <1>3, <1>4, <1>5 DEF Next

LEMMA PutInvHolds == Spec => []PutInv
BY PutInvInit, PutInvNext, PTL DEF Spec

\* Every variable of a PUT keeps its type, and every datagram is one that the
\* code of its sender builds; the client's u16 block number never overflows
\* (client.rs gives up when it would).
THEOREM PutTypes == Spec => []TypeOK
<1>1. PutInv => TypeOK
  <2> SUFFICES ASSUME PutInv PROVE TypeOK
    OBVIOUS
  <2>1. HonestPackets(cfg, srcLen, Asking) \subseteq PutPackets
    BY DEF HonestPackets
  <2>2. net \in [Ports -> Seq(PutPackets)]
    BY <2>1, QueuesMonotonic DEF PutInv, QueuesInv
  <2> QED BY <2>2 DEF PutInv, ClientInv, ServerInv, SocketsInv, TypeOK
<1> QED BY <1>1, PutInvHolds, PTL

-----------------------------------------------------------------------------
(* The remote file, under any number of sessions *)

\* The steps that touch the file: it is truncated, or a write lands in it.
LEMMA FileSteps ==
    ASSUME PutInv, [Next]_vars
    PROVE  /\ UNCHANGED srcLen
           /\ \/ /\ remote' = remote
                 /\ \A s \in Sessions : sess'[s].pc = "recv" => sess[s].pc = "recv"
              \/ remote' = <<>>
              \/ \E s \in Sessions :
                    /\ Land(s)
                    /\ \A r \in Sessions : sess'[r].pc = sess[r].pc
<1>0. sess \in [Sessions -> SessionStates]
  BY DEF PutInv, ServerInv
<1>1. CASE Client \/ ClientTimer \/ Network \/ UNCHANGED vars
  BY <1>1 DEF Client, ClientTimer, ClientStep, ClientTimeout, Network, vars, putVars,
              serverVars
<1>2. CASE \E s \in Sessions :
               Spawn(s) \/ Session(s) \/ SessionTimer(s) \/ Refused(s) \/ Writer(s)
  <2>1. PICK s \in Sessions :
               Spawn(s) \/ Session(s) \/ SessionTimer(s) \/ Refused(s) \/ Writer(s)
    BY <1>2
  <2>2. UNCHANGED srcLen
    <3>1. CASE Listener
      BY <3>1 DEF Listener, putVars
    <3>2. CASE ~Listener
      BY <3>2, <1>2
      DEF Next, Client, ClientTimer, Session, SessionTimer, Refused, Writer, Network,
          vars, putVars, ClientStep, ClientTimeout
    <3> QED BY <3>1, <3>2
  <2>3. CASE Land(s)
    BY <1>0, <2>2, <2>3 DEF Land, SessionStates
  <2>4. ASSUME NEW q, NEW result \in {"denied", "failed"}, EndSession(q, s, result),
               remote' = remote
        PROVE  \A r \in Sessions : sess'[r].pc = "recv" => sess[r].pc = "recv"
    <3>1. /\ sess'[s].pc = result
          /\ \A r \in Sessions : r # s => sess'[r] = sess[r]
      BY <1>0, <2>4 DEF EndSession, SessionStates
    <3> QED BY <2>4, <3>1
  <2>5. CASE RefuseRequest(s) \/ SessionTimeout(s) \/ PeerGone(s) \/ CreateFile(s)
    BY <2>2, <2>4, <2>5 DEF RefuseRequest, SessionTimeout, PeerGone, CreateFile
  <2>6. CASE Spawn(s) \/ SendOack(s)
    BY <1>0, <2>2, <2>6 DEF Spawn, SendOack, SessionStates
  <2>7. CASE net[s] # <<>> /\ TakeData(s, Head(net[s]))
    BY <1>0, <2>2, <2>7 DEF TakeData, RepeatAck, TakeBlock, EndSession
  <2> QED
    BY <2>1, <2>3, <2>5, <2>6, <2>7
    DEF Session, SessionTimer, Refused, Writer, SessionStep
<1> QED BY <1>1, <1>2 DEF Next, Listener

LEMMA MisplacedNext == PutInv /\ NothingMisplaced /\ [Next]_vars => NothingMisplaced'
<1> SUFFICES ASSUME PutInv, NothingMisplaced, [Next]_vars,
                    \E s \in Sessions : sess'[s].pc = "recv"
             PROVE  /\ Len(remote') <= srcLen'
                    /\ \A i \in 1..Len(remote') : remote'[i] \in {i, 0}
  BY DEF NothingMisplaced
<1>0. srcLen \in Nat /\ remote \in Seq(Nat)
  BY PutFacts DEF PutInv, ServerInv
<1>1. CASE /\ UNCHANGED <<srcLen, remote>>
           /\ \A s \in Sessions : sess'[s].pc = "recv" => sess[s].pc = "recv"
  BY <1>1 DEF NothingMisplaced
<1>2. CASE UNCHANGED srcLen /\ remote' = <<>>
  BY <1>0, <1>2
<1>3. ASSUME NEW s \in Sessions, Land(s), UNCHANGED srcLen,
             \A r \in Sessions : sess'[r].pc = sess[r].pc
      PROVE  /\ Len(remote') <= srcLen'
             /\ \A i \in 1..Len(remote') : remote'[i] \in {i, 0}
  <2> DEFINE w == sess[s].pending
             n == Lesser(w.len, Greater(0, room - sess[s].wpos))
  <2>1. Len(remote) <= srcLen /\ \A i \in 1..Len(remote) : remote[i] \in {i, 0}
    BY <1>3 DEF NothingMisplaced
  <2>2. sess[s] \in SessionStates /\ InStep(sess[s]) /\ room \in Nat /\ w # NoWrite
    BY <1>3, WriteServerAssumption DEF PutInv, ServerInv, Land
  <2>3. /\ sess[s].wpos \in Nat /\ n \in Nat /\ w.off = sess[s].wpos
        /\ sess[s].wpos + n <= srcLen
    BY <1>0, <2>2 DEF SessionStates, Writes, InStep
  <2>4. remote' = Written(remote, sess[s].wpos, sess[s].wpos, n)
    BY <1>3, <2>3 DEF Land
  <2> HIDE DEF n
  <2> QED BY <1>0, <1>3, <2>1, <2>3, <2>4, WrittenStaysPlaced
<1> QED BY <1>1, <1>2, <1>3, FileSteps

\* However many sessions a repeated request has started (server.rs spawns one per
\* datagram), each truncating and writing the same file at its own pace: every byte
\* is the one that belongs there, or a hole.
THEOREM PutNothingMisplaced == Spec => []NothingMisplaced
<1>1. Init => NothingMisplaced
  <2> SUFFICES ASSUME Init, NEW s \in Sessions PROVE sess[s].pc # "recv"
    BY DEF NothingMisplaced
  <2> QED BY DEF Init, ServerInit
<1> QED BY <1>1, MisplacedNext, PutInvHolds, PTL DEF Spec

-----------------------------------------------------------------------------
(* The remote file, when the server has seen one request *)

\* How many blocks session t has taken: "ok" does not count the last one on.
Taken(t) == IF t.pc = "ok" THEN t.expected ELSE Counted(t)

\* How many bytes it has handed to its file.
Handed(t) == Lesser(Taken(t) * B, srcLen)

\* The file f of session t is a beginning of the source, as long as what was handed
\* over and has landed: all of it but for the last block, whose write may be under
\* way or have failed.
Kept(t, f) ==
    /\ Taken(t) > 0 => (Taken(t) - 1) * B < srcLen
    /\ t.pc \in {"recv", "ok"} \/ Taken(t) > 0 => f = SourceFile(t.wpos)
    /\ t.wpos <= Handed(t)
    /\ ~t.broken => t.wpos + t.pending.len = Handed(t)
    /\ t.broken \/ t.pending # NoWrite => Taken(t) > 0 /\ (Taken(t) - 1) * B <= t.wpos
    /\ t.pc = "ok" => srcLen <= Taken(t) * B

\* Packets that acknowledge at most n blocks.
AckedUpTo(n) == {m \in PutPackets : m.type = "ACK" => m.block <= n}

\* What the client takes for stored when n blocks were taken.
Believed(n) ==
    /\ Working => cl.block - 1 <= n
    /\ cl.pc = "ok" /\ srcLen > 0 => srcLen <= n * B

KeepInv ==
    OneSession =>
        /\ Kept(sess[1], remote)
        /\ net \in [Ports -> Seq(AckedUpTo(Taken(sess[1])))]
        /\ Believed(Taken(sess[1]))

LEMMA FirstSession == 1 \in Sessions
BY NetworkAssumption DEF Sessions

LEMMA TakenIsNat ==
    ASSUME NEW t \in SessionStates
    PROVE  Taken(t) \in Nat /\ Taken(t) \in Blocks
BY LastAckIsCounted, PacketsAssumption DEF Taken, SessionStates, Blocks

LEMMA AckedUpToGrows ==
    ASSUME NEW n \in Nat, NEW k \in Nat, n <= k, NEW q \in [Ports -> Seq(AckedUpTo(n))]
    PROVE  q \in [Ports -> Seq(AckedUpTo(k))]
<1>1. AckedUpTo(n) \subseteq AckedUpTo(k)
  <2> SUFFICES ASSUME NEW m \in PutPackets, m.type = "ACK", m.block <= n
               PROVE  m.block <= k
    BY DEF AckedUpTo
  <2>1. m.block \in Nat
    BY PacketsAssumption DEF PutPackets, Blocks
  <2> QED BY <2>1
<1> QED BY <1>1, QueuesMonotonic

\* Honest packets other than ACKs acknowledge nothing.
LEMMA HonestAcks ==
    ASSUME NEW c, NEW len, NEW asking, NEW m \in HonestPackets(c, len, asking),
           NEW n \in Nat, m.type = "ACK" => m.block <= n
    PROVE  m \in AckedUpTo(n)
BY DEF HonestPackets, AckedUpTo

\* No step sets a session free, so that the only session is the first one.
LEMMA OneSessionBefore ==
    ASSUME PutInv, [Next]_vars, OneSession'
    PROVE  OneSession
<1>0. sess \in [Sessions -> SessionStates]
  BY DEF PutInv, ServerInv
<1> SUFFICES ASSUME NEW r \in Sessions, sess[r].pc # "free" PROVE sess'[r].pc # "free"
  BY DEF OneSession
<1>1. CASE sess' = sess
  BY <1>1
<1>2. ASSUME NEW s \in Sessions,
             Spawn(s) \/ Session(s) \/ SessionTimer(s) \/ Refused(s) \/ Writer(s)
      PROVE  sess'[r].pc # "free"
  <2>1. ASSUME NEW q, NEW result \in {"denied", "failed"}, EndSession(q, s, result)
        PROVE  sess'[r].pc # "free"
    BY <1>0, <2>1 DEF EndSession, SessionStates
  <2>2. CASE RefuseRequest(s) \/ SessionTimeout(s) \/ PeerGone(s)
    BY <2>1, <2>2 DEF RefuseRequest, SessionTimeout, PeerGone
  <2>3. CASE Spawn(s) \/ SendOack(s) \/ Land(s)
    BY <1>0, <2>3 DEF Spawn, SendOack, Land, SessionStates
  <2>4. CASE CreateFile(s)
    <3>1. CASE sess' = [sess EXCEPT ![s].pc = "recv"]
      BY <1>0, <3>1 DEF SessionStates
    <3> QED BY <2>1, <2>4, <3>1 DEF CreateFile
  <2>5. CASE net[s] # <<>> /\ TakeData(s, Head(net[s]))
    <3> DEFINE m == Head(net[s])
    <3>1. CASE TakeBlock(s, m) /\ ~EndSession(Received(net, s), s, "failed")
      <4>1. sess'[s].pc \in {"ok", sess[s].pc} /\ \A t \in Sessions : t # s => sess'[t] = sess[t]
        BY <1>0, <3>1 DEF TakeBlock, SessionStates
      <4> QED BY <4>1
    <3> HIDE DEF m
    <3>2. CASE RepeatAck(s, m)
      BY <3>2 DEF RepeatAck
    <3> QED BY <2>1, <2>5, <3>1, <3>2 DEF TakeData, m
  <2> QED
    BY <1>2, <2>2, <2>3, <2>4, <2>5
    DEF Session, SessionTimer, Refused, Writer, SessionStep
<1>3. CASE Client \/ ClientTimer \/ Network \/ UNCHANGED vars
  BY <1>1, <1>3 DEF Client, ClientTimer, Network, vars, serverVars
<1> QED BY <1>2, <1>3 DEF Next, Listener

\* What KeepInv says once the server has seen one request.
LEMMA KeepFacts ==
    ASSUME PutInv, KeepInv, OneSession
    PROVE  /\ sess[1] \in SessionStates /\ InStep(sess[1])
           /\ Kept(sess[1], remote) /\ Believed(Taken(sess[1]))
           /\ Taken(sess[1]) \in Nat
           /\ net \in [Ports -> Seq(AckedUpTo(Taken(sess[1])))]
BY FirstSession, TakenIsNat DEF PutInv, ServerInv, KeepInv

\* The bytes of a block and of those before it.
LEMMA BlockBytes ==
    ASSUME NEW b \in Nat, b > 0, NEW n \in Nat, b <= n, NEW blksize \in Nat
    PROVE  /\ b * blksize <= n * blksize /\ n * blksize \in Nat
           /\ b * blksize = (b - 1) * blksize + blksize
BY ProductMonotonic, ProductStep, ProductIsNat

\* The client sends no ACK, and believes no more than it was told.
LEMMA ClientBelieves ==
    ASSUME PutInv, Client \/ ClientTimer, NEW n \in Nat, Believed(n),
           net \in [Ports -> Seq(AckedUpTo(n))]
    PROVE  Believed(n)' /\ net' \in [Ports -> Seq(AckedUpTo(n))]
<1> DEFINE good == [Ports -> Seq(AckedUpTo(n))]
           m == Head(net[ClientPort])
           q == Received(net, ClientPort)
<1>1. /\ net \in [Ports -> Seq(HonestPackets(cfg, srcLen, Asking))]
      /\ cl \in ClientStates
  BY DEF PutInv, QueuesInv, ClientInv
<1>2. net[ClientPort] # <<>> =>
          q \in good /\ m \in AckedUpTo(n) /\ m \in HonestPackets(cfg, srcLen, Asking)
  BY <1>1, ReceivedKeepsPackets, PortsAreDistinct
<1>3. UNCHANGED <<cfg, srcLen>> /\ B' = B
  BY DEF Client, ClientTimer, ClientStep, ClientTimeout, B, Settled, SettledFor
<1>4. /\ B \in Nat /\ B > 0 /\ srcLen \in Nat /\ cl.block \in Nat /\ cl.rpos \in Nat
      /\ cfg \in Configs /\ srcLen \in FileLens
  BY <1>1, PutFacts, PacketsAssumption DEF ClientStates, Blocks
<1> HIDE DEF q, m
<1>5. ASSUME NEW p \in good, NEW result \in ClientDone, Return(p, result),
             result = "ok" /\ srcLen > 0 => srcLen <= n * B
      PROVE  Believed(n)' /\ net' \in good
  <2>1. cl'.pc = result
    BY <1>1, <1>5 DEF Return, ClientStates
  <2>2. ~Working'
    BY <2>1 DEF Working, ClientDone, ClientFailed
  <2>3. net' \in good
    BY <1>5, ClosedKeepsPackets, PortsAreDistinct DEF Return
  <2> QED BY <1>3, <1>5, <2>1, <2>2, <2>3 DEF Believed
<1>6. ASSUME NEW p \in good, net' = p,
             cl'.pc \notin ClientDone, cl'.block = cl.block, Working' => Working
      PROVE  Believed(n)' /\ net' \in good
  BY <1>6 DEF Believed, ClientDone
<1>7. CASE SendRequest
  <2>1. Wrq(ClientPort, RequestOptions(cfg, srcLen)) \in AckedUpTo(n)
    BY <1>4, PacketsBuilt, HonestAcks DEF Wrq
  <2>2. net' \in good
    BY <1>7, <2>1, SentKeepsPackets, PortsAreDistinct DEF SendRequest
  <2>3. cl'.pc = "await" /\ cl'.block = cl.block
    BY <1>1, <1>7 DEF SendRequest, ClientStates
  <2> QED BY <1>6, <2>2, <2>3 DEF ClientDone, ClientFailed, Working
<1>8. CASE NoAttempt
  BY <1>5, <1>8 DEF NoAttempt, ClientDone, ClientFailed
<1>9. CASE EndOfFile
  <2>1. /\ cl.blksize = B /\ cl.block > 0 /\ cl.rpos = (cl.block - 1) * B
        /\ cl.rpos <= srcLen /\ cl.block - 1 <= n
    BY <1>9 DEF EndOfFile, PutInv, ClientInv, Believed, Working
  <2>2. srcLen = (cl.block - 1) * B
    BY <1>4, <1>9, <2>1 DEF EndOfFile, BlockLen
  <2>3. cl.block - 1 \in Nat /\ (cl.block - 1) * B <= n * B
    BY <1>4, <2>1, ProductMonotonic
  <2> QED BY <1>5, <1>9, <2>2, <2>3 DEF EndOfFile, ClientDone
<1>10. CASE SendBlock
  <2>1. cl.pc \in {"read", "pause"} /\ cl'.pc = "ack" /\ cl'.block = cl.block
    BY <1>1, <1>10 DEF SendBlock, ClientStates
  <2>2. ASSUME NEW x \in Nat PROVE Data(ClientPort, cl.block, cl.rpos, x) \in AckedUpTo(n)
    BY <1>1, <1>4, PacketsAssumption DEF Data, AckedUpTo, PutPackets, ClientStates
  <2>3. BlockLen \in Nat
    <3>1. cl.blksize = B /\ cl.rpos <= srcLen
      BY <2>1 DEF PutInv, ClientInv, Working
    <3> QED BY <1>4, <3>1 DEF BlockLen
  <2>4. net' \in good
    BY <1>1, <1>10, <2>2, <2>3, SentKeepsPackets DEF SendBlock, ClientStates
  <2> QED BY <1>6, <2>1, <2>4 DEF ClientDone, ClientFailed, Working
<1>11. CASE net[ClientPort] # <<>> /\ ReceiveReply(m)
  <2>1. cl.pc = "await" /\ m.type # "ACK"
    <3>1. cl.pc = "await"
      BY <1>11 DEF ReceiveReply
    <3> QED BY <1>2, <1>11, <3>1, PacketFields DEF Asking
  <2>2. CASE \E result \in {"remote", "protocol"} : Return(q, result)
    BY <1>2, <1>5, <1>11, <2>2 DEF ClientDone, ClientFailed
  <2>3. CASE net' = q /\ cl'.pc = "read" /\ cl'.block = cl.block
    <3>1. cl.block = 1
      BY <2>1 DEF PutInv, ClientInv, Asking
    <3> QED BY <1>2, <1>4, <1>11, <2>3, <3>1 DEF Believed
  <2> QED
    BY <1>1, <1>11, <2>1, <2>2, <2>3 DEF ReceiveReply, q, ClientStates
<1>12. CASE net[ClientPort] # <<>> /\ ReceiveAck(m)
  <2>1. /\ cl.pc = "ack" /\ cl.blksize = B /\ cl.block > 0
        /\ cl.rpos = (cl.block - 1) * B /\ cl.rpos < srcLen
    BY <1>12 DEF ReceiveAck, PutInv, ClientInv, Working
  <2>2. cl.block <= n
    BY <1>2, <1>12 DEF AckedUpTo, ReceiveAck, Awaited
  <2>3. BlockLen < B => srcLen <= n * B
    <3>1. /\ cl.block * B <= n * B /\ n * B \in Nat
          /\ cl.block * B = (cl.block - 1) * B + B
      BY <1>4, <2>1, <2>2, BlockBytes
    <3> QED BY <1>4, <2>1, <3>1 DEF BlockLen
  <2>4. CASE \E result \in {"ok", "protocol"} :
                 Return(q, result) /\ (result = "ok" => BlockLen < B)
    BY <1>2, <1>5, <1>12, <2>3, <2>4 DEF ClientDone, ClientFailed
  <2>5. CASE net' = q /\ cl'.pc = "read" /\ cl'.block = cl.block + 1
    BY <1>2, <1>4, <1>12, <2>2, <2>5 DEF Believed
  <2> QED
    BY <1>1, <1>12, <2>1, <2>4, <2>5 DEF ReceiveAck, q, ClientStates
<1>13. CASE net[ClientPort] # <<>> /\ ReceiveError(m)
  BY <1>2, <1>5, <1>13 DEF ReceiveError, ClientDone, ClientFailed, q
<1>14. ASSUME NEW p \in good, NEW again \in {"backoff", "pause"}, AttemptFails(p, again),
              again = "pause" => cl.pc = "ack"
       PROVE  Believed(n)' /\ net' \in good
  <2>1. CASE Return(p, "protocol")
    BY <1>5, <1>14, <2>1 DEF ClientDone, ClientFailed
  <2>2. CASE net' = p /\ cl'.pc = again /\ cl'.block = cl.block
    BY <1>6, <1>14, <2>2 DEF ClientDone, ClientFailed, Working
  <2> QED
    BY <1>1, <1>14, <2>1, <2>2 DEF AttemptFails, ClientStates
<1>15. CASE net[ClientPort] # <<>> /\ ReceiveUnexpected(m)
  BY <1>2, <1>14, <1>15 DEF ReceiveUnexpected, q
<1>16. CASE ClientTimeout
  BY <1>14, <1>16 DEF ClientTimeout
<1> QED
  BY <1>7, <1>8, <1>9, <1>10, <1>11, <1>12, <1>13, <1>15, <1>16
  DEF Client, ClientTimer, ClientStep, ClientReceive, m

\* A session that has taken nothing yet.
LEMMA FreshIsKept ==
    ASSUME NEW t, NEW f, t.expected = 1, t.wpos = 0, t.pending = NoWrite, ~t.broken,
           t.pc # "ok", t.pc = "recv" => f = <<>>,
           B \in Nat, srcLen \in Nat
    PROVE  Kept(t, f) /\ Taken(t) = 0
<1>1. Taken(t) = 0
  BY DEF Taken, Counted
<1>2. Handed(t) = 0
  BY <1>1 DEF Handed
<1>3. SourceFile(0) = <<>>
  BY DEF SourceFile
<1> QED BY <1>1, <1>2, <1>3 DEF Kept, NoWrite

\* A session that gives up keeps what it had.
LEMMA EndingIsKept ==
    ASSUME NEW t \in SessionStates, NEW u \in SessionStates, NEW f, Kept(t, f),
           t.pc # "ok", u = [t EXCEPT !.pc = "failed"]
    PROVE  Kept(u, f) /\ Taken(u) = Taken(t)
<1>1. /\ u.pc = "failed" /\ u.expected = t.expected /\ u.wpos = t.wpos
      /\ u.pending = t.pending /\ u.broken = t.broken
  BY DEF SessionStates
<1>2. Taken(u) = Taken(t) /\ Handed(u) = Handed(t)
  BY <1>1 DEF Taken, Counted, Handed
<1> QED BY <1>1, <1>2 DEF Kept

\* What a step of the only session must keep.
Keeps ==
    /\ Kept(sess'[1], remote')
    /\ Taken(sess'[1]) >= Taken(sess[1]) /\ Taken(sess'[1]) \in Nat
    /\ net' \in [Ports -> Seq(AckedUpTo(Taken(sess'[1])))]

LEMMA OpeningIsKept ==
    ASSUME PutInv, KeepInv, OneSession, UNCHANGED <<cfg, srcLen>>,
           Spawn(1) \/ RefuseRequest(1) \/ SendOack(1) \/ CreateFile(1)
    PROVE  Keeps
<1>1. /\ sess[1] \in SessionStates /\ InStep(sess[1]) /\ sess[1] = sess[1]
      /\ Taken(sess[1]) \in Nat /\ net \in [Ports -> Seq(AckedUpTo(Taken(sess[1])))]
      /\ sess \in [Sessions -> SessionStates]
  BY KeepFacts DEF PutInv, ServerInv
<1>2. /\ sess[1].pc \in {"free", "spawned", "create"}
      /\ sess[1].expected = 1 /\ sess[1].wpos = 0 /\ sess[1].pending = NoWrite
      /\ ~sess[1].broken
  BY <1>1 DEF Spawn, RefuseRequest, SendOack, CreateFile, InStep
<1>3. Taken(sess[1]) = 0
  BY <1>2 DEF Taken, Counted
<1>4. /\ sess'[1].expected = 1 /\ sess'[1].wpos = 0 /\ sess'[1].pending = NoWrite
      /\ sess'[1].broken = sess[1].broken /\ sess'[1].pc # "ok"
      /\ sess'[1].pc = "recv" => remote' = <<>>
  BY <1>1, <1>2, FirstSession
  DEF Spawn, RefuseRequest, SendOack, CreateFile, EndSession, SessionStates
<1>5. Kept(sess'[1], remote') /\ Taken(sess'[1]) = 0
  BY <1>2, <1>4, FreshIsKept, PutFacts
<1>6. net' \in [Ports -> Seq(AckedUpTo(0))]
  <2>1. net \in [Ports -> Seq(AckedUpTo(0))]
    BY <1>1, <1>3
  <2>2. ASSUME NEW m \in HonestPackets(cfg, srcLen, Asking), m.type # "ACK"
        PROVE  Sent(net, ClientPort, m) \in [Ports -> Seq(AckedUpTo(0))]
    <3>1. m \in AckedUpTo(0)
      BY <2>2, HonestAcks
    <3> QED BY <2>1, <3>1, SentKeepsPackets, PortsAreDistinct
  <2>3. Error(1) \in HonestPackets(cfg, srcLen, Asking) /\ Error(1).type # "ACK"
    BY PacketsBuilt, PutFacts, FirstSession DEF Error
  <2>4. ASSUME NEW result, NEW q \in [Ports -> Seq(AckedUpTo(0))], EndSession(q, 1, result)
        PROVE  net' \in [Ports -> Seq(AckedUpTo(0))]
    BY <2>4, ClosedKeepsPackets, PortsAreDistinct, FirstSession DEF EndSession
  <2>5. CASE Spawn(1)
    BY <2>1, <2>5, ReceivedKeepsPackets, PortsAreDistinct DEF Spawn
  <2>6. CASE SendOack(1)
    <3> DEFINE o == Oack(1, OackOptions(sess[1].neg, NoSize))
    <3>1. sess[1].neg = SettledFor(cfg, srcLen)
      BY <1>1, <2>6, PutFacts DEF InStep, SendOack
    <3>2. o \in HonestPackets(cfg, srcLen, Asking) /\ o.type # "ACK"
      BY <3>1, PacketsBuilt, PutFacts, FirstSession DEF Oack
    <3> HIDE DEF o
    <3> QED BY <2>2, <2>6, <3>2 DEF SendOack, o
  <2>7. CASE RefuseRequest(1) \/ CreateFile(1)
    BY <2>1, <2>2, <2>3, <2>4, <2>7 DEF RefuseRequest, CreateFile
  <2> QED BY <2>5, <2>6, <2>7
<1> QED BY <1>3, <1>5, <1>6 DEF Keeps

LEMMA EndIsKept ==
    ASSUME PutInv, KeepInv, OneSession,
           NEW q \in [Ports -> Seq(AckedUpTo(Taken(sess[1])))],
           EndSession(q, 1, "failed"), sess[1].pc = "recv", remote' = remote
    PROVE  Keeps
<1>1. /\ sess[1] \in SessionStates /\ Kept(sess[1], remote) /\ Taken(sess[1]) \in Nat
      /\ sess \in [Sessions -> SessionStates]
  BY KeepFacts DEF PutInv, ServerInv
<1>2. sess'[1] = [sess[1] EXCEPT !.pc = "failed"] /\ sess'[1] \in SessionStates
  BY <1>1, FirstSession DEF EndSession, SessionStates, SessionDone
<1>3. Kept(sess'[1], remote) /\ Taken(sess'[1]) = Taken(sess[1])
  BY <1>1, <1>2, EndingIsKept
<1>4. net' \in [Ports -> Seq(AckedUpTo(Taken(sess[1])))]
  BY ClosedKeepsPackets, PortsAreDistinct, FirstSession DEF EndSession
<1> QED BY <1>1, <1>3, <1>4 DEF Keeps

\* A block that comes is written behind the earlier ones; its number goes back.
LEMMA DataIsKept ==
    ASSUME PutInv, KeepInv, OneSession, UNCHANGED <<cfg, srcLen>>,
           net[1] # <<>>, TakeData(1, Head(net[1]))
    PROVE  Keeps
<1> DEFINE m == Head(net[1])
           q == Received(net, 1)
           t == sess[1]
<1>1. /\ t \in SessionStates /\ InStep(t) /\ Kept(t, remote)
      /\ Taken(t) \in Nat /\ net \in [Ports -> Seq(AckedUpTo(Taken(t)))]
      /\ net \in [Ports -> Seq(HonestPackets(cfg, srcLen, Asking))]
      /\ sess \in [Sessions -> SessionStates]
      /\ t.pc = "recv" /\ m.type = "DATA" /\ remote' = remote
  BY KeepFacts DEF PutInv, ServerInv, QueuesInv, TakeData, RepeatAck, TakeBlock
<1>2. /\ q \in [Ports -> Seq(AckedUpTo(Taken(t)))]
      /\ m \in HonestPackets(cfg, srcLen, Asking)
  BY <1>1, ReceivedKeepsPackets, PortsAreDistinct, FirstSession
<1>3. Asking = FALSE
  BY <1>1, <1>2, PacketFields, PutFacts
<1>4. Taken(t) = Counted(t)
  BY <1>1 DEF Taken
<1>5. ASSUME NEW n \in Nat, NEW b \in Blocks, b <= n, Taken(t) <= n
      PROVE  Sent(q, ClientPort, Ack(1, b)) \in [Ports -> Seq(AckedUpTo(n))]
  <2>1. Ack(1, b) \in AckedUpTo(n)
    BY <1>5, FirstSession DEF Ack, AckedUpTo, PutPackets
  <2>2. q \in [Ports -> Seq(AckedUpTo(n))]
    BY <1>1, <1>2, <1>5, AckedUpToGrows
  <2> QED BY <2>1, <2>2, SentKeepsPackets, PortsAreDistinct
<1> HIDE DEF q, m
<1>6. CASE RepeatAck(1, m)
  <2>1. net' \in [Ports -> Seq(AckedUpTo(Taken(t)))]
    BY <1>1, <1>4, <1>5, <1>6, LastAckIsCounted DEF RepeatAck, q
  <2> QED BY <1>1, <1>6, <2>1 DEF RepeatAck, Keeps
<1>7. CASE TakeBlock(1, m) /\ EndSession(q, 1, "failed")
  BY <1>1, <1>2, <1>7, EndIsKept
<1>8. CASE TakeBlock(1, m) /\ ~EndSession(q, 1, "failed")
  <2>1. m.len > 0 /\ m.block = t.expected
    BY <1>1, <1>2, <1>3, <1>8, PacketFields DEF Rightful, TakeBlock, IsExpected
  <2>2. t.pending = NoWrite /\ ~t.broken
    BY <1>8, <2>1 DEF TakeBlock, q
  <2> DEFINE write == [off |-> m.off, len |-> m.len]
             last == IsLast(1, m)
             r == Sent(q, ClientPort, Ack(1, m.block))
             u == sess'[1]
  <2>3. /\ sess' = [sess EXCEPT ![1].pending = write,
                                ![1].pc = IF last THEN "ok" ELSE @,
                                ![1].expected = IF last THEN @ ELSE NextBlock(@)]
        /\ net' = IF last THEN Closed(r, 1) ELSE r
    BY <1>8, <2>1, <2>2 DEF TakeBlock, q
  <2>4. /\ m.block \in Blocks /\ m.block > 0 /\ m.len \in Nat /\ m.off \in Nat
        /\ m.off = t.wpos /\ m.off = (m.block - 1) * B
        /\ t.neg.blksize = B /\ m.off + m.len <= srcLen
        /\ m.off + m.len = Lesser(m.block * B, srcLen)
        /\ m.len < B => m.off + m.len = srcLen
    BY <1>1, <1>2, <1>3, <2>1, <2>2, BlockFits, FirstSession
  <2>5. m.block \in Nat /\ m.block * B \in Nat /\ B \in Nat /\ srcLen \in Nat
    BY <2>4, PutFacts, PacketsAssumption, ProductIsNat DEF Blocks
  <2>6. /\ u.pending = write /\ u.wpos = t.wpos /\ u.broken = t.broken
        /\ u.pc = (IF last THEN "ok" ELSE "recv")
        /\ u.expected = (IF last THEN m.block ELSE NextBlock(m.block))
    BY <1>1, <2>1, <2>3, FirstSession DEF SessionStates
  <2>7. last <=> m.len < B
    BY <2>4 DEF IsLast
  <2>8. Taken(u) = m.block /\ Taken(t) = m.block - 1
    <3>1. NextBlock(m.block) = IF m.block = BlockMod - 1 THEN 0 ELSE m.block + 1
      BY <2>4, NextBlockFacts
    <3> HIDE DEF u
    <3>2. Taken(u) = m.block
      BY <2>4, <2>5, <2>6, <3>1, PacketsAssumption DEF Taken, Counted
    <3>3. Taken(t) = m.block - 1
      BY <1>4, <2>1, <2>4, <2>5 DEF Taken, Counted
    <3> QED BY <3>2, <3>3
  <2>9. write.len = m.len /\ write # NoWrite
    BY <2>1, <2>4 DEF NoWrite
  <2>10. remote = SourceFile(u.wpos)
    BY <1>1, <2>6 DEF Kept
  <2>11. Handed(u) = u.wpos + u.pending.len
    BY <2>4, <2>6, <2>8, <2>9 DEF Handed
  <2> HIDE DEF write, last, u
  <2>12. Kept(u, remote)
    <3>0. u.wpos = m.off /\ u.pending.len = m.len
      BY <2>4, <2>6, <2>9
    <3>1. Taken(u) > 0 /\ (Taken(u) - 1) * B = u.wpos /\ u.wpos < srcLen
      BY <2>1, <2>4, <2>5, <2>8, <3>0
    <3>2. u.pc = "ok" => srcLen <= Taken(u) * B
      BY <2>4, <2>5, <2>6, <2>7, <2>8
    <3>3. u.wpos <= Handed(u) /\ u.wpos \in Nat
      BY <2>4, <2>11, <3>0
    <3> QED BY <2>2, <2>5, <2>6, <2>10, <2>11, <3>1, <3>2, <3>3 DEF Kept
  <2>13. net' \in [Ports -> Seq(AckedUpTo(m.block))]
    <3>1. r \in [Ports -> Seq(AckedUpTo(m.block))]
      <4>1. Taken(t) <= m.block /\ m.block <= m.block
        BY <2>5, <2>8
      <4> HIDE DEF t
      <4> QED BY <1>5, <2>4, <2>5, <4>1
    <3> QED BY <2>3, <3>1, ClosedKeepsPackets, PortsAreDistinct, FirstSession
  <2> QED BY <1>1, <2>5, <2>8, <2>12, <2>13 DEF Keeps, u
<1> QED BY <1>6, <1>7, <1>8 DEF TakeData, m

\* A write that lands makes the file a longer beginning of the source.
LEMMA LandingIsKept ==
    ASSUME PutInv, KeepInv, OneSession, UNCHANGED <<cfg, srcLen>>, Land(1)
    PROVE  Keeps
<1> DEFINE t == sess[1]
           u == sess'[1]
           w == t.pending
           n == Lesser(w.len, Greater(0, room - t.wpos))
           pos == t.wpos + n
<1>1. /\ t \in SessionStates /\ InStep(t) /\ Kept(t, remote)
      /\ Taken(t) \in Nat /\ net \in [Ports -> Seq(AckedUpTo(Taken(t)))]
      /\ sess \in [Sessions -> SessionStates] /\ w # NoWrite /\ room \in Nat
  BY KeepFacts, WriteServerAssumption DEF PutInv, ServerInv, Land
<1>2. /\ w.len \in Nat /\ w.off = t.wpos /\ t.wpos \in Nat /\ ~t.broken
      /\ n \in Nat /\ n <= w.len
  BY <1>1 DEF SessionStates, Writes, InStep
<1>3. /\ u.pc = t.pc /\ u.expected = t.expected /\ u.wpos = pos
      /\ u.pending = NoWrite /\ (~u.broken => ~(n < w.len))
  BY <1>1, FirstSession DEF Land, SessionStates
<1>4. Taken(u) = Taken(t) /\ Handed(u) = Handed(t)
  BY <1>3 DEF Taken, Counted, Handed
<1>5. /\ remote = SourceFile(t.wpos) /\ t.wpos + w.len = Handed(t)
      /\ Taken(t) > 0 /\ (Taken(t) - 1) * B <= t.wpos
      /\ (Taken(t) - 1) * B < srcLen
      /\ t.pc = "ok" => srcLen <= Taken(t) * B
  BY <1>1, <1>2 DEF Kept
<1>6. remote' = SourceFile(pos)
  BY <1>2, <1>5, WrittenExtends DEF Land
<1>7. (Taken(t) - 1) * B \in Nat
  <2>1. Taken(t) - 1 \in Nat
    BY <1>1, <1>5
  <2> QED BY <2>1, PutFacts, ProductIsNat
<1> HIDE DEF u, n
<1>8. Kept(u, remote')
  <2>1. (Taken(u) - 1) * B = (Taken(t) - 1) * B /\ Taken(u) * B = Taken(t) * B
    BY <1>4
  <2>2. (Taken(u) - 1) * B <= u.wpos /\ (Taken(u) - 1) * B < srcLen
    BY <1>2, <1>3, <1>5, <1>7, <2>1
  <2>3. u.wpos <= Handed(u)
    BY <1>2, <1>3, <1>4, <1>5
  <2>4. ~u.broken => u.wpos + u.pending.len = Handed(u)
    <3>1. u.pending.len = 0 /\ u.wpos = pos /\ Handed(u) = t.wpos + w.len
      BY <1>3, <1>4, <1>5 DEF NoWrite
    <3>2. ~u.broken => n = w.len
      BY <1>2, <1>3
    <3> QED BY <1>2, <3>1, <3>2
  <2>5. u.pc = "ok" => srcLen <= Taken(u) * B
    BY <1>3, <1>5, <2>1
  <2>6. Taken(u) > 0 /\ remote' = SourceFile(u.wpos)
    BY <1>3, <1>4, <1>5, <1>6
  <2> QED BY <2>2, <2>3, <2>4, <2>5, <2>6 DEF Kept
<1>9. net' = net
  BY DEF Land
<1> QED
  <2>1. Taken(u) \in Nat /\ Taken(u) >= Taken(t)
    BY <1>1, <1>4
  <2>2. net' \in [Ports -> Seq(AckedUpTo(Taken(u)))]
    BY <1>1, <1>4, <1>9
  <2> QED BY <1>8, <2>1, <2>2 DEF Keeps, u

\* What was kept by the values of the next state is kept in it.
LEMMA KeptAfter ==
    ASSUME UNCHANGED <<cfg, srcLen>>, Kept(sess'[1], remote')
    PROVE  Kept(sess[1], remote)' /\ Taken(sess[1])' = Taken(sess'[1])
<1>1. B' = B
  BY DEF B, Settled, SettledFor
<1>2. Taken(sess[1])' = Taken(sess'[1]) /\ Handed(sess[1])' = Handed(sess'[1])
  BY <1>1 DEF Taken, Counted, Handed
<1> QED BY <1>1, <1>2 DEF Kept

\* The client believes no less as the session takes more.
LEMMA BelievedGrows ==
    ASSUME PutInv, UNCHANGED <<cfg, srcLen, cl>>, NEW n \in Nat, NEW k \in Nat, n <= k,
           Believed(n)
    PROVE  Believed(k)'
<1>1. B' = B /\ n * B <= k * B /\ n * B \in Nat /\ k * B \in Nat /\ srcLen \in Nat
  BY PutFacts, ProductMonotonic, ProductIsNat DEF B, Settled, SettledFor
<1>2. cl.block \in Nat
  BY PacketsAssumption DEF PutInv, ClientInv, ClientStates, Blocks
<1> QED BY <1>1, <1>2 DEF Believed, Working

\* While there is one session, it is the first one that moves.
LEMMA OnlyTheFirst ==
    ASSUME PutInv, OneSession, OneSession', NEW s \in Sessions,
           \/ Session(s) \/ SessionTimer(s) \/ Refused(s) \/ Writer(s) \/ Spawn(s)
    PROVE  s = 1
<1> SUFFICES ASSUME s > 1 PROVE FALSE
  BY DEF Sessions
<1>1. sess[s].pc = "free" /\ sess'[s].pc = "free" /\ sess \in [Sessions -> SessionStates]
  BY DEF OneSession, PutInv, ServerInv
<1>2. sess[s].pending = NoWrite
  BY <1>1 DEF PutInv, ServerInv, InStep
<1>3. ~Spawn(s)
  BY <1>1 DEF Spawn, SessionStates
<1> QED
  BY <1>1, <1>2, <1>3
  DEF Session, SessionTimer, Refused, Writer, SessionStep, RefuseRequest, SendOack,
      CreateFile, TakeData, SessionTimeout, PeerGone, Land

LEMMA SessionIsKept ==
    ASSUME PutInv, KeepInv, OneSession, OneSession', NEW s \in Sessions,
           \/ Session(s) \/ SessionTimer(s) \/ Refused(s) \/ Writer(s)
           \/ Spawn(s) /\ UNCHANGED <<putVars, faults>>
    PROVE  KeepInv'
<1>1. s = 1
  BY OnlyTheFirst
<1>2. UNCHANGED <<cfg, srcLen, cl>>
  BY DEF Session, SessionTimer, Refused, Writer, putVars
<1>3. Keeps
  <2>1. CASE SessionTimeout(1) \/ PeerGone(1)
    BY <2>1, KeepFacts, EndIsKept DEF SessionTimeout, PeerGone
  <2>2. CASE Spawn(1) \/ RefuseRequest(1) \/ SendOack(1) \/ CreateFile(1)
    BY <1>2, <2>2, OpeningIsKept
  <2>3. CASE net[1] # <<>> /\ TakeData(1, Head(net[1]))
    BY <1>2, <2>3, DataIsKept
  <2>4. CASE Land(1)
    BY <1>2, <2>4, LandingIsKept
  <2> QED
    BY <1>1, <2>1, <2>2, <2>3, <2>4
    DEF Session, SessionTimer, Refused, Writer, SessionStep
<1>4. Kept(sess[1], remote)' /\ Taken(sess[1])' = Taken(sess'[1])
  BY <1>2, <1>3, KeptAfter DEF Keeps
<1>5. PICK n \in Nat, k \in Nat :
          n = Taken(sess[1]) /\ k = Taken(sess'[1]) /\ n <= k
  BY <1>3, KeepFacts DEF Keeps
<1>6. Believed(Taken(sess[1]))'
  <2>1. Believed(n)
    BY <1>5, KeepFacts
  <2>2. Believed(k)'
    BY <1>2, <1>5, <2>1, BelievedGrows
  <2> QED BY <1>4, <1>5, <2>2 DEF Believed
<1> QED BY <1>3, <1>4, <1>6 DEF KeepInv, Keeps

\* A step that leaves the server alone.
LEMMA ServerRests ==
    ASSUME PutInv, KeepInv, OneSession, UNCHANGED <<cfg, srcLen, sess, remote>>,
           Believed(Taken(sess[1])),
           net' \in [Ports -> Seq(AckedUpTo(Taken(sess[1])))],
           NEW n \in Nat, n = Taken(sess[1]), Believed(n)'
    PROVE  KeepInv'
<1>1. Kept(sess[1], remote)' /\ Taken(sess[1])' = Taken(sess[1])
  BY KeepFacts, KeptAfter
<1>2. Believed(Taken(sess[1]))'
  BY <1>1 DEF Believed
<1> QED BY <1>1, <1>2 DEF KeepInv

LEMMA KeepInvInit == Init => KeepInv
<1> SUFFICES ASSUME Init PROVE KeepInv
  OBVIOUS
<1>1. PutInv
  BY PutInvInit
<1>2. /\ sess[1].pc = "free" /\ sess[1].expected = 1 /\ sess[1].wpos = 0
      /\ sess[1].pending = NoWrite /\ sess[1].broken = FALSE
  BY FirstSession DEF Init, ServerInit
<1>3. Kept(sess[1], remote) /\ Taken(sess[1]) = 0
  BY <1>1, <1>2, FreshIsKept, PutFacts
<1>4. net \in [Ports -> Seq(AckedUpTo(0))]
  <2>1. <<>> \in Seq(AckedUpTo(0))
    OBVIOUS
  <2> QED BY <2>1 DEF Init, NetInit
<1>5. Believed(0)
  BY DEF Init, ClientInit, Believed, Working
<1> QED BY <1>3, <1>4, <1>5 DEF KeepInv

LEMMA KeepInvNext == PutInv /\ KeepInv /\ [Next]_vars => KeepInv'
<1> SUFFICES ASSUME PutInv, KeepInv, [Next]_vars, OneSession' PROVE KeepInv'
  BY DEF KeepInv
<1>1. OneSession
  BY OneSessionBefore
<1>0. PICK n \in Nat : n = Taken(sess[1])
  BY <1>1, KeepFacts
<1>2. n \in Nat /\ Believed(n) /\ net \in [Ports -> Seq(AckedUpTo(n))]
  BY <1>0, <1>1, KeepFacts
<1>3. CASE Client \/ ClientTimer
  <2>1. UNCHANGED <<cfg, srcLen, sess, remote>>
    BY <1>3 DEF Client, ClientTimer, ClientStep, ClientTimeout, serverVars
  <2>2. Believed(n)' /\ net' \in [Ports -> Seq(AckedUpTo(n))]
    BY <1>2, <1>3, ClientBelieves
  <2> QED BY <1>0, <1>1, <1>2, <2>1, <2>2, ServerRests
<1>4. CASE Listener
  BY <1>1, <1>4, SessionIsKept DEF Listener
<1>5. CASE \E s \in Sessions : Session(s) \/ SessionTimer(s) \/ Refused(s) \/ Writer(s)
  BY <1>1, <1>5, SessionIsKept
<1>6. CASE Network \/ UNCHANGED vars
  <2>1. UNCHANGED <<cfg, srcLen, cl, sess, remote>>
    BY <1>6 DEF Network, putVars, serverVars, vars
  <2>2. net' \in [Ports -> Seq(AckedUpTo(n))]
    BY <1>2, <1>6, FaultKeepsPackets DEF Network, vars
  <2>3. Believed(n)'
    BY <1>2, <2>1, BelievedGrows
  <2> QED BY <1>0, <1>1, <1>2, <2>1, <2>2, <2>3, ServerRests
<1> QED BY <1>3, <1>4, <1>5, <1>6 DEF Next

LEMMA KeepInvHolds == Spec => []KeepInv
BY PutInvInit, PutInvNext, KeepInvInit, KeepInvNext, PTL DEF Spec

-----------------------------------------------------------------------------
(* What is in the remote file *)

\* What was taken is in the file, but for the last block of it as long as that is
\* unsettled.
LEMMA TakenArrived ==
    ASSUME PutInv, KeepInv, OneSession, NEW b \in Nat, b <= Taken(sess[1])
    PROVE  Arrived(Lesser(b * sess[1].neg.blksize, srcLen))
<1> DEFINE t == sess[1]
           h == Lesser(b * B, srcLen)
<1>1. /\ t \in SessionStates /\ InStep(t) /\ Kept(t, remote) /\ Taken(t) \in Nat
      /\ remote \in Seq(Nat)
  BY KeepFacts DEF PutInv, ServerInv
<1>2. /\ t.wpos \in Nat /\ t.neg.blksize \in Nat /\ t.pending.len \in Nat
      /\ B \in Nat /\ B > 0 /\ srcLen \in Nat
  BY <1>1, PutFacts DEF SessionStates, Negotiations, Writes
<1>3. CASE b = 0
  <2>1. Lesser(b * t.neg.blksize, srcLen) = 0
    BY <1>2, <1>3
  <2>2. IsPrefix(SourceFile(0), remote)
    BY <1>1 DEF SourceFile, IsPrefix
  <2> QED BY <2>1, <2>2 DEF Arrived
<1>4. CASE b > 0
  <2>1. t.pc # "free"
    BY <1>1, <1>4 DEF InStep, Taken, Counted
  <2>2. t.neg.blksize = B
    BY <1>1, <2>1 DEF InStep, B
  <2>3. remote = SourceFile(t.wpos)
    BY <1>1, <1>4 DEF Kept
  <2>4. /\ b * B \in Nat /\ Taken(t) * B \in Nat /\ b * B <= Taken(t) * B
        /\ b * B = (b - 1) * B + B
    BY <1>1, <1>2, <1>4, BlockBytes
  <2>5. h \in Nat /\ h <= b * B /\ h <= Handed(t)
    BY <1>2, <2>4 DEF Handed
  <2> HIDE DEF h
  <2>6. ASSUME h <= t.wpos PROVE Arrived(h)
    BY <1>2, <2>3, <2>5, <2>6, SourcePrefix DEF Arrived
  <2>7. ASSUME h > t.wpos PROVE Arrived(h)
    <3>1. t.broken \/ t.pending # NoWrite
      <4>1. NoWrite.len = 0
        BY DEF NoWrite
      <4> QED BY <1>1, <1>2, <2>5, <2>7, <4>1 DEF Kept
    <3>2. (Taken(t) - 1) * B <= t.wpos /\ Taken(t) > 0
      BY <1>1, <3>1 DEF Kept
    <3>3. b = Taken(t)
      <4>1. SUFFICES ASSUME b <= Taken(t) - 1 PROVE FALSE
        BY <1>1
      <4>2. Taken(t) - 1 \in Nat
        BY <1>1, <3>2
      <4>3. b * B <= (Taken(t) - 1) * B /\ (Taken(t) - 1) * B \in Nat
        BY <1>2, <4>1, <4>2, ProductMonotonic, ProductIsNat
      <4> QED BY <1>2, <2>4, <2>5, <2>7, <3>2, <4>3
    <3> DEFINE d == b - 1
    <3>4. d \in Nat /\ d * B \in Nat /\ d * B <= t.wpos
      <4>1. d \in Nat
        BY <1>4
      <4> QED BY <1>2, <3>2, <3>3, <4>1, ProductIsNat
    <3>5. d * B < h /\ h <= d * B + B
      BY <1>2, <2>4, <2>5, <2>7, <3>4
    <3> HIDE DEF d
    <3>6. (h - 1) \div B = d
      BY <1>2, <2>5, <3>4, <3>5, QuotientBelow
    <3>7. IsPrefix(SourceFile(AllButLast(h, B)), remote)
      BY <1>2, <2>3, <3>4, <3>6, SourcePrefix DEF AllButLast
    <3> QED BY <2>2, <3>1, <3>7 DEF Arrived, Unsettled
  <2>8. Arrived(h)
    BY <1>2, <2>5, <2>6, <2>7
  <2> QED BY <2>2, <2>8 DEF h
<1> QED BY <1>3, <1>4

\* What is in the file when all of the source was taken: nothing but the source.
LEMMA AllArrived ==
    ASSUME PutInv, KeepInv, OneSession, srcLen <= Taken(sess[1]) * B,
           sess[1].pc = "ok" \/ srcLen > 0
    PROVE  Arrived(srcLen) /\ IsPrefix(remote, Source)
<1> DEFINE t == sess[1]
<1>1. /\ t \in SessionStates /\ InStep(t) /\ Kept(t, remote) /\ Taken(t) \in Nat
  BY KeepFacts
<1>2. t.wpos \in Nat /\ B \in Nat /\ srcLen \in Nat
  BY <1>1, PutFacts DEF SessionStates
<1>3. t.pc = "ok" \/ Taken(t) > 0
  <2>1. Taken(t) = 0 => Taken(t) * B = 0
    BY <1>2
  <2> QED BY <1>1, <1>2, <2>1
<1>4. t.neg.blksize = B
  BY <1>1, <1>3 DEF InStep, Taken, Counted, B
<1>5. remote = SourceFile(t.wpos) /\ t.wpos <= Handed(t)
  BY <1>1, <1>3 DEF Kept
<1>6. Taken(t) * B \in Nat
  BY <1>1, <1>2, ProductIsNat
<1>7. Handed(t) <= srcLen /\ Lesser(Taken(t) * t.neg.blksize, srcLen) = srcLen
  BY <1>2, <1>4, <1>6 DEF Handed
<1>8. Arrived(Lesser(Taken(t) * t.neg.blksize, srcLen))
  BY <1>1, TakenArrived
<1>9. Handed(t) \in Nat
  BY <1>2, <1>6 DEF Handed
<1> QED BY <1>2, <1>5, <1>7, <1>8, <1>9, SourcePrefix DEF Source

\* While the server has seen one request, every ACK on its way to the client stands
\* for a correct beginning of the remote file, but for its last block, whose write
\* may be under way or have failed (serve_write acknowledges before tokio's other
\* thread has written).
THEOREM PutAcksAreStored == Spec => []AckedIsStored
<1>1. PutInv /\ KeepInv => AckedIsStored
  <2> SUFFICES ASSUME PutInv, KeepInv, OneSession,
                      NEW i \in 1..Len(net[ClientPort]), net[ClientPort][i].type = "ACK"
               PROVE  Arrived(Lesser(net[ClientPort][i].block * sess[1].neg.blksize, srcLen))
    BY DEF AckedIsStored
  <2>1. net[ClientPort][i] \in AckedUpTo(Taken(sess[1]))
    <3>1. net[ClientPort] \in Seq(AckedUpTo(Taken(sess[1])))
      BY KeepFacts, PortsAreDistinct
    <3> QED BY <3>1, ElementOfSeq
  <2>2. net[ClientPort][i].block \in Nat /\ net[ClientPort][i].block <= Taken(sess[1])
    BY <2>1, PacketsAssumption DEF AckedUpTo, PutPackets, Blocks
  <2> QED BY <2>2, TakenArrived
<1> QED BY <1>1, PutInvHolds, KeepInvHolds, PTL

\* When put returns Ok for a file that is not empty, and the server has seen one
\* request, the remote file is the local one, but for the last block.
THEOREM PutOkMeansStored == Spec => []OkMeansStored
<1>1. PutInv /\ KeepInv => OkMeansStored
  <2> SUFFICES ASSUME PutInv, KeepInv, OneSession, cl.pc = "ok", srcLen > 0
               PROVE  Arrived(srcLen) /\ IsPrefix(remote, Source)
    BY DEF OkMeansStored
  <2>1. srcLen <= Taken(sess[1]) * B
    BY KeepFacts DEF Believed
  <2> QED BY <2>1, AllArrived
<1> QED BY <1>1, PutInvHolds, KeepInvHolds, PTL

\* The same when serve_write returns Ok, whatever the client made of it.
THEOREM PutServerOkMeansStored == Spec => []ServerOkMeansStored
<1>1. PutInv /\ KeepInv => ServerOkMeansStored
  <2> SUFFICES ASSUME PutInv, KeepInv, OneSession, sess[1].pc = "ok"
               PROVE  Arrived(srcLen) /\ IsPrefix(remote, Source)
    BY DEF ServerOkMeansStored
  <2>1. srcLen <= Taken(sess[1]) * B
    BY KeepFacts DEF Kept
  <2> QED BY <2>1, AllArrived
<1> QED BY <1>1, PutInvHolds, KeepInvHolds, PTL

-----------------------------------------------------------------------------
(* Datagrams do not breed.  Whoever is about to send, and every datagram that can
   bring an answer about, has been brought about by one of those before, or by a
   fault. *)

\* Where in the queues q the datagrams are that may be answered: all but the ERRORs.
Live(q) == UNION {{p} \X {i \in 1..Len(q[p]) : q[p][i].type # "ERROR"} : p \in Ports}

\* The sessions about to answer a request.
Waking == {s \in Sessions : sess[s].pc = "spawned"}

\* How often the client is about to send.
Voice == IF cl.pc \in {"start", "backoff", "read", "pause"} THEN 1 ELSE 0

NoBreeding ==
    /\ IsFiniteSet(Live(net))
    /\ Cardinality(Live(net)) + Cardinality(Waking) + Voice <= 1 + faults

LEMMA LiveMembers ==
    ASSUME NEW q, NEW x
    PROVE  x \in Live(q) <=>
               \E p \in Ports, i \in Nat :
                   i \in 1..Len(q[p]) /\ x = <<p, i>> /\ q[p][i].type # "ERROR"
BY DEF Live

\* A datagram more is at most one more to be answered, and an ERROR none.
LEMMA LiveAppended ==
    ASSUME NEW G, NEW q \in [Ports -> Seq(G)], NEW p \in Ports, NEW m,
           IsFiniteSet(Live(q)),
           NEW r, r[p] = Append(q[p], m), \A t \in Ports : t # p => r[t] = q[t]
    PROVE  /\ IsFiniteSet(Live(r))
           /\ Cardinality(Live(r)) <= Cardinality(Live(q)) + 1
           /\ m.type = "ERROR" => Cardinality(Live(r)) <= Cardinality(Live(q))
<1> DEFINE n == Len(q[p])
           last == <<p, n + 1>>
           s == Append(q[p], m)
<1>1. /\ n \in Nat /\ Len(s) = n + 1 /\ s[n + 1] = m
      /\ \A i \in 1..n : s[i] = q[p][i]
  <2>1. q[p] \in Seq(G \cup {m}) /\ m \in G \cup {m}
    BY SeqMonotonic
  <2> QED BY <2>1, AppendProperties, LenProperties
<1>2. r[p] = s /\ \A t \in Ports : t # p => r[t] = q[t]
  OBVIOUS
<1> HIDE DEF n, s
<1>3. ASSUME NEW x \in Live(r) PROVE x \in Live(q) \/ (x = last /\ m.type # "ERROR")
  <2>1. PICK t \in Ports, i \in Nat :
            i \in 1..Len(r[t]) /\ x = <<t, i>> /\ r[t][i].type # "ERROR"
    BY <1>3, LiveMembers
  <2>2. CASE t # p
    BY <1>2, <2>1, <2>2, LiveMembers
  <2>3. CASE t = p /\ i = n + 1
    BY <1>1, <1>2, <2>1, <2>3
  <2>4. CASE t = p /\ i # n + 1
    <3>1. i \in 1..n /\ r[t][i] = q[p][i]
      BY <1>1, <1>2, <2>1, <2>4
    <3> QED BY <2>1, <2>4, <3>1, LiveMembers DEF n
  <2> QED BY <2>2, <2>3, <2>4
<1> HIDE DEF last
<1>4. Live(r) \in SUBSET (Live(q) \cup {last})
  BY <1>3
<1>5. m.type = "ERROR" => Live(r) \in SUBSET Live(q)
  BY <1>3
<1>6. /\ IsFiniteSet(Live(q) \cup {last})
      /\ Cardinality(Live(q) \cup {last}) <= Cardinality(Live(q)) + 1
      /\ Cardinality(Live(q)) \in Nat /\ Cardinality(Live(q) \cup {last}) \in Nat
  <2> DEFINE L == Live(q)
  <2> HIDE DEF L
  <2>1. IsFiniteSet(L) /\ Cardinality(L) \in Nat
    BY FS_CardinalityType DEF L
  <2>2. /\ IsFiniteSet(L \cup {last})
        /\ Cardinality(L \cup {last}) =
               IF last \in L THEN Cardinality(L) ELSE Cardinality(L) + 1
    BY <2>1, FS_AddElement
  <2> QED BY <2>1, <2>2 DEF L
<1>7. IsFiniteSet(Live(r)) /\ Cardinality(Live(r)) <= Cardinality(Live(q) \cup {last})
  BY <1>4, <1>6, FS_Subset
<1>8. m.type = "ERROR" => Cardinality(Live(r)) <= Cardinality(Live(q))
  BY <1>5, FS_Subset
<1>9. Cardinality(Live(r)) \in Nat
  BY <1>7, FS_CardinalityType
<1> QED BY <1>6, <1>7, <1>8, <1>9

LEMMA LiveSent ==
    ASSUME NEW G, NEW q \in [Ports -> Seq(G)], NEW p \in Ports, NEW m,
           IsFiniteSet(Live(q))
    PROVE  /\ IsFiniteSet(Live(Sent(q, p, m)))
           /\ Cardinality(Live(Sent(q, p, m))) <= Cardinality(Live(q)) + 1
           /\ m.type = "ERROR" => Cardinality(Live(Sent(q, p, m))) <= Cardinality(Live(q))
<1>1. CASE p \in open
  <2> DEFINE r == Sent(q, p, m)
  <2>1. r[p] = Append(q[p], m) /\ \A t \in Ports : t # p => r[t] = q[t]
    BY <1>1 DEF Sent
  <2> HIDE DEF r
  <2>2. /\ IsFiniteSet(Live(r))
        /\ Cardinality(Live(r)) <= Cardinality(Live(q)) + 1
        /\ m.type = "ERROR" => Cardinality(Live(r)) <= Cardinality(Live(q))
    BY <2>1, LiveAppended
  <2> QED BY <2>2 DEF r
<1>2. CASE p \notin open
  BY <1>2, FS_CardinalityType DEF Sent
<1> QED BY <1>1, <1>2

\* A datagram less is one less to be answered, unless it is an ERROR.
LEMMA LiveRemoved ==
    ASSUME NEW q, NEW p \in Ports, NEW i \in 1..Len(q[p]), Len(q[p]) \in Nat,
           IsFiniteSet(Live(q)),
           NEW s, Len(s) = Len(q[p]) - 1,
           \A j \in 1..Len(s) : s[j] = q[p][IF j < i THEN j ELSE j + 1],
           NEW r, r[p] = s, \A t \in Ports : t # p => r[t] = q[t]
    PROVE  /\ IsFiniteSet(Live(r))
           /\ Cardinality(Live(r)) <= Cardinality(Live(q))
           /\ q[p][i].type # "ERROR" => Cardinality(Live(r)) + 1 <= Cardinality(Live(q))
<1> DEFINE gone == <<p, i>>
           T == Live(q) \ {gone}
           place(x) == IF x[1] = p /\ x[2] >= i THEN <<p, x[2] + 1>> ELSE x
           f == [x \in Live(r) |-> place(x)]
<1>1. ASSUME NEW x \in Live(r)
      PROVE  /\ place(x) \in T
             /\ \E t \in Ports, j \in Nat : x = <<t, j>>
  <2>1. PICK t \in Ports, j \in Nat :
            j \in 1..Len(r[t]) /\ x = <<t, j>> /\ r[t][j].type # "ERROR"
    BY <1>1, LiveMembers
  <2>2. CASE t # p
    <3>1. x \in Live(q) /\ place(x) = x /\ x # gone
      BY <2>1, <2>2, LiveMembers
    <3> QED BY <2>1, <3>1
  <2>3. CASE t = p /\ j < i
    <3>1. r[t][j] = q[p][j] /\ j \in 1..Len(q[p])
      BY <2>1, <2>3
    <3>2. x \in Live(q) /\ place(x) = x /\ x # gone
      BY <2>1, <2>3, <3>1, LiveMembers
    <3> QED BY <2>1, <3>2
  <2>4. CASE t = p /\ j >= i
    <3>1. r[t][j] = q[p][j + 1] /\ j + 1 \in 1..Len(q[p])
      BY <2>1, <2>4
    <3>2. place(x) = <<p, j + 1>> /\ place(x) # gone
      BY <2>1, <2>4
    <3>3. place(x) \in Live(q)
      BY <2>1, <2>4, <3>1, <3>2, LiveMembers
    <3> QED BY <2>1, <3>2, <3>3
  <2> QED BY <2>1, <2>2, <2>3, <2>4
<1>2. ASSUME NEW x \in Live(r), NEW y \in Live(r), place(x) = place(y) PROVE x = y
  <2>1. PICK t \in Ports, j \in Nat : x = <<t, j>>
    BY <1>1
  <2>2. PICK u \in Ports, k \in Nat : y = <<u, k>>
    BY <1>1
  <2> QED BY <1>2, <2>1, <2>2
<1>3. f \in Injection(Live(r), T)
  <2> HIDE DEF T, place
  <2>1. f \in [Live(r) -> T]
    BY <1>1
  <2>2. \A x, y \in Live(r) : f[x] = f[y] => x = y
    BY <1>2
  <2> QED BY <2>1, <2>2 DEF Injection, IsInjective
<1> HIDE DEF f
<1>4. /\ IsFiniteSet(T)
      /\ Cardinality(T) = IF gone \in Live(q) THEN Cardinality(Live(q)) - 1
                          ELSE Cardinality(Live(q))
  BY FS_RemoveElement
<1>5. q[p][i].type # "ERROR" => gone \in Live(q)
  BY LiveMembers
<1> HIDE DEF T, gone
<1>6. IsFiniteSet(Live(r)) /\ Cardinality(Live(r)) <= Cardinality(T)
  BY <1>3, <1>4, FS_Injection
<1>7. Cardinality(Live(r)) \in Nat /\ Cardinality(Live(q)) \in Nat
  BY <1>6, FS_CardinalityType
<1> QED BY <1>4, <1>5, <1>6, <1>7

LEMMA LiveReceived ==
    ASSUME NEW G, NEW q \in [Ports -> Seq(G)], NEW p \in Ports, q[p] # <<>>,
           IsFiniteSet(Live(q))
    PROVE  /\ IsFiniteSet(Live(Received(q, p)))
           /\ Cardinality(Live(Received(q, p))) <= Cardinality(Live(q))
           /\ Head(q[p]).type # "ERROR" =>
                  Cardinality(Live(Received(q, p))) + 1 <= Cardinality(Live(q))
<1> DEFINE s == Tail(q[p])
           r == Received(q, p)
<1>1. /\ Len(q[p]) \in Nat /\ Len(q[p]) > 0 /\ Len(s) = Len(q[p]) - 1
      /\ \A j \in 1..Len(s) : s[j] = q[p][j + 1]
  BY HeadTailProperties, LenProperties, EmptySeq
<1>2. \A j \in 1..Len(s) : s[j] = q[p][IF j < 1 THEN j ELSE j + 1]
  BY <1>1
<1>3. r[p] = s /\ \A t \in Ports : t # p => r[t] = q[t]
  BY DEF Received
<1>4. Head(q[p]) = q[p][1] /\ 1 \in 1..Len(q[p])
  BY <1>1
<1> HIDE DEF s, r
<1> QED BY <1>1, <1>2, <1>3, <1>4, LiveRemoved DEF r

LEMMA LiveClosed ==
    ASSUME NEW G, NEW q \in [Ports -> Seq(G)], NEW p \in Ports, IsFiniteSet(Live(q))
    PROVE  /\ IsFiniteSet(Live(Closed(q, p)))
           /\ Cardinality(Live(Closed(q, p))) <= Cardinality(Live(q))
<1>1. ASSUME NEW x \in Live(Closed(q, p)) PROVE x \in Live(q)
  <2>1. PICK t \in Ports, i \in Nat :
            i \in 1..Len(Closed(q, p)[t]) /\ x = <<t, i>> /\ Closed(q, p)[t][i].type # "ERROR"
    BY <1>1, LiveMembers
  <2>2. t # p
    BY <2>1 DEF Closed
  <2>3. Closed(q, p)[t] = q[t]
    BY <2>2 DEF Closed
  <2> QED BY <2>1, <2>3, LiveMembers
<1>2. Live(Closed(q, p)) \in SUBSET Live(q)
  BY <1>1
<1> QED BY <1>2, FS_Subset

LEMMA CountFacts ==
    ASSUME PutInv, NoBreeding
    PROVE  /\ IsFiniteSet(Live(net)) /\ Cardinality(Live(net)) \in Nat
           /\ IsFiniteSet(Waking) /\ Cardinality(Waking) \in Nat
           /\ Voice \in {0, 1} /\ faults \in Nat
           /\ net \in [Ports -> Seq(HonestPackets(cfg, srcLen, Asking))]
<1>1. IsFiniteSet(Sessions)
  BY FS_Interval, NetworkAssumption DEF Sessions
<1>2. Waking \in SUBSET Sessions
  BY DEF Waking
<1>3. IsFiniteSet(Waking) /\ Cardinality(Waking) \in Nat
  BY <1>1, <1>2, FS_Subset, FS_CardinalityType
<1>4. faults \in Nat
  BY NetworkAssumption DEF PutInv, SocketsInv
<1> QED
  BY <1>3, <1>4, FS_CardinalityType DEF NoBreeding, Voice, PutInv, QueuesInv

\* The client's step answers a datagram by getting ready to send, or sends, or ends.
LEMMA ClientAnswers ==
    ASSUME PutInv, NoBreeding, ClientStep
    PROVE  /\ IsFiniteSet(Live(net'))
           /\ Cardinality(Live(net')) + Voice' <= Cardinality(Live(net)) + Voice
<1> DEFINE m == Head(net[ClientPort])
           q == Received(net, ClientPort)
           k == Cardinality(Live(net))
           good == [Ports -> Seq(HonestPackets(cfg, srcLen, Asking))]
<1>1. /\ IsFiniteSet(Live(net)) /\ k \in Nat /\ Voice \in {0, 1}
      /\ net \in good /\ cl \in ClientStates
  BY CountFacts DEF PutInv, ClientInv
<1>2. Voice' \in {0, 1} /\ (cl'.pc \notin {"start", "backoff", "read", "pause"} => Voice' = 0)
  BY DEF Voice
<1>3. net[ClientPort] # <<>> =>
          /\ q \in good /\ IsFiniteSet(Live(q)) /\ Cardinality(Live(q)) <= k
          /\ m.type # "ERROR" => Cardinality(Live(q)) + 1 <= k
  BY <1>1, ReceivedKeepsPackets, LiveReceived, PortsAreDistinct
<1> HIDE DEF m, q, k
<1>4. ASSUME NEW p \in good, IsFiniteSet(Live(p)), Cardinality(Live(p)) <= k,
             NEW result \in ClientDone, Return(p, result)
      PROVE  IsFiniteSet(Live(net')) /\ Cardinality(Live(net')) + Voice' <= k + Voice
  <2>1. cl'.pc = result
    BY <1>1, <1>4 DEF Return, ClientStates
  <2>2. Voice' = 0
    BY <1>2, <1>4, <2>1 DEF ClientDone, ClientFailed
  <2>3. IsFiniteSet(Live(net')) /\ Cardinality(Live(net')) <= Cardinality(Live(p))
    BY <1>4, LiveClosed, PortsAreDistinct DEF Return
  <2>4. Cardinality(Live(net')) \in Nat /\ Cardinality(Live(p)) \in Nat
    BY <1>4, <2>3, FS_CardinalityType
  <2> QED BY <1>1, <1>4, <2>2, <2>3, <2>4
<1>5. ASSUME NEW p \in Ports, NEW d, net' = Sent(net, p, d), Voice = 1, Voice' = 0
      PROVE  IsFiniteSet(Live(net')) /\ Cardinality(Live(net')) + Voice' <= k + Voice
  <2>1. IsFiniteSet(Live(net')) /\ Cardinality(Live(net')) <= k + 1
    BY <1>1, <1>5, LiveSent DEF k
  <2>2. Cardinality(Live(net')) \in Nat
    BY <2>1, FS_CardinalityType
  <2> QED BY <1>1, <1>5, <2>1, <2>2
<1>6. CASE SendRequest
  <2>1. Voice = 1 /\ cl'.pc = "await"
    BY <1>1, <1>6 DEF SendRequest, Voice, ClientStates
  <2> QED BY <1>2, <1>5, <1>6, <2>1, PortsAreDistinct DEF SendRequest, k
<1>7. CASE NoAttempt \/ EndOfFile
  BY <1>1, <1>4, <1>7 DEF NoAttempt, EndOfFile, ClientDone, ClientFailed, k
<1>8. CASE SendBlock
  <2>1. Voice = 1 /\ cl'.pc = "ack" /\ cl.server \in Ports
    BY <1>1, <1>8 DEF SendBlock, Voice, ClientStates
  <2> QED BY <1>2, <1>5, <1>8, <2>1 DEF SendBlock, k
<1>9. CASE ClientReceive
  <2>1. CASE \E result \in ClientDone : Return(q, result)
    BY <1>3, <1>4, <1>9, <2>1 DEF ClientReceive, k
  <2>2. CASE net' = q /\ m.type # "ERROR"
    <3>1. IsFiniteSet(Live(net')) /\ Cardinality(Live(net')) + 1 <= k
      BY <1>3, <1>9, <2>2 DEF ClientReceive
    <3>2. Cardinality(Live(net')) \in Nat
      BY <3>1, FS_CardinalityType
    <3> QED BY <1>1, <1>2, <3>1, <3>2 DEF k
  <2>3. /\ {"ok", "protocol", "remote"} \subseteq ClientDone
        /\ \A again : AttemptFails(q, again) => net' = q \/ Return(q, "protocol")
    BY DEF ClientDone, ClientFailed, AttemptFails
  <2>4. CASE ReceiveReply(m) \/ ReceiveAck(m)
    BY <2>1, <2>2, <2>3, <2>4 DEF ReceiveReply, ReceiveAck, Awaited, q
  <2>5. CASE ReceiveError(m) \/ ReceiveUnexpected(m)
    BY <2>1, <2>2, <2>3, <2>5 DEF ReceiveError, ReceiveUnexpected, q
  <2> QED BY <1>9, <2>4, <2>5 DEF ClientReceive, m
<1> QED
  BY <1>6, <1>7, <1>8, <1>9 DEF ClientStep, k

\* An attempt that fails makes the client send again.
LEMMA TimeoutSpeaks ==
    ASSUME PutInv, NoBreeding, ClientTimeout
    PROVE  /\ IsFiniteSet(Live(net'))
           /\ Cardinality(Live(net')) + Voice' <= Cardinality(Live(net)) + 1
<1>1. /\ IsFiniteSet(Live(net)) /\ Cardinality(Live(net)) \in Nat /\ Voice' \in {0, 1}
      /\ net \in [Ports -> Seq(HonestPackets(cfg, srcLen, Asking))]
  BY CountFacts DEF Voice
<1>2. net' = net \/ net' = Closed(net, ClientPort)
  BY DEF ClientTimeout, AttemptFails, Return
<1>3. /\ IsFiniteSet(Live(net')) /\ Cardinality(Live(net')) <= Cardinality(Live(net))
      /\ Cardinality(Live(net')) \in Nat
  BY <1>1, <1>2, LiveClosed, PortsAreDistinct, FS_CardinalityType
<1> QED BY <1>1, <1>3

\* The client's timer is due when nothing is under way and nobody about to send.
LEMMA DueIsQuiet ==
    ASSUME PutInv, ClientTimerDue
    PROVE  Live(net) = {} /\ Waking = {}
<1>1. \A p \in Ports : net[p] = <<>>
  BY NetworkAssumption
  DEF ClientTimerDue, SessionIdle, Ports, Sessions, ListenPort, ClientPort
<1>2. Live(net) = {}
  BY <1>1 DEF Live
<1> QED BY <1>2 DEF Waking, ClientTimerDue, SessionIdle

LEMMA ClientBreedsNone ==
    ASSUME PutInv, NoBreeding, Client \/ ClientTimer
    PROVE  NoBreeding'
<1>1. /\ Cardinality(Live(net)) \in Nat /\ Cardinality(Waking) \in Nat
      /\ Voice \in {0, 1} /\ faults \in Nat
      /\ Cardinality(Live(net)) + Cardinality(Waking) + Voice <= 1 + faults
  BY CountFacts DEF NoBreeding
<1>2. Waking' = Waking
  BY DEF Client, ClientTimer, serverVars, Waking
<1>3. Voice' \in {0, 1}
  BY DEF Voice
<1>4. CASE Client
  <2>1. /\ IsFiniteSet(Live(net')) /\ faults' = faults
        /\ Cardinality(Live(net')) + Voice' <= Cardinality(Live(net)) + Voice
    BY <1>4, ClientAnswers DEF Client
  <2>2. Cardinality(Live(net')) \in Nat
    BY <2>1, FS_CardinalityType
  <2>3. Live(net)' = Live(net')
    BY DEF Live
  <2> QED BY <1>1, <1>2, <1>3, <2>1, <2>2, <2>3 DEF NoBreeding
<1>5. CASE ClientTimer
  <2>1. /\ IsFiniteSet(Live(net'))
        /\ Cardinality(Live(net')) + Voice' <= Cardinality(Live(net)) + 1
    BY <1>5, TimeoutSpeaks DEF ClientTimer
  <2>2. Cardinality(Live(net')) \in Nat
    BY <2>1, FS_CardinalityType
  <2>3. \/ faults' = faults /\ Cardinality(Live(net)) = 0 /\ Cardinality(Waking) = 0
        \/ faults' = faults + 1
    BY <1>5, DueIsQuiet, FS_EmptySet DEF ClientTimer, TimerFires, Fault
  <2>4. Live(net)' = Live(net')
    BY DEF Live
  <2> QED BY <1>1, <1>2, <1>3, <2>1, <2>2, <2>3, <2>4 DEF NoBreeding
<1> QED BY <1>4, <1>5

\* How many sessions are waking after a step of session s.
LEMMA WakingMoves ==
    ASSUME PutInv, IsFiniteSet(Waking), NEW s \in Sessions,
           \A t \in Sessions : t # s => sess'[t] = sess[t]
    PROVE  /\ IsFiniteSet(Waking') /\ Cardinality(Waking') \in Nat
           /\ Cardinality(Waking') <= Cardinality(Waking) + 1
           /\ sess'[s].pc # "spawned" => Cardinality(Waking') <= Cardinality(Waking)
           /\ sess[s].pc = "spawned" /\ sess'[s].pc # "spawned" =>
                  Cardinality(Waking') + 1 <= Cardinality(Waking)
<1> DEFINE W == Waking
           V == Waking'
<1>1. V \subseteq W \cup {s} /\ (sess'[s].pc # "spawned" => V \subseteq W \ {s})
  BY DEF Waking
<1>2. sess[s].pc = "spawned" => s \in W
  BY DEF Waking
<1> HIDE DEF W, V
<1>3. /\ IsFiniteSet(W) /\ Cardinality(W) \in Nat
  BY FS_CardinalityType DEF W
<1>4. /\ IsFiniteSet(W \cup {s}) /\ Cardinality(W \cup {s}) <= Cardinality(W) + 1
      /\ Cardinality(W \cup {s}) \in Nat
  <2>1. /\ IsFiniteSet(W \cup {s})
        /\ Cardinality(W \cup {s}) = IF s \in W THEN Cardinality(W) ELSE Cardinality(W) + 1
    BY <1>3, FS_AddElement
  <2> QED BY <1>3, <2>1
<1>5. /\ IsFiniteSet(W \ {s})
      /\ Cardinality(W \ {s}) = IF s \in W THEN Cardinality(W) - 1 ELSE Cardinality(W)
  BY <1>3, FS_RemoveElement
<1>6. IsFiniteSet(V) /\ Cardinality(V) <= Cardinality(W \cup {s}) /\ Cardinality(V) \in Nat
  BY <1>1, <1>4, FS_Subset, FS_CardinalityType
<1>7. sess'[s].pc # "spawned" => Cardinality(V) <= Cardinality(W \ {s})
  BY <1>1, <1>5, FS_Subset
<1> QED BY <1>2, <1>3, <1>4, <1>5, <1>6, <1>7 DEF W, V

\* The session's step answers what it takes with one datagram, or with none.
LEMMA SessionAnswers ==
    ASSUME PutInv, NoBreeding, NEW s \in Sessions,
           \/ SessionStep(s) \/ SessionTimeout(s) \/ PeerGone(s) \/ Land(s) \/ Spawn(s)
    PROVE  /\ IsFiniteSet(Live(net'))
           /\ Cardinality(Live(net')) + Cardinality(Waking')
                  <= Cardinality(Live(net)) + Cardinality(Waking)
<1> DEFINE k == Cardinality(Live(net))
           w == Cardinality(Waking)
           v == Cardinality(Waking')
           good == [Ports -> Seq(HonestPackets(cfg, srcLen, Asking))]
           Answered == /\ IsFiniteSet(Live(net'))
                       /\ Cardinality(Live(net')) + v <= k + w
<1>1. /\ IsFiniteSet(Live(net)) /\ k \in Nat /\ IsFiniteSet(Waking) /\ w \in Nat
      /\ net \in good /\ sess \in [Sessions -> SessionStates]
  BY CountFacts DEF PutInv, ServerInv
<1>2. s \in Ports /\ ClientPort \in Ports /\ ListenPort \in Ports
  BY PortsAreDistinct
<1>3. \A t \in Sessions : t # s => sess'[t] = sess[t]
  BY <1>1
  DEF SessionStep, SessionTimeout, PeerGone, Land, Spawn, RefuseRequest, SendOack,
      CreateFile, TakeData, RepeatAck, TakeBlock, EndSession
<1>4. /\ v \in Nat /\ v <= w + 1
      /\ sess'[s].pc # "spawned" => v <= w
      /\ sess[s].pc = "spawned" /\ sess'[s].pc # "spawned" => v + 1 <= w
  BY <1>1, <1>3, WakingMoves
<1>5. ASSUME NEW r, IsFiniteSet(Live(r)) PROVE Cardinality(Live(r)) \in Nat
  BY <1>5, FS_CardinalityType
<1>6. ASSUME NEW p \in good, IsFiniteSet(Live(p)), Cardinality(Live(p)) <= k,
             NEW result \in {"denied", "failed"}, EndSession(p, s, result)
      PROVE  Answered
  <2>1. sess'[s].pc = result
    BY <1>1, <1>6 DEF EndSession, SessionStates
  <2>2. IsFiniteSet(Live(net')) /\ Cardinality(Live(net')) <= Cardinality(Live(p))
    BY <1>2, <1>6, LiveClosed DEF EndSession
  <2> HIDE DEF k, v, w
  <2> QED BY <1>1, <1>4, <1>5, <1>6, <2>1, <2>2 DEF k, v, w
<1>7. ASSUME NEW p \in good, IsFiniteSet(Live(p)), NEW d
      PROVE  LET r == Sent(p, ClientPort, d)
             IN  /\ IsFiniteSet(Live(r))
                 /\ Cardinality(Live(r)) <= Cardinality(Live(p)) + 1
                 /\ d.type = "ERROR" => Cardinality(Live(r)) <= Cardinality(Live(p))
  BY <1>2, <1>7, LiveSent
<1>8. net[ListenPort] # <<>> =>
          /\ Received(net, ListenPort) \in good /\ IsFiniteSet(Live(Received(net, ListenPort)))
          /\ Head(net[ListenPort]).type # "ERROR" =>
                 Cardinality(Live(Received(net, ListenPort))) + 1 <= k
  BY <1>1, <1>2, ReceivedKeepsPackets, LiveReceived
<1>9. net[s] # <<>> =>
          /\ Received(net, s) \in good /\ IsFiniteSet(Live(Received(net, s)))
          /\ Cardinality(Live(Received(net, s))) <= k
          /\ Head(net[s]).type # "ERROR" =>
                 Cardinality(Live(Received(net, s))) + 1 <= k
  BY <1>1, <1>2, ReceivedKeepsPackets, LiveReceived
<1>10. /\ Sent(net, ClientPort, Error(s)) \in good
       /\ IsFiniteSet(Live(Sent(net, ClientPort, Error(s))))
       /\ Cardinality(Live(Sent(net, ClientPort, Error(s)))) <= k
  <2>1. Error(s) \in HonestPackets(cfg, srcLen, Asking) /\ Error(s).type = "ERROR"
    BY PacketsBuilt, PutFacts DEF Error
  <2> QED BY <1>1, <1>2, <1>7, <2>1, SentKeepsPackets
<1>11. CASE SessionTimeout(s) \/ PeerGone(s)
  BY <1>1, <1>6, <1>11 DEF SessionTimeout, PeerGone
<1>12. CASE RefuseRequest(s)
  BY <1>1, <1>6, <1>10, <1>12 DEF RefuseRequest
<1>13. CASE Land(s)
  <2>1. sess'[s].pc = sess[s].pc /\ net' = net
    BY <1>1, <1>13 DEF Land, SessionStates
  <2>2. Waking' = Waking
    BY <1>3, <2>1 DEF Waking
  <2> QED BY <1>1, <2>1, <2>2
<1>14. CASE CreateFile(s)
  <2>1. CASE /\ sess' = [sess EXCEPT ![s].pc = "recv"]
             /\ net' = net
    <3>1. sess'[s].pc # "spawned"
      BY <1>1, <2>1 DEF SessionStates
    <3> HIDE DEF k, v, w
    <3> QED BY <1>1, <1>4, <2>1, <3>1 DEF k, v, w
  <2> QED BY <1>6, <1>10, <1>14, <2>1 DEF CreateFile
<1>15. CASE Spawn(s)
  <2>1. /\ net[ListenPort] # <<>> /\ Head(net[ListenPort]).type # "ERROR"
        /\ net' = Received(net, ListenPort)
    BY <1>15 DEF Spawn
  <2>2. IsFiniteSet(Live(net')) /\ Cardinality(Live(net')) + 1 <= k
    BY <1>8, <2>1
  <2> HIDE DEF k, v, w
  <2> QED BY <1>1, <1>4, <1>5, <2>2 DEF k, v, w
<1>16. CASE SendOack(s)
  <2>1. sess[s].pc = "spawned" /\ sess'[s].pc = "create"
    BY <1>1, <1>16 DEF SendOack, SessionStates
  <2>2. IsFiniteSet(Live(net')) /\ Cardinality(Live(net')) <= k + 1
    BY <1>1, <1>7, <1>16 DEF SendOack
  <2> HIDE DEF k, v, w
  <2> QED BY <1>1, <1>4, <1>5, <2>1, <2>2 DEF k, v, w
<1>17. CASE net[s] # <<>> /\ TakeData(s, Head(net[s]))
  <2> DEFINE m == Head(net[s])
             q == Received(net, s)
  <2>1. /\ q \in good /\ IsFiniteSet(Live(q)) /\ Cardinality(Live(q)) <= k
        /\ Cardinality(Live(q)) + 1 <= k
    BY <1>9, <1>17 DEF TakeData
  <2> HIDE DEF m, q
  <2>2. CASE TakeBlock(s, m) /\ EndSession(q, s, "failed")
    BY <1>6, <2>1, <2>2
  <2>3. ASSUME NEW b \in Blocks, sess'[s].pc # "spawned",
               \/ net' = Sent(q, ClientPort, Ack(s, b))
               \/ net' = Closed(Sent(q, ClientPort, Ack(s, b)), s)
        PROVE  Answered
    <3> DEFINE r == Sent(q, ClientPort, Ack(s, b))
    <3>1. IsFiniteSet(Live(r)) /\ Cardinality(Live(r)) <= Cardinality(Live(q)) + 1
      BY <1>7, <2>1
    <3>2. r \in [Ports -> Seq(PutPackets)]
      <4>1. HonestPackets(cfg, srcLen, Asking) \subseteq PutPackets
        BY DEF HonestPackets
      <4>2. q \in [Ports -> Seq(PutPackets)]
        BY <2>1, <4>1, QueuesMonotonic
      <4>3. Ack(s, b) \in PutPackets
        BY DEF Ack, PutPackets
      <4> QED BY <1>2, <4>2, <4>3, SentKeepsPackets
    <3> HIDE DEF r
    <3>3. IsFiniteSet(Live(net')) /\ Cardinality(Live(net')) <= Cardinality(Live(r))
      <4>1. IsFiniteSet(Live(Closed(r, s))) /\ Cardinality(Live(Closed(r, s))) <= Cardinality(Live(r))
        BY <1>2, <3>1, <3>2, LiveClosed
      <4>2. Cardinality(Live(r)) \in Nat
        BY <1>5, <3>1
      <4> QED BY <2>3, <3>1, <4>1, <4>2 DEF r
    <3>4. /\ Cardinality(Live(net')) \in Nat /\ Cardinality(Live(r)) \in Nat
          /\ Cardinality(Live(q)) \in Nat
      BY <1>5, <2>1, <3>1, <3>3
    <3> HIDE DEF k, v, w
    <3> QED BY <1>1, <1>4, <2>1, <2>3, <3>1, <3>3, <3>4 DEF k, v, w
  <2>4. CASE RepeatAck(s, m)
    <3>1. sess'[s].pc # "spawned"
      BY <1>17, <2>4 DEF RepeatAck, TakeData
    <3>2. (sess[s].expected - 1) % BlockMod \in Blocks
      <4>1. sess[s] \in SessionStates
        BY <1>1
      <4> QED BY <4>1, LastAckIsCounted
    <3> QED BY <2>3, <2>4, <3>1, <3>2 DEF RepeatAck, q
  <2>5. CASE TakeBlock(s, m) /\ ~EndSession(q, s, "failed")
    <3>1. sess'[s].pc \in {"ok", "recv"}
      BY <1>1, <1>17, <2>5 DEF TakeBlock, TakeData, SessionStates, q
    <3>2. m.block \in Blocks
      BY <1>1, <2>5 DEF TakeBlock, IsExpected, SessionStates
    <3>3. \/ net' = Sent(q, ClientPort, Ack(s, m.block))
          \/ net' = Closed(Sent(q, ClientPort, Ack(s, m.block)), s)
      BY <2>5 DEF TakeBlock, q
    <3> QED BY <2>3, <3>1, <3>2, <3>3
  <2> QED BY <1>17, <2>2, <2>4, <2>5 DEF TakeData, m
<1> QED
  BY <1>11, <1>12, <1>13, <1>14, <1>15, <1>16, <1>17 DEF SessionStep

LEMMA SessionBreedsNone ==
    ASSUME PutInv, NoBreeding, NEW s \in Sessions,
           \/ Session(s) \/ SessionTimer(s) \/ Refused(s) \/ Writer(s)
           \/ Spawn(s) /\ UNCHANGED <<putVars, faults>>
    PROVE  NoBreeding'
<1>1. /\ Cardinality(Live(net)) \in Nat /\ Cardinality(Waking) \in Nat
      /\ Voice \in {0, 1} /\ faults \in Nat
      /\ Cardinality(Live(net)) + Cardinality(Waking) + Voice <= 1 + faults
  BY CountFacts DEF NoBreeding
<1>2. Voice' = Voice
  BY DEF Session, SessionTimer, Refused, Writer, putVars, Voice
<1>3. faults' \in {faults, faults + 1}
  BY DEF Session, SessionTimer, Refused, Writer, TimerFires, Fault
<1>4. /\ IsFiniteSet(Live(net'))
      /\ Cardinality(Live(net')) + Cardinality(Waking')
             <= Cardinality(Live(net)) + Cardinality(Waking)
  BY SessionAnswers DEF Session, SessionTimer, Refused, Writer
<1>5. Cardinality(Live(net')) \in Nat /\ Cardinality(Waking') \in Nat
  <2>1. IsFiniteSet(Waking')
    <3>1. IsFiniteSet(Sessions)
      BY FS_Interval, NetworkAssumption DEF Sessions
    <3>2. Waking' \in SUBSET Sessions
      BY DEF Waking
    <3> QED BY <3>1, <3>2, FS_Subset
  <2> QED BY <1>4, <2>1, FS_CardinalityType
<1>6. Live(net)' = Live(net')
  BY DEF Live
<1> QED BY <1>1, <1>2, <1>3, <1>4, <1>5, <1>6 DEF NoBreeding

\* A fault brings about one datagram at most.
LEMMA FaultBreedsOne ==
    ASSUME PutInv, NoBreeding, Network
    PROVE  NoBreeding'
<1> DEFINE k == Cardinality(Live(net))
           G == HonestPackets(cfg, srcLen, Asking)
<1>1. /\ IsFiniteSet(Live(net)) /\ k \in Nat /\ Cardinality(Waking) \in Nat
      /\ Voice \in {0, 1} /\ faults \in Nat
      /\ k + Cardinality(Waking) + Voice <= 1 + faults
      /\ net \in [Ports -> Seq(G)]
  BY CountFacts DEF NoBreeding
<1> HIDE DEF k, G
<1>2. Voice' = Voice /\ Waking' = Waking
  BY DEF Network, putVars, serverVars, Voice, Waking
<1>3. PICK p \in Ports :
          \E i \in 1..Len(net[p]) : Lose(p, i) \/ Duplicate(p, i) \/ Delay(p, i)
  BY DEF Network, NetworkFault
<1>4. PICK i \in 1..Len(net[p]) : Lose(p, i) \/ Duplicate(p, i) \/ Delay(p, i)
  BY <1>3
<1>5. faults' = faults + 1
  BY <1>4 DEF Lose, Duplicate, Delay, Fault
<1> DEFINE s == RemoveAt(net[p], i)
           q == [net EXCEPT ![p] = s]
<1>6. /\ s \in Seq(G) /\ Len(s) = Len(net[p]) - 1 /\ Len(net[p]) \in Nat
      /\ \A j \in 1..Len(s) : s[j] = net[p][IF j < i THEN j ELSE j + 1]
  BY <1>1, RemoveAtIndices
<1>7. q[p] = s /\ (\A t \in Ports : t # p => q[t] = net[t]) /\ q \in [Ports -> Seq(G)]
  BY <1>1, <1>6
<1> HIDE DEF s, q
<1>8. IsFiniteSet(Live(q)) /\ Cardinality(Live(q)) <= k
  BY <1>1, <1>6, <1>7, LiveRemoved DEF k
<1>9. ASSUME NEW f \in [Ports -> Seq(G)], IsFiniteSet(Live(f)), Cardinality(Live(f)) <= k,
             NEW d, net' = [f EXCEPT ![p] = Append(@, d)]
      PROVE  IsFiniteSet(Live(net')) /\ Cardinality(Live(net')) <= k + 1
  <2>1. net'[p] = Append(f[p], d) /\ \A t \in Ports : t # p => net'[t] = f[t]
    BY <1>9
  <2>2. IsFiniteSet(Live(net')) /\ Cardinality(Live(net')) <= Cardinality(Live(f)) + 1
    BY <1>9, <2>1, LiveAppended
  <2>3. Cardinality(Live(net')) \in Nat /\ Cardinality(Live(f)) \in Nat
    BY <1>9, <2>2, FS_CardinalityType
  <2> QED BY <1>1, <1>9, <2>2, <2>3
<1>10. IsFiniteSet(Live(net')) /\ Cardinality(Live(net')) <= k + 1
  <2>1. CASE Lose(p, i)
    <3>1. net' = q
      BY <2>1 DEF Lose, q, s
    <3>2. Cardinality(Live(q)) \in Nat
      BY <1>8, FS_CardinalityType
    <3> QED BY <1>1, <1>8, <3>1, <3>2
  <2>2. CASE Duplicate(p, i)
    <3>1. net' = [net EXCEPT ![p] = Append(@, net[p][i])]
      BY <1>1, <2>2 DEF Duplicate
    <3>2. Cardinality(Live(net)) <= k
      BY <1>1 DEF k
    <3> QED BY <1>1, <1>9, <3>1, <3>2
  <2>3. CASE Delay(p, i)
    <3>1. net' = [q EXCEPT ![p] = Append(@, net[p][i])]
      BY <1>1, <2>3 DEF Delay, q, s
    <3> QED BY <1>7, <1>8, <1>9, <3>1
  <2> QED BY <1>4, <2>1, <2>2, <2>3
<1>11. Cardinality(Live(net')) \in Nat /\ Live(net)' = Live(net')
  BY <1>10, FS_CardinalityType DEF Live
<1> QED BY <1>1, <1>2, <1>5, <1>10, <1>11 DEF NoBreeding

LEMMA NoBreedingInit == Init => NoBreeding
<1> SUFFICES ASSUME Init PROVE NoBreeding
  OBVIOUS
<1>1. Live(net) = {}
  BY DEF Init, NetInit, Live
<1>2. Waking = {}
  BY DEF Init, ServerInit, Waking
<1>3. Voice = 1 /\ faults = 0
  BY DEF Init, ClientInit, NetInit, Voice
<1> QED BY <1>1, <1>2, <1>3, FS_EmptySet DEF NoBreeding

LEMMA NoBreedingNext == PutInv /\ NoBreeding /\ [Next]_vars => NoBreeding'
<1> SUFFICES ASSUME PutInv, NoBreeding, [Next]_vars PROVE NoBreeding'
  OBVIOUS
<1>1. CASE Client \/ ClientTimer
  BY <1>1, ClientBreedsNone
<1>2. CASE Listener
  BY <1>2, SessionBreedsNone DEF Listener
<1>3. CASE \E s \in Sessions : Session(s) \/ SessionTimer(s) \/ Refused(s) \/ Writer(s)
  BY <1>3, SessionBreedsNone
<1>4. CASE Network
  BY <1>4, FaultBreedsOne
<1>5. CASE UNCHANGED vars
  BY <1>5 DEF vars, NoBreeding, Live, Waking, Voice
<1> QED BY <1>1, <1>2, <1>3, <1>4, <1>5 DEF Next

\* Never more than one ACK more than faults is on its way to the client: the
\* server repeats the last ACK for a block that comes again, the client repeats
\* the block for an ACK that comes again, and the two do not go on feeding each
\* other.
THEOREM PutSurplusBounded == Spec => []SurplusBounded
<1>1. PutInv /\ NoBreeding => SurplusBounded
  <2> SUFFICES ASSUME PutInv, NoBreeding PROVE SurplusBounded
    OBVIOUS
  <2> DEFINE acks == {i \in 1..Len(net[ClientPort]) : net[ClientPort][i].type = "ACK"}
             f == [i \in acks |-> <<ClientPort, i>>]
  <2>1. f \in Injection(acks, Live(net))
    <3>1. f \in [acks -> Live(net)]
      <4>1. ASSUME NEW i \in acks PROVE <<ClientPort, i>> \in Live(net)
        BY PortsAreDistinct, LiveMembers
      <4> QED BY <4>1
    <3>2. \A i, j \in acks : f[i] = f[j] => i = j
      OBVIOUS
    <3> QED BY <3>1, <3>2 DEF Injection, IsInjective
  <2> HIDE DEF acks, f
  <2>2. /\ IsFiniteSet(Live(net)) /\ Cardinality(Live(net)) \in Nat
        /\ Cardinality(Waking) \in Nat /\ Voice \in {0, 1} /\ faults \in Nat
        /\ Cardinality(Live(net)) + Cardinality(Waking) + Voice <= 1 + faults
    BY CountFacts DEF NoBreeding
  <2>3. IsFiniteSet(acks) /\ Cardinality(acks) <= Cardinality(Live(net))
    BY <2>1, <2>2, FS_Injection
  <2>4. Cardinality(acks) \in Nat
    BY <2>3, FS_CardinalityType
  <2>5. Cardinality(acks) <= 1 + faults
    BY <2>2, <2>3, <2>4
  <2> QED BY <2>5 DEF SurplusBounded, acks
<1> QED
  BY <1>1, PutInvInit, PutInvNext, NoBreedingInit, NoBreedingNext, PTL DEF Spec
=============================================================================
