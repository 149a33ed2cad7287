----------------------------- MODULE PutClient -----------------------------
(***************************************************************************)
(* TftpClient::put: negotiate_put, then one with_retry for every block of  *)
(* the local file: send it, await its ACK, pause and repeat.  Unlike `get` *)
(* it never reads windowsize again: every block waits for its own ACK.     *)
(***************************************************************************)
EXTENDS Options, Network, Packets, Files

CONSTANTS
    Configs,   \* the client configurations to consider
    FileLens   \* the lengths the local file may have

ClientConfigs ==
    [blksize : 0..(U16 - 1), timeout : 0..(U16 - 1), windowsize : 0..(U16 - 1),
     retries : Nat]

ASSUME PutClientAssumption == Configs \subseteq ClientConfigs /\ FileLens \subseteq Nat

VARIABLES
    cfg,     \* the ClientConfig (constant)
    srcLen,  \* the length of the local file (constant)
    cl       \* the locals of put, negotiate_put and with_retry

putVars == <<cfg, srcLen, cl>>

\* "start", "await" and "backoff" as in GetClient; "read" before a block's first
\* attempt, "ack" while its ACK is awaited, "pause" between two attempts.
ClientFailed == {"timeout", "remote", "protocol"}
ClientDone == {"ok"} \cup ClientFailed
ClientWaits == {"await", "ack"}

ClientStates ==
    [pc      : {"start", "backoff", "read", "pause"} \cup ClientWaits \cup ClientDone,
     attempt : Nat,      \* with_retry
     server  : Ports,    \* where DATA goes
     blksize : Nat,      \* neg.blksize
     timeout : Nat,      \* neg.timeout, before that the ClientConfig's
     block   : Blocks,   \* next_block, a u16
     rpos    : Nat]      \* the file position of the current block

ClientInit ==
    /\ cfg \in Configs
    /\ srcLen \in FileLens
    /\ cl = [pc |-> "start", attempt |-> 0, server |-> ListenPort,
             blksize |-> cfg.blksize, timeout |-> cfg.timeout, block |-> 1,
             rpos |-> 0]

\* put returns, and drops its socket.
Return(q, result) ==
    /\ cl' = [cl EXCEPT !.pc = result]
    /\ net' = Closed(q, ClientPort)
    /\ open' = open \ {ClientPort}

\* Mutant of AttemptFails: the attempts are not counted.
AttemptFailsUncounted(q, again) ==
    /\ cl' = [cl EXCEPT !.pc = again]
    /\ net' = q
    /\ UNCHANGED open

\* An attempt of with_retry fails in a way that allows another one, which starts
\* from state `again` after a sleep; q is the network it leaves.
AttemptFails(q, again) ==
    \/ /\ cl.attempt + 1 < cfg.retries
       /\ cl' = [cl EXCEPT !.pc = again, !.attempt = @ + 1]
       /\ net' = q
       /\ UNCHANGED open
    \/ /\ cl.attempt + 1 >= cfg.retries
       /\ Return(q, "protocol")

-----------------------------------------------------------------------------
SendRequest ==
    /\ cl.pc \in {"start", "backoff"}
    /\ cl.attempt < cfg.retries
    /\ net' = Sent(net, ListenPort,
                   Wrq(ClientPort, RequestOptions(cfg, srcLen)))
    /\ cl' = [cl EXCEPT !.pc = "await"]
    /\ UNCHANGED open

NoAttempt ==
    /\ cl.pc = "start"
    /\ cfg.retries = 0
    /\ Return(net, "timeout")

\* An OACK starts the transfer, and so does ACK(0) from a server without options.
ReceiveReply(m) ==
    /\ cl.pc = "await"
    /\ LET q == Received(net, ClientPort)
           accepted == m.type = "OACK" \/ (m.type = "ACK" /\ m.block = 0)
           neg == IF m.type = "OACK"
                  THEN apply_oack(InitialNegotiation(cfg), m.options)
                  ELSE InitialNegotiation(cfg)
       IN  \/ /\ accepted
              /\ cl' = [cl EXCEPT !.pc = "read", !.attempt = 0,
                                  !.server = m.from, !.blksize = neg.blksize,
                                  !.timeout = neg.timeout]
              /\ net' = q
              /\ UNCHANGED open
           \/ /\ ~accepted
              /\ Return(q, IF m.type = "ERROR" THEN "remote" ELSE "protocol")

-----------------------------------------------------------------------------
\* The length of the current block.
BlockLen == Lesser(cl.blksize, srcLen - cl.rpos)

\* Nothing is left to read: Ok, without an empty last block.
EndOfFile ==
    /\ cl.pc = "read"
    /\ BlockLen = 0
    /\ Return(net, "ok")

SendBlock ==
    /\ cl.pc = "pause" \/ (cl.pc = "read" /\ BlockLen > 0)
    /\ net' = Sent(net, cl.server, Data(ClientPort, cl.block, cl.rpos, BlockLen))
    /\ cl' = [cl EXCEPT !.pc = "ack"]
    /\ UNCHANGED open

\* Mutant of Awaited: the block number is not compared.
AnyAck(m) == m.type = "ACK"

\* The ACK of the current block.
Awaited(m) == m.type = "ACK" /\ m.block = cl.block

\* Mutant of WrapsAfter: off by one.
WrapsEarly(b) == b + 1 = BlockMod - 1

\* b is the greatest block number.
WrapsAfter(b) == b = BlockMod - 1

\* The awaited ACK.  The block numbers must not wrap.
ReceiveAck(m) ==
    /\ cl.pc = "ack"
    /\ Awaited(m)
    /\ LET q == Received(net, ClientPort)
           short == BlockLen < cl.blksize
           wraps == WrapsAfter(cl.block)
       IN  \/ /\ short \/ wraps
              /\ Return(q, IF short THEN "ok" ELSE "protocol")
           \/ /\ ~short /\ ~wraps
              /\ cl' = [cl EXCEPT !.pc = "read", !.attempt = 0, !.server = m.from,
                                  !.block = @ + 1, !.rpos = @ + BlockLen]
              /\ net' = q
              /\ UNCHANGED open

ReceiveError(m) ==
    /\ cl.pc = "ack"
    /\ m.type = "ERROR"
    /\ Return(Received(net, ClientPort), "remote")

\* Any other packet, the ACK of an earlier block for one, costs an attempt just
\* as a timeout does.
ReceiveUnexpected(m) ==
    /\ cl.pc = "ack"
    /\ m.type # "ERROR"
    /\ ~Awaited(m)
    /\ AttemptFails(Received(net, ClientPort), "pause")

-----------------------------------------------------------------------------
ClientReceive ==
    /\ net[ClientPort] # <<>>
    /\ LET m == Head(net[ClientPort])
       IN  \/ ReceiveReply(m) \/ ReceiveAck(m)
           \/ ReceiveError(m) \/ ReceiveUnexpected(m)

ClientStep ==
    /\ SendRequest \/ NoAttempt \/ EndOfFile \/ SendBlock \/ ClientReceive
    /\ UNCHANGED <<cfg, srcLen>>

ClientTimeout ==
    /\ \/ cl.pc = "await" /\ AttemptFails(net, "backoff")
       \/ cl.pc = "ack" /\ AttemptFails(net, "pause")
    /\ UNCHANGED <<cfg, srcLen>>
=============================================================================
