----------------------------- MODULE GetClient -----------------------------
(***************************************************************************)
(* TftpClient::get: negotiate_get (the request, retried by with_retry) and *)
(* the receive loop.  One action is what the task does between two awaits  *)
(* on the network or the clock.  write_all of a tokio File hands the bytes *)
(* to another thread and returns before they are written; the next write   *)
(* waits for them, and it is the one that gets their error.                *)
(***************************************************************************)
EXTENDS Options, Network, Packets, Files

CONSTANTS
    Configs,   \* the client configurations to consider
    Rooms      \* the lengths a file may reach before the disk is full

ClientConfigs ==
    [blksize : 0..(U16 - 1), timeout : 0..(U16 - 1), windowsize : 0..(U16 - 1),
     retries : Nat, resume : Nat]

ASSUME GetClientAssumption ==
    /\ Configs \subseteq ClientConfigs
    /\ Rooms \subseteq Nat

VARIABLES
    cfg,   \* the ClientConfig (constant)
    room,  \* a member of Rooms (constant)
    cl,    \* the locals of get, negotiate_get and with_retry
    out    \* the contents of the destination file

getVars == <<cfg, room, cl, out>>

\* "start" before the first attempt, "await" and "backoff" inside with_retry,
\* "recv" in the receive loop; get has returned Ok in "ok", and an error in
\* "timeout" (TftpError::Timeout), "remote" (Remote), "protocol" (Protocol) and
\* "io" (Io).
ClientFailed == {"timeout", "remote", "protocol", "io"}
ClientDone == {"ok"} \cup ClientFailed
ClientWaits == {"await", "recv"}

ClientStates ==
    [pc         : {"start", "backoff"} \cup ClientWaits \cup ClientDone,
     attempt    : Nat,      \* with_retry
     server     : Ports,    \* where ACKs go
     blksize    : Nat,      \* neg.blksize
     windowsize : Nat,      \* neg.windowsize
     expected   : Nat \ {0}, \* expected_block, a u64
     lastAcked  : Blocks,   \* last_acked_block, a u16
     retries    : Nat,      \* retries_left
     pos        : Nat,      \* the write position in the destination file
     pending    : Writes,   \* the write that another thread has still to do
     broken     : BOOLEAN]  \* the last write done has failed

ClientInit(oldLen) ==
    /\ cfg \in Configs
    /\ room \in Rooms
    /\ cl = [pc |-> "start", attempt |-> 0, server |-> ListenPort,
             blksize |-> cfg.blksize, windowsize |-> cfg.windowsize,
             expected |-> 1, lastAcked |-> 0, retries |-> 0, pos |-> 0,
             pending |-> NoWrite, broken |-> FALSE]
    /\ out = OldFile(oldLen)

\* get returns; dropping the socket discards what it has not read.  q is the
\* network after the datagrams this step receives and sends.
Return(q, result) ==
    /\ cl' = [cl EXCEPT !.pc = result]
    /\ net' = Closed(q, ClientPort)
    /\ open' = open \ {ClientPort}

-----------------------------------------------------------------------------
(* negotiate_get *)

SendRequest ==
    /\ cl.pc \in {"start", "backoff"}
    /\ cl.attempt < cfg.retries
    /\ net' = Sent(net, ListenPort,
                   Rrq(ClientPort, RequestOptions(cfg, NoSize)))
    /\ cl' = [cl EXCEPT !.pc = "await"]
    /\ UNCHANGED <<cfg, out, open>>

\* retries = 0: with_retry does not try even once.
NoAttempt ==
    /\ cl.pc = "start"
    /\ cfg.retries = 0
    /\ Return(net, "timeout")
    /\ UNCHANGED <<cfg, out>>

RequestTimeout ==
    /\ cl.pc = "await"
    /\ \/ /\ cl.attempt + 1 < cfg.retries
          /\ cl' = [cl EXCEPT !.pc = "backoff", !.attempt = @ + 1]
          /\ UNCHANGED <<net, open>>
       \/ /\ cl.attempt + 1 >= cfg.retries
          /\ Return(net, "protocol")
    /\ UNCHANGED <<cfg, out>>

\* File::create, which truncates; a resumed transfer then seeks.
EnterLoop(neg, from) ==
    /\ cl' = [cl EXCEPT !.pc = "recv", !.server = from,
                        !.blksize = neg.blksize, !.windowsize = neg.windowsize,
                        !.expected = cfg.resume + 1,
                        !.lastAcked = cfg.resume % BlockMod,
                        !.retries = Greater(cfg.retries, 1),
                        !.pos = cfg.resume * neg.blksize]
    /\ out' = <<>>
    /\ UNCHANGED <<cfg, open>>

\* The reply, whatever it is, ends with_retry.
ReceiveReply(m) ==
    /\ cl.pc = "await"
    /\ LET q == Received(net, ClientPort)
       IN  \/ /\ m.type = "OACK"
              /\ net' = Sent(q, m.from, Ack(ClientPort, 0))
              /\ EnterLoop(apply_oack(InitialNegotiation(cfg), m.options), m.from)
           \* A server without options starts with DATA(1): get drops it and
           \* waits for the server to send it again.
           \/ /\ m.type = "DATA" /\ m.block = 1
              /\ net' = q
              /\ EnterLoop(InitialNegotiation(cfg), m.from)
           \/ /\ m.type = "ERROR"
              /\ Return(q, "remote")
              /\ UNCHANGED <<cfg, out>>
           \/ /\ m.type \notin {"OACK", "ERROR"}
              /\ ~(m.type = "DATA" /\ m.block = 1)
              /\ Return(q, "protocol")
              /\ UNCHANGED <<cfg, out>>

-----------------------------------------------------------------------------
(* The receive loop *)

\* Every packet refills the retry budget and moves the server's port.
Heard(m) ==
    [cl EXCEPT !.retries = Greater(cfg.retries, 1), !.server = m.from]

\* Mutant of IsLast: off by one.
IsNotLonger(m) == m.len <= cl.blksize

\* A block that ends the transfer.
IsLast(m) == m.len < cl.blksize

\* Acknowledge block b to the sender of m, and remember it.
Acknowledge(m, b) ==
    /\ net' = Sent(Received(net, ClientPort), m.from, Ack(ClientPort, b))
    /\ cl' = [Heard(m) EXCEPT !.lastAcked = b]
    /\ UNCHANGED <<cfg, out, open>>

OldData(m) ==
    /\ m.block < Greater(cl.lastAcked, cl.expected)
    /\ Acknowledge(m, m.block)

\* Mutant of GapData: the block that came is acknowledged.
GapAcknowledged(m) ==
    /\ m.block >= Greater(cl.lastAcked, cl.expected)
    /\ m.block > cl.expected
    /\ Acknowledge(m, m.block)

GapData(m) ==
    /\ m.block >= Greater(cl.lastAcked, cl.expected)
    /\ m.block > cl.expected
    /\ Acknowledge(m, cl.expected - 1)

\* Mutant of WriteFails: the error is not looked at.
ErrorsIgnored(m) == FALSE

\* An earlier write has failed, and write_all of m's bytes reports it.
WriteFails(m) == cl.broken /\ m.len > 0

\* What write_all of m's bytes leaves to the other thread: of an empty block it
\* writes nothing.
HandedOver(m) ==
    IF m.len > 0 THEN [off |-> m.off, len |-> m.len] ELSE cl.pending

\* The client once it has taken the expected block m.
Taken(m) ==
    [Heard(m) EXCEPT !.expected = @ + 1, !.lastAcked = m.block,
                     !.pending = HandedOver(m)]

\* The expected block: written behind an earlier one that is done, and
\* acknowledged when a window or the file ends; or the earlier one has failed,
\* which ends the transfer without a word to the server.  (The block count of the
\* statistics is expected - 1 - resume before this step.)
NextData(m) ==
    /\ m.block = cl.expected
    /\ m.block >= cl.lastAcked
    /\ m.len > 0 => cl.pending = NoWrite
    /\ LET q == Received(net, ClientPort)
           acked == Sent(q, m.from, Ack(ClientPort, m.block))
           windowEnds ==
               (cl.expected - cfg.resume) % Greater(cl.windowsize, 1) = 0
       IN  \/ /\ WriteFails(m)
              /\ Return(q, "io")
           \/ /\ ~WriteFails(m) /\ IsLast(m)
              /\ cl' = [Taken(m) EXCEPT !.pc = "ok"]
              /\ net' = Closed(acked, ClientPort)
              /\ open' = open \ {ClientPort}
           \/ /\ ~WriteFails(m) /\ ~IsLast(m)
              /\ cl' = Taken(m)
              /\ net' = IF windowEnds THEN acked ELSE q
              /\ UNCHANGED open
    /\ UNCHANGED <<cfg, out>>

\* The pending write is done, even after get has returned; what does not fit on
\* the disk is cut off.
Land ==
    LET w == cl.pending
        n == Lesser(w.len, Greater(0, room - cl.pos))
    IN  /\ w # NoWrite
        /\ out' = Written(out, cl.pos, w.off, n)
        /\ cl' = [cl EXCEPT !.pending = NoWrite, !.pos = @ + n, !.broken = n < w.len]
        /\ UNCHANGED <<cfg, net, open>>

ReceiveData(m) ==
    /\ cl.pc = "recv"
    /\ m.type = "DATA"
    /\ OldData(m) \/ GapData(m) \/ NextData(m)

\* An ERROR, or any packet that is not DATA: a second OACK included.
ReceiveOther(m) ==
    /\ cl.pc = "recv"
    /\ m.type # "DATA"
    /\ Return(Received(net, ClientPort),
              IF m.type = "ERROR" THEN "remote" ELSE "protocol")
    /\ UNCHANGED <<cfg, out>>

\* The last ACK once more, while the budget lasts.
ReceiveTimeout ==
    /\ cl.pc = "recv"
    /\ \/ /\ cl.retries > 0
          /\ cl' = [cl EXCEPT !.retries = @ - 1]
          /\ net' = Sent(net, cl.server, Ack(ClientPort, cl.lastAcked))
          /\ UNCHANGED open
       \/ /\ cl.retries = 0
          /\ Return(net, "timeout")
    /\ UNCHANGED <<cfg, out>>

-----------------------------------------------------------------------------
ClientReceive ==
    /\ net[ClientPort] # <<>>
    /\ LET m == Head(net[ClientPort])
       IN  ReceiveReply(m) \/ ReceiveData(m) \/ ReceiveOther(m)

ClientStep == (SendRequest \/ NoAttempt \/ ClientReceive) /\ UNCHANGED room
ClientTimeout == (RequestTimeout \/ ReceiveTimeout) /\ UNCHANGED room
WriteDone == Land /\ UNCHANGED room
=============================================================================
