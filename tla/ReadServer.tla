----------------------------- MODULE ReadServer -----------------------------
(***************************************************************************)
(* The server side of a GET: the accept loop of `serve`, and the tasks it  *)
(* spawns, one per request received, each running handle_one and then      *)
(* serve_read on a socket of its own.                                      *)
(***************************************************************************)
EXTENDS Options, Network, Packets, Files

CONSTANT ServedFiles   \* the requested file: whether it can be had, its length

FileStates == [status : {"file", "missing", "escape"}, len : Nat]

ASSUME ReadServerAssumption == ServedFiles \subseteq FileStates

VARIABLES
    served,   \* the requested file (constant)
    sess      \* sess[s]: the locals of serve_read in session s

serverVars == <<served, sess>>

\* "spawned" before the first step of the task, "send" at the top of the send
\* loop, the others inside wait_for: for the ACK of a full block ("wait"), of a
\* short one ("waitLast"), of the empty block that ends a file of whole blocks
\* ("waitEof") and of the only block of an empty file ("waitEmpty").  The task
\* has returned Ok after a transfer in "ok", Ok without one in "denied", an
\* error in "failed".
SessionWaits == {"wait", "waitLast", "waitEof", "waitEmpty"}
SessionDone == {"ok", "denied", "failed"}
SessionRuns == {"send"} \cup SessionWaits

SessionStates ==
    [pc    : {"free", "spawned"} \cup SessionRuns \cup SessionDone,
     neg   : Negotiations,
     block : Blocks,     \* block, a u16
     rpos  : Nat]        \* the read position in the file

ServerInit ==
    /\ served \in ServedFiles
    /\ sess = [s \in Sessions |->
                  [pc |-> "free", neg |-> defaults, block |-> 1, rpos |-> 0]]

\* Session s ends and drops its socket; q is the network it leaves.
EndSession(q, s, result) ==
    /\ sess' = [sess EXCEPT ![s].pc = result]
    /\ net' = Closed(q, s)
    /\ open' = open \ {s}
    /\ UNCHANGED served

\* serve: every request datagram spawns a task, a repeated one too.
Spawn(s) ==
    /\ net[ListenPort] # <<>>
    /\ sess[s].pc = "free"
    /\ \A t \in 1..(s - 1) : sess[t].pc # "free"
    /\ LET m == Head(net[ListenPort])
       IN  /\ m.type = "RRQ"
           /\ sess' = [sess EXCEPT ![s].pc = "spawned",
                                   ![s].neg = Granted(m.options)]
    /\ net' = Received(net, ListenPort)
    /\ UNCHANGED <<served, open>>

\* handle_one: sanitize_path refuses the name; the client is told nothing.
RefusePath(s) ==
    /\ sess[s].pc = "spawned"
    /\ served.status = "escape"
    /\ EndSession(net, s, "failed")

\* serve_read: the file cannot be opened.
RefuseFile(s) ==
    /\ sess[s].pc = "spawned"
    /\ served.status = "missing"
    /\ EndSession(Sent(net, ClientPort, Error(s)), s, "denied")

SendOack(s) ==
    /\ sess[s].pc = "spawned"
    /\ served.status = "file"
    /\ sess' = [sess EXCEPT ![s].pc = "send"]
    /\ net' = Sent(net, ClientPort,
                   Oack(s, OackOptions(sess[s].neg, served.len)))
    /\ open' = open \cup {s}
    /\ UNCHANGED served

-----------------------------------------------------------------------------
(* The send loop.  The first DATA goes out without an ACK of the OACK.     *)

\* Session s sends n bytes from its read position, and goes on in state pc
\* with block number b.
SendBlock(s, n, pc, b) ==
    /\ net' = Sent(net, ClientPort, Data(s, sess[s].block, sess[s].rpos, n))
    /\ sess' = [sess EXCEPT ![s].pc = pc, ![s].block = b, ![s].rpos = @ + n]
    /\ UNCHANGED <<served, open>>

\* Mutant of NextBlock: a counter wider than a u16.
NextWideBlock(b) == b + 1

NextBlock(b) == (b + 1) % BlockMod

\* Mutant of WaitsAfter: only the last block is waited for.
WaitsAfterLast(b, window, short) == short

\* The end of a window, the last block, the first block.  The wait for block 0,
\* the number after the greatest, is over at once.
WaitsAfter(b, window, short) == (b % window = 0 \/ short \/ b = 1) /\ b > 0

SendData(s) ==
    LET b == sess[s].block
        n == Lesser(sess[s].neg.blksize, served.len - sess[s].rpos)
        short == n < sess[s].neg.blksize
        waits == WaitsAfter(b, Greater(sess[s].neg.windowsize, 1), short)
    IN  /\ sess[s].pc = "send"
        /\ sess[s].rpos < served.len
        /\ \/ waits /\ SendBlock(s, n, IF short THEN "waitLast" ELSE "wait", b)
           \/ ~waits /\ ~short /\ SendBlock(s, n, "send", NextBlock(b))
           \/ /\ ~waits /\ short
              /\ EndSession(Sent(net, ClientPort,
                                 Data(s, b, sess[s].rpos, n)), s, "ok")

\* The file is read to its end and its last block was a full one, or it is empty.
SendEmptyBlock(s) ==
    /\ sess[s].pc = "send"
    /\ sess[s].rpos = served.len
    /\ SendBlock(s, 0, IF served.len = 0 THEN "waitEmpty" ELSE "waitEof",
                 sess[s].block)

\* Mutant of Covers: any ACK will do.
AnyAck(m, b) == m.type = "ACK"

\* Mutant of Covers: off by one.
Exceeds(m, b) == m.block > b

\* The ACK says that block b has arrived.
Covers(m, b) == m.block >= b

\* wait_for hands serve_read ACKs and ERRORs and skips the rest.  The two waits
\* for an empty block's ACK accept any ACK.
TakeAck(s, m) ==
    /\ sess[s].pc \in SessionWaits
    /\ m.type \in {"ACK", "ERROR"}
    /\ LET q == Received(net, s)
           b == sess[s].block
           anyAck == sess[s].pc \in {"waitEof", "waitEmpty"}
       IN  \/ /\ anyAck
              /\ EndSession(q, s, "ok")
           \/ /\ ~anyAck
              /\ \/ m.type = "ERROR"
                 \/ Covers(m, b) /\ sess[s].pc = "waitLast"
              /\ EndSession(q, s, IF m.type = "ERROR" THEN "failed" ELSE "ok")
           \/ /\ sess[s].pc = "wait"
              /\ m.type = "ACK" /\ Covers(m, b)
              /\ net' = q
              /\ sess' = [sess EXCEPT ![s].pc = "send", ![s].block = NextBlock(b)]
              /\ UNCHANGED <<served, open>>
           \* A stale ACK: nothing is sent again.
           \/ /\ ~anyAck
              /\ m.type = "ACK" /\ ~Covers(m, b)
              /\ net' = q
              /\ UNCHANGED <<served, sess, open>>

\* Mutant of SessionTimeout: the waits for an empty block's ACK have no deadline.
TimeoutOfDataOnly(s) ==
    /\ sess[s].pc \in {"wait", "waitLast"}
    /\ EndSession(net, s, "failed")

SessionTimeout(s) ==
    \/ /\ sess[s].pc \in SessionWaits \ {"waitEmpty"}
       /\ EndSession(net, s, "failed")
    \/ /\ sess[s].pc = "waitEmpty"
       /\ EndSession(net, s, "ok")

\* The socket is connected: a datagram sent to a client that has closed its own
\* may come back as an I/O error of the next send or receive.
PeerGone(s) ==
    /\ ClientPort \notin open
    /\ sess[s].pc \in SessionRuns
    /\ EndSession(net, s, IF sess[s].pc = "waitEmpty" THEN "ok" ELSE "failed")

-----------------------------------------------------------------------------
SessionStep(s) ==
    \/ RefusePath(s) \/ RefuseFile(s) \/ SendOack(s)
    \/ SendData(s) \/ SendEmptyBlock(s)
    \/ net[s] # <<>> /\ TakeAck(s, Head(net[s]))
=============================================================================
