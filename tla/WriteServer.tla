---------------------------- MODULE WriteServer ----------------------------
(***************************************************************************)
(* The server side of a PUT: the accept loop of `serve`, and the tasks it  *)
(* spawns, one per request received, each running handle_one and then      *)
(* serve_write.  Every task opens the same file on its own: File::create   *)
(* truncates it for all of them, and each writes at a position of its own. *)
(* write_all of a tokio File hands the bytes to another thread and returns *)
(* before they are written; the next write waits for them, and it is the   *)
(* one that gets their error.                                              *)
(***************************************************************************)
EXTENDS Options, Network, Packets, Files

\* How the file the request names can be had: written, not opened for writing
\* ("readonly"), not at all because allow_write is off ("disabled"), or under a
\* name that sanitize_path refuses ("escape").
CONSTANTS
    Accesses,
    Rooms      \* the lengths a file may reach before the disk is full

ASSUME WriteServerAssumption ==
    /\ Accesses \subseteq {"writable", "readonly", "disabled", "escape"}
    /\ Rooms \subseteq Nat

VARIABLES
    access,   \* a member of Accesses (constant)
    room,     \* a member of Rooms (constant)
    remote,   \* the contents of the remote file
    sess      \* sess[s]: the locals of serve_write in session s

disk == <<access, room>>
serverVars == <<disk, remote, sess>>

\* "spawned" before the first step of the task, "create" after the OACK, "recv"
\* inside wait_for; the outcomes as in ReadServer.
SessionDone == {"ok", "denied", "failed"}

SessionStates ==
    [pc       : {"free", "spawned", "create", "recv"} \cup SessionDone,
     neg      : Negotiations,
     expected : Blocks,    \* expected_block, a u16
     wpos     : Nat,       \* the write position in the file
     pending  : Writes,    \* the write that another thread has still to do
     broken   : BOOLEAN]   \* the last write done has failed

ServerInit(oldLen) ==
    /\ access \in Accesses
    /\ room \in Rooms
    /\ remote = OldFile(oldLen)
    /\ sess = [s \in Sessions |->
                  [pc |-> "free", neg |-> defaults, expected |-> 1, wpos |-> 0,
                   pending |-> NoWrite, broken |-> FALSE]]

\* Session s ends and drops its socket; q is the network it leaves.
EndSession(q, s, result) ==
    /\ sess' = [sess EXCEPT ![s].pc = result]
    /\ net' = Closed(q, s)
    /\ open' = open \ {s}

\* serve: every request datagram spawns a task, a repeated one too.
Spawn(s) ==
    /\ net[ListenPort] # <<>>
    /\ sess[s].pc = "free"
    /\ \A t \in 1..(s - 1) : sess[t].pc # "free"
    /\ LET m == Head(net[ListenPort])
       IN  /\ m.type = "WRQ"
           /\ sess' = [sess EXCEPT ![s].pc = "spawned",
                                   ![s].neg = Granted(m.options)]
    /\ net' = Received(net, ListenPort)
    /\ UNCHANGED <<disk, remote, open>>

\* handle_one: writes are disabled, which the client is told, or the name is
\* refused, which it is not.
RefuseRequest(s) ==
    /\ sess[s].pc = "spawned"
    /\ \/ /\ access = "disabled"
          /\ EndSession(Sent(net, ClientPort, Error(s)), s, "denied")
       \/ /\ access = "escape"
          /\ EndSession(net, s, "failed")
    /\ UNCHANGED <<disk, remote>>

\* The OACK goes out before the file is opened.
SendOack(s) ==
    /\ sess[s].pc = "spawned"
    /\ access \in {"writable", "readonly"}
    /\ sess' = [sess EXCEPT ![s].pc = "create"]
    /\ net' = Sent(net, ClientPort, Oack(s, OackOptions(sess[s].neg, NoSize)))
    /\ open' = open \cup {s}
    /\ UNCHANGED <<disk, remote>>

CreateFile(s) ==
    /\ sess[s].pc = "create"
    /\ \/ /\ access = "writable"
          /\ sess' = [sess EXCEPT ![s].pc = "recv"]
          /\ remote' = <<>>
          /\ UNCHANGED <<net, open>>
       \/ /\ access = "readonly"
          /\ EndSession(Sent(net, ClientPort, Error(s)), s, "denied")
          /\ UNCHANGED remote
    /\ UNCHANGED disk

-----------------------------------------------------------------------------
\* Mutant of IsExpected: an earlier block passes.
IsNotLater(s, m) == m.block <= sess[s].expected

IsExpected(s, m) == m.block = sess[s].expected

\* Mutant of IsLast: off by one.
IsNotLonger(s, m) == m.len <= sess[s].neg.blksize

\* A block that ends the transfer.
IsLast(s, m) == m.len < sess[s].neg.blksize

\* Mutant of NextBlock: a counter wider than a u16.
NextWideBlock(b) == b + 1

NextBlock(b) == (b + 1) % BlockMod

\* Mutant of RepeatAck: no `continue`, the block that came is acknowledged too.
AckBoth(s, m) ==
    /\ ~IsExpected(s, m)
    /\ net' = Sent(Sent(Received(net, s), ClientPort,
                        Ack(s, (sess[s].expected - 1) % BlockMod)),
                   ClientPort, Ack(s, m.block))
    /\ UNCHANGED <<sess, open, remote>>

\* A block other than the expected one: the last ACK again.
RepeatAck(s, m) ==
    /\ ~IsExpected(s, m)
    /\ net' = Sent(Received(net, s), ClientPort,
                   Ack(s, (sess[s].expected - 1) % BlockMod))
    /\ UNCHANGED <<sess, open, remote>>

\* The expected block: written behind an earlier one that is done, and
\* acknowledged; or the earlier one has failed, which ends the transfer without a
\* word to the client.  (Nothing is written of an empty block.)
TakeBlock(s, m) ==
    /\ IsExpected(s, m)
    /\ m.len > 0 => sess[s].pending = NoWrite
    /\ LET q == Received(net, s)
           write == IF m.len > 0 THEN [off |-> m.off, len |-> m.len]
                    ELSE sess[s].pending
       IN  \/ /\ sess[s].broken /\ m.len > 0
              /\ EndSession(q, s, "failed")
           \/ /\ ~(sess[s].broken /\ m.len > 0)
              /\ sess' = [sess EXCEPT
                    ![s].pending = write,
                    ![s].pc = IF IsLast(s, m) THEN "ok" ELSE @,
                    ![s].expected = IF IsLast(s, m) THEN @ ELSE NextBlock(@)]
              /\ LET r == Sent(q, ClientPort, Ack(s, m.block))
                 IN  net' = IF IsLast(s, m) THEN Closed(r, s) ELSE r
              /\ open' = IF IsLast(s, m) THEN open \ {s} ELSE open
    /\ UNCHANGED remote

\* Mutant of Land: a write that does not fit is taken for done.
LandUnnoticed(s) ==
    LET w == sess[s].pending
        n == Lesser(w.len, Greater(0, room - sess[s].wpos))
    IN  /\ w # NoWrite
        /\ remote' = Written(remote, sess[s].wpos, w.off, n)
        /\ sess' = [sess EXCEPT ![s].pending = NoWrite, ![s].wpos = @ + n]
        /\ UNCHANGED <<disk, net, open>>

\* The pending write is done, even after the session has ended; what does not fit
\* on the disk is cut off.
Land(s) ==
    LET w == sess[s].pending
        n == Lesser(w.len, Greater(0, room - sess[s].wpos))
    IN  /\ w # NoWrite
        /\ remote' = Written(remote, sess[s].wpos, w.off, n)
        /\ sess' = [sess EXCEPT ![s].pending = NoWrite, ![s].wpos = @ + n,
                                ![s].broken = n < w.len]
        /\ UNCHANGED <<disk, net, open>>

TakeData(s, m) ==
    /\ sess[s].pc = "recv"
    /\ m.type = "DATA"
    /\ RepeatAck(s, m) \/ TakeBlock(s, m)
    /\ UNCHANGED disk

SessionTimeout(s) ==
    /\ sess[s].pc = "recv"
    /\ EndSession(net, s, "failed")
    /\ UNCHANGED <<disk, remote>>

\* The socket is connected: a datagram sent to a client that has closed its own
\* may come back as an I/O error of the next receive.
PeerGone(s) ==
    /\ ClientPort \notin open
    /\ sess[s].pc = "recv"
    /\ EndSession(net, s, "failed")
    /\ UNCHANGED <<disk, remote>>

-----------------------------------------------------------------------------
SessionStep(s) ==
    \/ RefuseRequest(s) \/ SendOack(s) \/ CreateFile(s)
    \/ net[s] # <<>> /\ TakeData(s, Head(net[s]))
=============================================================================
