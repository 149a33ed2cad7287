------------------------------ MODULE TftpGet ------------------------------
(***************************************************************************)
(* A GET: one TftpClient::get, last-tftp's server, and the network between *)
(* them.  A timer may fire when nothing that could stop it is under way;   *)
(* one that fires earlier ("late" answers) counts as a fault.              *)
(***************************************************************************)
EXTENDS GetClient, ReadServer

CONSTANT OldLen   \* the length of the destination file before the transfer

ASSUME TftpGetAssumption == OldLen \in Nat

vars == <<cfg, room, cl, out, served, sess, net, open, faults>>

Init ==
    /\ ClientInit(OldLen)
    /\ ServerInit
    /\ NetInit

\* Session s has nothing to do but wait.
SessionIdle(s) ==
    sess[s].pc \notin {"spawned", "send"} /\ net[s] = <<>>

\* The client's timer is not early: no answer to it is under way or due.
ClientTimerDue ==
    /\ net[ClientPort] = <<>>
    /\ net[ListenPort] = <<>>
    /\ \A s \in Sessions : SessionIdle(s)

\* A session's timer is not early: its client will not send before its own
\* timer fires, if ever.
SessionTimerDue(s) ==
    /\ net[s] = <<>>
    /\ net[ClientPort] = <<>> \/ cl.pc = "backoff"

TimerFires(due) == IF due THEN UNCHANGED faults ELSE Fault("late")

Client == ClientStep /\ UNCHANGED <<serverVars, faults>>

ClientTimer ==
    ClientTimeout /\ TimerFires(ClientTimerDue) /\ UNCHANGED serverVars

Writer == WriteDone /\ UNCHANGED <<serverVars, faults>>

Session(s) == SessionStep(s) /\ UNCHANGED <<getVars, faults>>

SessionTimer(s) ==
    SessionTimeout(s) /\ TimerFires(SessionTimerDue(s)) /\ UNCHANGED getVars

Listener == \E s \in Sessions : Spawn(s) /\ UNCHANGED <<getVars, faults>>

Refused(s) == PeerGone(s) /\ UNCHANGED <<getVars, faults>>

Network == NetworkFault /\ UNCHANGED <<getVars, serverVars>>

Next ==
    \/ Client \/ ClientTimer \/ Writer
    \/ Listener
    \/ \E s \in Sessions : Session(s) \/ SessionTimer(s) \/ Refused(s)
    \/ Network

Spec == Init /\ [][Next]_vars

\* Tokio polls every task that can go on, its timers expire, and its blocking
\* threads get their work done.
Fairness ==
    /\ WF_vars(Client)
    /\ WF_vars(ClientTimer /\ UNCHANGED faults)
    /\ WF_vars(Writer)
    /\ WF_vars(Listener)
    /\ \A s \in Sessions :
          /\ WF_vars(Session(s))
          /\ WF_vars(SessionTimer(s) /\ UNCHANGED faults)

FairSpec == Spec /\ Fairness

-----------------------------------------------------------------------------
\* What the code of the two ends puts into a datagram.
GetPackets ==
    [type : {"RRQ"}, from : {ClientPort},
     options : [{"blksize", "timeout", "windowsize"} -> Nat]]
        \cup [type : {"OACK"}, from : Sessions,
              options : [{"blksize", "timeout", "tsize"} -> Nat]
                            \cup [OptionNames -> Nat]]
        \cup [type : {"DATA"}, from : Sessions, block : Blocks, off : Nat, len : Nat]
        \cup [type : {"ACK"}, from : {ClientPort}, block : Blocks]
        \cup [type : {"ERROR"}, from : Sessions]

\* Types: every variable stays in range and every datagram is a packet that its
\* sender's code builds.
TypeOK ==
    /\ cfg \in Configs /\ room \in Rooms /\ cl \in ClientStates /\ out \in Seq(Nat)
    /\ served \in ServedFiles /\ sess \in [Sessions -> SessionStates]
    /\ net \in [Ports -> Seq(GetPackets)]
    /\ open \subseteq Ports
    /\ faults \in 0..MaxFaults

-----------------------------------------------------------------------------
Source == SourceFile(served.len)

\* The file has fewer blocks than there are block numbers to count them with.
NoWrap == served.len < (BlockMod - 1) * Granted(RequestOptions(cfg, NoSize)).blksize

Status ==
    CASE cl.pc \in {"start", "await", "backoff"} -> "idle"
      [] cl.pc = "recv" -> "active"
      [] cl.pc = "ok" -> "ok"
      [] cl.pc \in ClientFailed -> "failed"

\* How much of the file write_all has been given (of a transfer from block 1).
Handed == Lesser((cl.expected - 1) * cl.blksize, served.len)

Copy == INSTANCE FileCopy WITH source <- Source, copy <- out,
                               due <- SubSeq(Source, Len(out) + 1, Handed),
                               status <- Status

\* get keeps the promise of FileCopy: the local file is truncated once, when the
\* server has answered, then grows by the right bytes at the right places; Ok means
\* that every block has been handed over and every one but the last is in the file,
\* and the last one is all that may still change it.
ImplementsFileCopy == Copy!Spec

\* The last write is still to be done, or has failed.
Unsettled == cl.pending # NoWrite \/ cl.broken

\* The first n bytes of the served file are in the local file; unless they end with
\* the block handed over last, as long as that is unsettled: then those before it.
Arrived(n) ==
    \/ IsPrefix(SourceFile(n), out)
    \/ /\ Unsettled /\ n = Handed
       /\ IsPrefix(SourceFile(AllButLast(n, cl.blksize)), out)

\* The transfers of which an ACK says how much of the file has arrived: all blocks
\* are transferred, and have numbers of their own.
Countable == cfg.resume = 0 /\ NoWrap

\* A session that is told that a block has arrived may forget it: this block has
\* been handed to the local file, and all blocks before it are written there.
AckedIsStored ==
    Countable =>
        \A s \in Sessions : \A i \in 1..Len(net[s]) :
            LET m == net[s][i]
            IN  m.type = "ACK" => Arrived(Lesser(m.block * cl.blksize, served.len))

\* The blocks a session waits for in a file of n bytes that ends in a full block: the
\* first one and the last one of every window, not the empty one at the end.
LastAwaited(n, neg) ==
    LET blocks == n \div neg.blksize
        window == Greater(neg.windowsize, 1)
    IN  Lesser(blocks, Greater((blocks \div window) * window, 1))

\* What the client has of the file when serve_read has returned Ok.  The whole file
\* if it ends in a short block, the last one perhaps unsettled.  If it ends in a full
\* block, serve_read takes any ACK for that of the empty block (server.rs:228), and
\* its Ok vouches only for the blocks it has waited for.
ServerOkMeansStored ==
    \A s \in Sessions :
        sess[s].pc = "ok" /\ Countable =>
            LET neg == sess[s].neg
            IN  Arrived(IF served.len % neg.blksize # 0 THEN served.len
                        ELSE LastAwaited(served.len, neg) * neg.blksize)

\* A session is never more than a window ahead of what the client has taken
\* (unless the block numbers wrapped).
AheadByAWindow ==
    \A s \in Sessions :
        sess[s].pc \in SessionRuns /\ NoWrap =>
            sess[s].rpos <= (cl.expected - 1 + Greater(sess[s].neg.windowsize, 1))
                               * sess[s].neg.blksize

\* A transfer always comes to an end at both sides: no exchange of timeouts and
\* repeated ACKs goes on for ever, no session waits for ever.
Terminates ==
    <>(/\ cl.pc \in ClientDone
       /\ \A s \in Sessions : sess[s].pc \in {"free"} \cup SessionDone)

\* Everyone waiting on everyone: the client's timer is running with nothing under
\* way in either direction, while a session waits for that client's ACK.  In
\* lockstep only a loss may bring this about.
NoStandOff ==
    cl.pc \in ClientWaits /\ ClientTimerDue =>
        \A s \in Sessions : sess[s].pc \notin SessionWaits

\* How the file and the disk decide the end of a GET.  A file that does not fit on
\* the disk is given up; unless it is only the last block that does not fit: then
\* get returns Ok, and the end of the file is missing.  A file the server does not
\* have is reported as missing, and the refused name, to which the server sends
\* nothing, is given up.
Decided ==
    CASE served.status = "file" ->
             IF AllButLast(served.len, cl.blksize) <= room
             THEN cl.pc = "ok" /\ out = SourceFile(Lesser(served.len, room))
             ELSE cl.pc = "io"
      [] served.status = "missing" -> cl.pc = "remote"
      [] served.status = "escape" -> cl.pc \in {"protocol", "timeout"}

\* Without losses and with answers in time every GET from the first block on ends as
\* the file and the disk decide.
EndsAsTheFileDecides == [](cfg.resume = 0) => <>[]Decided

-----------------------------------------------------------------------------
(* What the repository says of a GET and the code does not do. *)

\* client.rs:145 says the repeated ACK makes the server send the current block
\* again: a block lost once must not end the transfer.
LossIsRepaired == <>(cl.pc = "ok" /\ out = Source)

\* server.rs:282-284 lets block numbers wrap "naturally" because large files require
\* it, and README.md:69 makes --resume a full retransmission from block 1.  Of a
\* resumed GET of a file with more blocks than numbers, without any fault, one at
\* least should be true: it gets to the end of the file, or the local file is at
\* every moment a beginning of the served one.
ResumedLargeFileArrives ==
    <>(cl.pc = "ok") \/ [](cl.pc = "recv" => IsPrefix(out, Source))

\* protocol-notes.md:119-124 has the server send a whole window before it waits,
\* and the client acknowledge when the window is full: neither waits for the other
\* while nothing has been lost.
WindowFlows == NoStandOff
=============================================================================
