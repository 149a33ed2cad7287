------------------------------ MODULE TftpPut ------------------------------
(***************************************************************************)
(* A PUT: one TftpClient::put, last-tftp's server, and the network between *)
(* them.  Timers and faults are those of TftpGet.                          *)
(***************************************************************************)
EXTENDS PutClient, WriteServer

CONSTANT OldLen   \* the length of the remote file before the transfer

ASSUME TftpPutAssumption == OldLen \in Nat

vars == <<cfg, srcLen, cl, access, room, remote, sess, net, open, faults>>

Init ==
    /\ ClientInit
    /\ ServerInit(OldLen)
    /\ NetInit

\* Session s has nothing to do but wait.
SessionIdle(s) ==
    sess[s].pc \notin {"spawned", "create"} /\ net[s] = <<>>

ClientTimerDue ==
    /\ net[ClientPort] = <<>>
    /\ net[ListenPort] = <<>>
    /\ \A s \in Sessions : SessionIdle(s)

\* A session's timer is not early: its client is not about to send.  A client
\* that sleeps between two attempts sleeps as long as it waited, or longer.
SessionTimerDue(s) ==
    /\ net[s] = <<>>
    /\ \/ cl.pc \in {"backoff", "pause"}
       \/ cl.pc # "read" /\ net[ClientPort] = <<>>

TimerFires(due) == IF due THEN UNCHANGED faults ELSE Fault("late")

Client == ClientStep /\ UNCHANGED <<serverVars, faults>>

ClientTimer ==
    ClientTimeout /\ TimerFires(ClientTimerDue) /\ UNCHANGED serverVars

Session(s) == SessionStep(s) /\ UNCHANGED <<putVars, faults>>

SessionTimer(s) ==
    SessionTimeout(s) /\ TimerFires(SessionTimerDue(s)) /\ UNCHANGED putVars

Listener == \E s \in Sessions : Spawn(s) /\ UNCHANGED <<putVars, faults>>

\* The thread that writes for session s.
Writer(s) == Land(s) /\ UNCHANGED <<putVars, faults>>

Refused(s) == PeerGone(s) /\ UNCHANGED <<putVars, faults>>

Network == NetworkFault /\ UNCHANGED <<putVars, serverVars>>

Next ==
    \/ Client \/ ClientTimer
    \/ Listener
    \/ \E s \in Sessions : Session(s) \/ SessionTimer(s) \/ Refused(s) \/ Writer(s)
    \/ Network

Spec == Init /\ [][Next]_vars

Fairness ==
    /\ WF_vars(Client)
    /\ WF_vars(ClientTimer /\ UNCHANGED faults)
    /\ WF_vars(Listener)
    /\ \A s \in Sessions :
          /\ WF_vars(Session(s))
          /\ WF_vars(Writer(s))
          /\ WF_vars(SessionTimer(s) /\ UNCHANGED faults)

FairSpec == Spec /\ Fairness

-----------------------------------------------------------------------------
\* What the code of the two ends puts into a datagram.
PutPackets ==
    [type : {"WRQ"}, from : {ClientPort}, options : [OptionNames -> Nat]]
        \cup [type : {"OACK"}, from : Sessions,
              options : [{"blksize", "timeout"} -> Nat]
                            \cup [{"blksize", "timeout", "windowsize"} -> Nat]]
        \cup [type : {"DATA"}, from : {ClientPort},
              block : Blocks, off : Nat, len : Nat]
        \cup [type : {"ACK"}, from : Sessions, block : Blocks]
        \cup [type : {"ERROR"}, from : Sessions]

\* Types: every variable stays in range and every datagram is a packet that its
\* sender's code builds.
TypeOK ==
    /\ cfg \in Configs /\ srcLen \in FileLens /\ cl \in ClientStates
    /\ access \in Accesses /\ room \in Rooms /\ remote \in Seq(Nat)
    /\ sess \in [Sessions -> SessionStates]
    /\ net \in [Ports -> Seq(PutPackets)]
    /\ open \subseteq Ports
    /\ faults \in 0..MaxFaults

-----------------------------------------------------------------------------
Source == SourceFile(srcLen)

\* No request datagram was repeated: by with_retry, or by the network.
OneSession == \A s \in Sessions : s > 1 => sess[s].pc = "free"

\* The last write of the first session is still under way, or has failed.
Unsettled == sess[1].pending # NoWrite \/ sess[1].broken

\* The first n bytes of the local file are in the remote file, but for the last
\* block of them as long as it is unsettled.
Arrived(n) ==
    \/ IsPrefix(SourceFile(n), remote)
    \/ Unsettled /\ IsPrefix(SourceFile(AllButLast(n, sess[1].neg.blksize)), remote)

\* When put returns Ok the remote file is the local file, as long as the server
\* has seen one request only: a second one truncates the file under the first.
\* The last block alone may be missing: its write may be under way, and nobody
\* asks whether it has succeeded.  (For an empty file put returns Ok on the OACK,
\* which the server sends before it tries to create the file.)
OkMeansStored ==
    cl.pc = "ok" /\ OneSession /\ srcLen > 0 =>
        Arrived(srcLen) /\ IsPrefix(remote, Source)

\* A block is acknowledged only after it was handed to the file and all blocks
\* before it were written, and nothing is written but what belongs there: every
\* ACK on its way back stands for a correct beginning of the remote file.
AckedIsStored ==
    OneSession =>
        \A i \in 1..Len(net[ClientPort]) :
            LET m == net[ClientPort][i]
            IN  m.type = "ACK" =>
                    Arrived(Lesser(m.block * sess[1].neg.blksize, srcLen))

\* However many sessions a repeated request has started, each of them truncating
\* and writing the same file at its own pace: every byte in the file is the one
\* that belongs there, or a hole that a truncation has left.
NothingMisplaced ==
    (\E s \in Sessions : sess[s].pc = "recv") =>
        /\ Len(remote) <= srcLen
        /\ \A i \in 1..Len(remote) : remote[i] \in {i, 0}

\* The duplicate ACKs that repeated blocks bring about do not breed: there is
\* never more than one ACK more than faults under way to the client.
SurplusBounded ==
    Cardinality({i \in 1..Len(net[ClientPort]) : net[ClientPort][i].type = "ACK"})
        <= 1 + faults

\* README.md:96: a PUT may report a time-out although the file was written.  It
\* was, whenever serve_write has returned Ok, whatever the client made of it; but
\* for the last block, as above.
ServerOkMeansStored ==
    sess[1].pc = "ok" /\ OneSession => Arrived(srcLen) /\ IsPrefix(remote, Source)

\* A transfer always comes to an end at both sides.
Terminates ==
    <>(/\ cl.pc \in ClientDone
       /\ \A s \in Sessions : sess[s].pc \in {"free"} \cup SessionDone)

\* The file has fewer full blocks than there are block numbers.
NoWrap ==
    srcLen < (BlockMod - 1) * Granted(RequestOptions(cfg, srcLen)).blksize

\* How the server and the disk decide the end of a PUT.  A file that does not fit
\* on the disk is given up; unless it is only the last block that does not fit: then
\* put returns Ok, and the end of the file is missing.  (With an empty file put may
\* return Ok before the server's refusal arrives.)
Decided ==
    CASE cfg.retries = 0 -> cl.pc = "timeout"
      [] cfg.retries > 0 /\ access = "writable" ->
             IF AllButLast(srcLen, cl.blksize) <= room
             THEN cl.pc = "ok" /\ remote = SourceFile(Lesser(srcLen, room))
             ELSE cl.pc = "protocol"
      [] cfg.retries > 0 /\ access = "readonly" ->
             cl.pc = "remote" \/ (cl.pc = "ok" /\ srcLen = 0)
      [] cfg.retries > 0 /\ access = "disabled" -> cl.pc = "remote"
      [] cfg.retries > 0 /\ access = "escape" -> cl.pc = "protocol"

\* While nothing goes wrong on the way a PUT ends as the server and the disk
\* decide, if the block numbers suffice for its file.
EndsAsTheServerDecides == [](faults = 0 /\ NoWrap) => <>[]Decided

-----------------------------------------------------------------------------
(* What the repository says of a PUT and the code does not do. *)

\* DESIGN.md:161 lists a file of whole blocks and one of 4 GB among those that must
\* work, server.rs:372 lets block numbers wrap, and protocol-notes.md:38 ends every
\* transfer with a block shorter than blksize.  Of a file that is both, as many whole
\* blocks as there are numbers, at least one end should say without any fault that
\* the transfer has succeeded.
WholeBlocksArrive == <>(cl.pc = "ok" \/ \E s \in Sessions : sess[s].pc = "ok")
=============================================================================
