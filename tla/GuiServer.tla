----------------------------- MODULE GuiServer -----------------------------
(***************************************************************************)
(* The threads behind the GUI's Start and Stop buttons.  Every Start makes *)
(* a server thread with a tokio runtime, a stop flag and channels of its   *)
(* own; the thread runs run_server_with_observer, which spawns one task    *)
(* per request.  A transfer itself is handle_one: it reports progress some *)
(* times and then ends (see TftpGet and TftpPut).                          *)
(***************************************************************************)
EXTENDS Integers, SequencesExt

CONSTANTS
    MaxStarts,     \* how often Start may be pressed (a bound)
    MaxTransfers,  \* how many datagrams and client transfers there may be (a bound)
    MaxReports,    \* the greatest number of progress reports of a transfer
    Origins,       \* what a request comes with: the peer and the file name
    Ports          \* the UDP ports the user may enter before Start

ASSUME GuiServerAssumption ==
    /\ MaxStarts \in Nat /\ MaxTransfers \in Nat /\ MaxReports \in Nat \ {0}
    /\ Ports \subseteq 1..65535

VARIABLES
    srv,       \* srv[g]: the thread of the g-th Start
    holder,    \* holder[p]: the thread that has UDP port p, or Nobody
    arrivals,  \* the datagrams that have arrived: for each the thread at whose
               \* socket it waits, or Nobody once it is taken or lost
    tasks,     \* the tasks spawned so far, in order
    attached,  \* the thread whose channels the app reads: the last one started
    lines,     \* what waits in server_status_rx
    events,    \* what waits in server_transfer_rx
    progress   \* what waits in server_progress_rx

channels == <<attached, lines, events, progress>>
serverVars == <<srv, holder, arrivals, tasks, channels>>

Servers == 1..MaxStarts
Nobody == 0

\* "probe" before the first bind, "probed" while the probe socket is open,
\* "bind" after it is dropped; "check" and "recv" in run_server_with_observer,
\* "closing" when it has returned and the runtime is still there.
ServerPcs == {"unborn", "probe", "probed", "bind", "check", "recv", "closing", "ended"}

\* What the thread says of itself: the probe failed, the probe succeeded, the
\* server has returned an error.
StatusLines == {"bind failed", "listening", "server stopped"}

TransferEvents ==
    [done : BOOLEAN, origin : Origins, bytes : 0..MaxReports, task : 1..MaxTransfers]

ServerOK ==
    /\ srv \in [Servers -> [pc : ServerPcs, port : Ports \cup {Nobody}, stop : BOOLEAN,
                            late : Nat]]
    /\ holder \in [Ports -> Servers \cup {Nobody}]
    /\ arrivals \in Seq(Servers \cup {Nobody})
    /\ Len(arrivals) <= MaxTransfers
    /\ tasks \in Seq([server : Servers, origin : Origins, sent : 0..MaxReports,
                      pc : {"run", "ended", "cancelled"}])
    /\ attached \in 0..MaxStarts
    /\ lines \in Seq(StatusLines)
    /\ events \in Seq(TransferEvents)
    /\ progress \in Seq(1..MaxReports)

\* `late` counts the datagrams taken with the stop flag set, and `task` in an
\* event is the number of its task: no code reads either.
ServerInit ==
    /\ srv = [g \in Servers |->
                [pc |-> "unborn", port |-> Nobody, stop |-> FALSE, late |-> 0]]
    /\ holder = [p \in Ports |-> Nobody]
    /\ arrivals = <<>>
    /\ tasks = <<>>
    /\ attached = 0
    /\ lines = <<>>
    /\ events = <<>>
    /\ progress = <<>>

GoTo(g, pc) == srv' = [srv EXCEPT ![g].pc = pc]

\* Queue q after thread g sends e: nothing is left of the channels of an earlier
\* Start, and what is sent to them goes nowhere.
SentBy(g, q, e) == IF g = attached THEN Append(q, e) ELSE q

-----------------------------------------------------------------------------
(* The thread: start_server's closure *)

Say(g, line) == lines' = SentBy(g, lines, line)

Take(g) ==
    /\ holder[srv[g].port] = Nobody
    /\ holder' = [holder EXCEPT ![srv[g].port] = g]

GiveBack(g) == holder' = [holder EXCEPT ![srv[g].port] = Nobody]

\* A bind fails if another thread has the port, and it may fail because another
\* program has it.
TryBind(g, next, complaint) ==
    /\ \/ Take(g) /\ GoTo(g, next) /\ UNCHANGED lines
       \/ UNCHANGED holder /\ GoTo(g, "ended") /\ Say(g, complaint)
    /\ UNCHANGED <<arrivals, tasks, attached, events, progress>>

\* The first bind is only a test, so that the status can say "listening".
Probe(g) == srv[g].pc = "probe" /\ TryBind(g, "probed", "bind failed")

DropProbe(g) ==
    /\ srv[g].pc = "probed"
    /\ GiveBack(g)
    /\ GoTo(g, "bind")
    /\ Say(g, "listening")
    /\ UNCHANGED <<arrivals, tasks, attached, events, progress>>

\* Mutant of Bind: the result of run_server_with_observer is not looked at.
BindQuietly(g) ==
    /\ srv[g].pc = "bind"
    /\ \/ Take(g) /\ GoTo(g, "check")
       \/ UNCHANGED holder /\ GoTo(g, "ended")
    /\ UNCHANGED <<arrivals, tasks, channels>>

\* run_server_with_observer binds again.
Bind(g) == srv[g].pc = "bind" /\ TryBind(g, "check", "server stopped")

\* run_server_with_observer returns: its socket is closed, with what waits there.
Leave(g) ==
    /\ GiveBack(g)
    /\ arrivals' = [i \in DOMAIN arrivals |->
                        IF arrivals[i] = g THEN Nobody ELSE arrivals[i]]
    /\ GoTo(g, "closing")
    /\ UNCHANGED <<tasks, attached, events, progress>>

\* Mutant of CheckStop: the flag is never looked at.
CheckNothing(g) ==
    /\ srv[g].pc = "check"
    /\ GoTo(g, "recv")
    /\ UNCHANGED <<holder, arrivals, tasks, channels>>

\* The stop flag is looked at here only, not while recv_from waits.
CheckStop(g) ==
    /\ srv[g].pc = "check"
    /\ \/ srv[g].stop /\ Leave(g) /\ UNCHANGED lines
       \/ /\ ~srv[g].stop
          /\ GoTo(g, "recv")
          /\ UNCHANGED <<holder, arrivals, tasks, channels>>

\* What arrived is a request, whose transfer is reported and spawned, or it is
\* not, and passed over.
Receive(g) ==
    /\ srv[g].pc = "recv"
    /\ LET i == SelectInSeq(arrivals, LAMBDA h : h = g)
       IN  i # 0 /\ arrivals' = [arrivals EXCEPT ![i] = Nobody]
    /\ srv' = [srv EXCEPT ![g].pc = "check",
                          ![g].late = IF srv[g].stop THEN @ + 1 ELSE @]
    /\ \/ \E o \in Origins :
             /\ tasks' = Append(tasks, [server |-> g, origin |-> o, sent |-> 0,
                                        pc |-> "run"])
             /\ events' = SentBy(g, events,
                    [done |-> FALSE, origin |-> o, bytes |-> 0, task |-> Len(tasks')])
       \/ UNCHANGED <<tasks, events>>
    /\ UNCHANGED <<holder, attached, lines, progress>>

\* recv_from fails: unlike core's serve, the GUI's server gives up.
ReceiveFails(g) ==
    /\ srv[g].pc = "recv"
    /\ Leave(g)
    /\ Say(g, "server stopped")

\* The runtime is dropped, and with it every task that has not ended.
DropRuntime(g) ==
    /\ srv[g].pc = "closing"
    /\ GoTo(g, "ended")
    /\ tasks' = [k \in DOMAIN tasks |->
                    IF tasks[k].server = g /\ tasks[k].pc = "run"
                    THEN [tasks[k] EXCEPT !.pc = "cancelled"] ELSE tasks[k]]
    /\ UNCHANGED <<holder, arrivals, channels>>

Thread(g) ==
    \/ Probe(g) \/ DropProbe(g) \/ Bind(g)
    \/ CheckStop(g) \/ Receive(g)
    \/ DropRuntime(g)

-----------------------------------------------------------------------------
(* The tasks: handle_one with a progress channel, then the closing event. *)

Report(k) ==
    /\ tasks[k].pc = "run"
    /\ tasks[k].sent < MaxReports
    /\ tasks' = [tasks EXCEPT ![k].sent = @ + 1]
    /\ progress' = SentBy(tasks[k].server, progress, tasks[k].sent + 1)
    /\ UNCHANGED <<srv, holder, arrivals, attached, lines, events>>

\* Mutant of EndTask: an error is returned before the closing event is sent.
EndTaskSilently(k) ==
    /\ tasks[k].pc = "run"
    /\ tasks' = [tasks EXCEPT ![k].pc = "ended"]
    /\ \/ UNCHANGED events
       \/ events' = SentBy(tasks[k].server, events,
              [done |-> TRUE, origin |-> tasks[k].origin, bytes |-> tasks[k].sent,
               task |-> k])
    /\ UNCHANGED <<srv, holder, arrivals, attached, lines, progress>>

\* Ok with what was transferred, or an error, which counts no bytes.
EndTask(k) ==
    /\ tasks[k].pc = "run"
    /\ tasks' = [tasks EXCEPT ![k].pc = "ended"]
    /\ \E bytes \in {0, tasks[k].sent} :
          events' = SentBy(tasks[k].server, events,
              [done |-> TRUE, origin |-> tasks[k].origin, bytes |-> bytes, task |-> k])
    /\ UNCHANGED <<srv, holder, arrivals, attached, lines, progress>>

Task(k) == Report(k) \/ EndTask(k)

-----------------------------------------------------------------------------
\* Datagrams reach a socket that is open.  (What reaches the test socket is lost
\* with it, as if it had never arrived.)
Arrive ==
    /\ \E g \in Servers :
          /\ srv[g].pc \in {"check", "recv"}
          /\ arrivals' = Append(arrivals, g)
    /\ UNCHANGED <<srv, holder, tasks, channels>>
=============================================================================
