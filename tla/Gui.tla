-------------------------------- MODULE Gui --------------------------------
(***************************************************************************)
(* The GUI as a whole: the UI thread's frames and buttons, the server      *)
(* threads that Start makes, and the client transfers.                     *)
(***************************************************************************)
EXTENDS GuiRows

CONSTANTS
    UsualPort,  \* the port that is entered when the app starts
    MaxInputs   \* a bound on all that Inputs counts

ASSUME GuiAssumption == UsualPort \in Ports /\ MaxInputs \in Nat

VARIABLES
    running,     \* server.running: which of Start and Stop the button is
    server_stop  \* the thread whose stop flag the app holds, or 0

appVars == <<running, server_stop>>
vars == <<rowVars, serverVars, appVars>>

TypeOK ==
    /\ ServerOK /\ RowsOK
    /\ running \in BOOLEAN
    /\ server_stop \in 0..MaxStarts

Init ==
    /\ ServerInit /\ RowsInit
    /\ running = FALSE
    /\ server_stop = 0

\* start_server, after the user may have changed the port: the channels of an
\* earlier thread are dropped.
Start(g, p) ==
    /\ ~running
    /\ srv[g].pc = "unborn"
    /\ \A h \in 1..(g - 1) : srv[h].pc # "unborn"
    /\ srv' = [srv EXCEPT ![g].pc = "probe", ![g].port = p]
    /\ attached' = g
    /\ lines' = <<>> /\ events' = <<>> /\ progress' = <<>>
    /\ said' = "starting"
    /\ running' = TRUE
    /\ server_stop' = g
    /\ UNCHANGED <<holder, arrivals, tasks, transfers, next_id, clients, messages>>

\* The button says running = FALSE at once; the thread looks at its flag later.
Stop ==
    /\ running
    /\ srv' = [srv EXCEPT ![server_stop].stop = TRUE]
    /\ running' = FALSE
    /\ server_stop' = 0
    /\ said' = "stop requested"
    /\ UNCHANGED <<holder, arrivals, tasks, channels, transfers, next_id, clients, messages>>

\* The bound on datagrams and client transfers together.
OneMore == Len(arrivals) + Len(clients) < MaxTransfers

\* What has come in: clicks on Start, ports entered, datagrams, client transfers and
\* reports of progress.
Inputs ==
    LET born == {g \in Servers : srv[g].pc # "unborn"}
    IN  Cardinality(born) + Cardinality({g \in born : srv[g].port # UsualPort})
            + Len(arrivals) + Len(clients)
            + FoldLeft(LAMBDA n, t : n + t.sent, 0, tasks)

WithinBound == Inputs' <= MaxInputs

NoClick ==
    UNCHANGED <<transfers, next_id, clients, messages, said, serverVars, appVars>>

\* poll_messages is over; in the rest of the frame the user may click a button.
Frame ==
    /\ phase = "messages"
    /\ messages = <<>>
    /\ phase' = "status"
    /\ \/ \E g \in Servers, p \in Ports : Start(g, p)
       \/ Stop
       \/ /\ \/ OneMore /\ StartTransfer
             \/ \E i \in DOMAIN transfers : RemoveRow(i)
          /\ UNCHANGED appVars
       \/ NoClick

UI ==
    \/ (PollStatus \/ PollEvents \/ PollProgress \/ PollMessages) /\ UNCHANGED appVars
    \/ Frame /\ WithinBound

ServerThread(g) == Thread(g) /\ UNCHANGED <<rowVars, appVars>>

GiveUp(g) == ReceiveFails(g) /\ UNCHANGED <<rowVars, appVars>>

ServerTask(k) ==
    k \in DOMAIN tasks /\ Task(k) /\ UNCHANGED <<rowVars, appVars>> /\ WithinBound

Client(c) == c \in DOMAIN clients /\ ClientEnds(c) /\ UNCHANGED appVars

Next ==
    \/ UI
    \/ \E g \in Servers : ServerThread(g) \/ GiveUp(g)
    \/ \E k \in 1..MaxTransfers : ServerTask(k) \/ Client(k)
    \/ OneMore /\ Arrive /\ UNCHANGED <<rowVars, appVars>> /\ WithinBound

Spec == Init /\ [][Next]_vars

\* The window is redrawn every 200 ms, threads and tasks are scheduled, and a
\* transfer ends (Terminates of TftpGet and TftpPut).
Fairness ==
    /\ WF_vars(UI)
    /\ \A g \in Servers : WF_vars(ServerThread(g))
    /\ \A k \in 1..MaxTransfers : WF_vars(ServerTask(k)) /\ WF_vars(Client(k))

FairSpec == Spec /\ Fairness

-----------------------------------------------------------------------------
Attached(k) == tasks[k].server = attached

\* The tasks of the running server whose start the table has taken in, and whose
\* end it has not.
Unfinished(o) ==
    LET polled(k, d) ==
            ~\E i \in DOMAIN events : events[i].task = k /\ events[i].done = d
    IN  {k \in DOMAIN tasks :
            /\ Attached(k) /\ tasks[k].origin = o
            /\ polled(k, FALSE)
            /\ ~(tasks[k].pc = "ended" /\ polled(k, TRUE))}

RowsOpen(o) ==
    {i \in DOMAIN transfers :
        /\ OpenRow(transfers[i]) /\ transfers[i].origin = o
        /\ Attached(transfers[i].task)}

\* No other peer and file are found in the target made from `o`: rows of `o` are
\* closed by the ends of its own tasks only.
ClosedByOwn(o) == \A p \in Origins \ {o} : <<p, o>> \notin Inside

\* `o` is found in no other target: the ends of its tasks close its own rows only.
ClosesOwn(o) == \A p \in Origins \ {o} : <<o, p>> \notin Inside

\* Nothing but names ties an event to its row.  For each peer and file the running
\* server has at least as many unfinished rows as unfinished tasks if no other
\* names are found in theirs, and at most as many if theirs are found in no others:
\* even when requests are repeated, and when rows of an earlier server, whose tasks
\* nobody heard of again, are still there.
OneRowPerTask ==
    \A o \in Origins :
        LET rows == Cardinality(RowsOpen(o))
            unfinished == Cardinality(Unfinished(o))
        IN  /\ ClosedByOwn(o) => rows >= unfinished
            /\ ClosesOwn(o) => rows <= unfinished

\* A stopped server takes at most one more datagram: the one its recv_from was
\* waiting for.
OneDatagramAfterStop == \A g \in Servers : srv[g].late <= 1

\* A finished row does not change any more, whatever reports are still on their
\* way, and no row disappears unfinished.
RowsOnlyAdvance ==
    [][\A i \in DOMAIN transfers :
          LET t == transfers[i]
              later == {u \in Range(transfers') : u.id = t.id}
          IN  /\ later = {} => t.done
              /\ t.done => later \subseteq {t}]_vars

\* The tasks that were dropped with the runtime of their server.
Cancelled(o) ==
    {k \in DOMAIN tasks :
        /\ Attached(k) /\ tasks[k].origin = o
        /\ tasks[k].pc = "cancelled"}

\* What the table comes to show: the row of every client transfer is finished, and
\* of the rows of the server started last, for each peer and file found in no other
\* target, none is left unfinished but one for each task that was dropped with its
\* server without a word; these are all left so, if no other names are found in
\* theirs.  (A row whose names are found in another's target may stay unfinished
\* beside them: the end of its task closes the newest row that fits.)
RowsFinish ==
    <>[](/\ \A t \in Range(transfers) : IsServerRow(t) \/ t.done
         /\ \A o \in Origins :
               LET rows == Cardinality(RowsOpen(o))
                   cancelled == Cardinality(Cancelled(o))
               IN  /\ ClosesOwn(o) => rows <= cancelled
                   /\ ClosedByOwn(o) => rows >= cancelled)

\* In the end a stopped server is gone, unless it still waits for that datagram.
StoppedServersLeave ==
    <>[](\A g \in Servers :
            srv[g].stop =>
                \/ srv[g].pc = "ended"
                \/ srv[g].pc = "recv" /\ g \notin Range(arrivals) /\ srv[g].late = 0)

\* The button and the status bar only know `running`, which Start sets whatever
\* becomes of the two binds.  The log knows better: as long as the button says
\* Stop, its last line about the server comes to say that the server is listening
\* if and only if it is, even if the port was lost between the two binds or was
\* still held by the thread of an earlier Start.
LogTellsTheTruth ==
    <>[](running => (said = "listening" <=> srv[attached].pc \in {"check", "recv"}))

-----------------------------------------------------------------------------
(* What the repository says of the GUI and the code does not do. *)

\* gui.rs:459 says a progress event updates the transfer that matches: no row
\* shows more bytes than its own transfer has reported.
ProgressMatches ==
    \A i \in DOMAIN transfers :
        OpenRow(transfers[i]) => transfers[i].bytes <= tasks[transfers[i].task].sent
=============================================================================
