------------------------------ MODULE GuiRows ------------------------------
(***************************************************************************)
(* The GUI's table of transfers: its rows, poll_messages, which the UI     *)
(* thread runs in every frame, and the threads of client transfers.        *)
(* poll_messages has a loop for each channel, and the threads may send     *)
(* while it runs: one action is one turn of a loop.  (The lines and the    *)
(* transfer events are collected first and applied afterwards; as nobody   *)
(* else sees the log and the rows, that is the same.)                      *)
(***************************************************************************)
EXTENDS GuiServer

CONSTANT
    Inside   \* the pairs <<e, t>> of origins such that the strings of `e` are
             \* found in the row target made from `t`

NoOrigin == "client"   \* the origin of a client transfer's row

ASSUME GuiRowsAssumption ==
    /\ NoOrigin \notin Origins
    /\ Inside \subseteq Origins \X Origins
    /\ \A o \in Origins : <<o, o>> \in Inside

VARIABLES
    transfers,  \* the rows
    next_id,
    clients,    \* the threads of client transfers, in the order of their start
    messages,   \* what waits in msg_rx, which all client threads send to
    said,       \* the last line of the log that is about the server's state
    phase       \* how far the UI thread is in its frame

rowVars == <<transfers, next_id, clients, messages, said, phase>>

RowIds == 1..MaxTransfers

\* `task` is the task a server row was made for: no code reads it.
Rows ==
    [id : RowIds, origin : Origins \cup {NoOrigin}, bytes : 0..MaxReports,
     done : BOOLEAN, task : 0..MaxTransfers]

RowsOK ==
    /\ transfers \in Seq(Rows)
    /\ next_id \in 1..(MaxTransfers + 1)
    /\ clients \in Seq([id : RowIds, pc : {"run", "ended"}])
    /\ messages \in Seq([id : RowIds, bytes : 0..MaxReports])
    /\ said \in StatusLines \cup {"nothing", "starting", "stop requested"}
    /\ phase \in {"status", "events", "progress", "messages"}

RowsInit ==
    /\ transfers = <<>>
    /\ next_id = 1
    /\ clients = <<>>
    /\ messages = <<>>
    /\ said = "nothing"
    /\ phase = "status"

IsServerRow(t) == t.origin # NoOrigin
OpenRow(t) == IsServerRow(t) /\ ~t.done

-----------------------------------------------------------------------------
(* poll_messages *)

Row(id, origin, task) ==
    [id |-> id, origin |-> origin, bytes |-> 0, done |-> FALSE, task |-> task]

\* Mutant of RowOfEvent: without rev(), the oldest row that fits.
OldestRowOfEvent(rows, e) ==
    SelectInSeq(rows, LAMBDA t : OpenRow(t) /\ <<e.origin, t.origin>> \in Inside)

\* The newest unfinished server row whose target has the event's peer and file
\* name in it; 0 if there is none.
RowOfEvent(rows, e) ==
    SelectLastInSeq(rows, LAMBDA t : OpenRow(t) /\ <<e.origin, t.origin>> \in Inside)

\* Mutant of Done: the bytes are taken for those since the last report.
DoneAdds(row, bytes) ==
    [row EXCEPT !.done = TRUE, !.bytes = @ + bytes]

\* The closing event or message of a transfer, which may count no bytes.
Done(row, bytes) ==
    [row EXCEPT !.done = TRUE, !.bytes = IF bytes > @ THEN bytes ELSE @]

TransferEvent(e) ==
    \/ /\ ~e.done
       /\ transfers' = Append(transfers, Row(next_id, e.origin, e.task))
       /\ next_id' = next_id + 1
    \/ /\ e.done
       /\ LET i == RowOfEvent(transfers, e)
          IN  transfers' = IF i = 0 THEN transfers
                           ELSE [transfers EXCEPT ![i] = Done(@, e.bytes)]
       /\ UNCHANGED next_id

\* Mutant of ServerProgress: without `!t.done`, the newest server row.
ProgressToNewestRow(bytes) ==
    LET i == SelectLastInSeq(transfers, IsServerRow)
    IN  transfers' = IF i = 0 THEN transfers ELSE [transfers EXCEPT ![i].bytes = bytes]

\* A progress report says nothing about its transfer: the newest unfinished
\* server row takes it.
ServerProgress(bytes) ==
    LET i == SelectLastInSeq(transfers, OpenRow)
    IN  transfers' = IF i = 0 THEN transfers ELSE [transfers EXCEPT ![i].bytes = bytes]

\* GuiMsg::Done carries the id of its row.  (No GuiMsg::Progress is ever sent:
\* Client stores the callback it is given and does not call it.)
ClientMessage(m) ==
    LET i == SelectInSeq(transfers, LAMBDA t : t.id = m.id)
    IN  transfers' = IF i = 0 THEN transfers ELSE [transfers EXCEPT ![i] = Done(@, m.bytes)]

PollStatus ==
    /\ phase = "status"
    /\ \/ /\ lines # <<>>
          /\ said' = Head(lines)
          /\ lines' = Tail(lines)
          /\ UNCHANGED phase
       \/ /\ lines = <<>>
          /\ phase' = "events"
          /\ UNCHANGED <<said, lines>>
    /\ UNCHANGED <<transfers, next_id, clients, messages, srv, holder, arrivals,
                   tasks, attached, events, progress>>

PollEvents ==
    /\ phase = "events"
    /\ \/ /\ events # <<>>
          /\ TransferEvent(Head(events))
          /\ events' = Tail(events)
          /\ UNCHANGED phase
       \/ /\ events = <<>>
          /\ phase' = "progress"
          /\ UNCHANGED <<transfers, next_id, events>>
    /\ UNCHANGED <<clients, messages, said, srv, holder, arrivals, tasks,
                   attached, lines, progress>>

PollProgress ==
    /\ phase = "progress"
    /\ \/ /\ progress # <<>>
          /\ ServerProgress(Head(progress))
          /\ progress' = Tail(progress)
          /\ UNCHANGED phase
       \/ /\ progress = <<>>
          /\ phase' = "messages"
          /\ UNCHANGED <<transfers, progress>>
    /\ UNCHANGED <<next_id, clients, messages, said, srv, holder, arrivals, tasks,
                   attached, lines, events>>

\* (The end of this loop is a part of Frame.)
PollMessages ==
    /\ phase = "messages"
    /\ messages # <<>>
    /\ ClientMessage(Head(messages))
    /\ messages' = Tail(messages)
    /\ UNCHANGED <<phase, next_id, clients, said, serverVars>>

-----------------------------------------------------------------------------
(* What the user can do to the table in a frame *)

\* start_transfer
StartTransfer ==
    /\ transfers' = Append(transfers, Row(next_id, NoOrigin, 0))
    /\ clients' = Append(clients, [id |-> next_id, pc |-> "run"])
    /\ next_id' = next_id + 1
    /\ UNCHANGED <<messages, said, serverVars>>

\* The "remove" button of a finished row.
RemoveRow(i) ==
    /\ transfers[i].done
    /\ transfers' = RemoveAt(transfers, i)
    /\ UNCHANGED <<next_id, clients, messages, said, serverVars>>

-----------------------------------------------------------------------------
(* The threads of client transfers: get or put, and nothing before its end. *)

\* An error counts no bytes; a runtime that cannot be built is one too.
ClientEnds(c) ==
    /\ clients[c].pc = "run"
    /\ clients' = [clients EXCEPT ![c].pc = "ended"]
    /\ \E bytes \in 0..MaxReports :
          messages' = Append(messages, [id |-> clients[c].id, bytes |-> bytes])
    /\ UNCHANGED <<transfers, next_id, said, phase, serverVars>>
=============================================================================
