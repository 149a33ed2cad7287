----------------------------- MODULE GuiProofs -----------------------------
(* Proofs about Gui. *)
EXTENDS Gui, SequenceLemmas

ThreadStates ==
    [pc : ServerPcs, port : Ports \cup {Nobody}, stop : BOOLEAN, late : Nat]

\* A thread that has taken its datagram after Stop is on its way out: it looks at the
\* flag next, and nothing leads back to the socket from there.
Leaving(t) ==
    t.late = 0 \/ (t.late = 1 /\ t.stop /\ t.pc \in {"check", "closing", "ended"})

LateInv ==
    /\ srv \in [Servers -> ThreadStates]
    /\ \A g \in Servers : Leaving(srv[g])

\* A step that changes one thread at most keeps the invariant if it keeps it for
\* that thread.
LEMMA OneThread ==
    ASSUME LateInv, NEW g \in Servers, NEW t \in ThreadStates, Leaving(t),
           srv' = [srv EXCEPT ![g] = t]
    PROVE  LateInv'
BY DEF LateInv

\* GoTo keeps it where nothing was late, and on the way out.
LEMMA GoToKeeps ==
    ASSUME LateInv, NEW g \in Servers, NEW pc \in ServerPcs, GoTo(g, pc),
           srv[g].late = 0 \/ pc \in {"check", "closing", "ended"}
    PROVE  LateInv'
<1> DEFINE t == [srv[g] EXCEPT !.pc = pc]
<1>1. srv[g] \in ThreadStates /\ Leaving(srv[g])
  BY DEF LateInv
<1>2. t \in ThreadStates
  BY <1>1 DEF ThreadStates
<1>3. t.pc = pc /\ t.stop = srv[g].stop /\ t.late = srv[g].late
  BY <1>1 DEF ThreadStates
<1>4. Leaving(t)
  BY <1>1, <1>3 DEF Leaving
<1>5. srv' = [srv EXCEPT ![g] = t]
  BY DEF GoTo
<1> QED
  BY <1>2, <1>4, <1>5, OneThread

LEMMA LateInit == Init => LateInv
BY DEF Init, ServerInit, LateInv, Leaving, ThreadStates, ServerPcs, Nobody

\* Every step of a thread.
LEMMA ThreadKeeps ==
    ASSUME LateInv, NEW g \in Servers, Thread(g) \/ ReceiveFails(g)
    PROVE  LateInv'
<1> USE DEF ServerPcs
<1>0. srv[g] \in ThreadStates /\ Leaving(srv[g])
  BY DEF LateInv
<1>1. CASE Probe(g)
  <2>1. srv[g].late = 0
    BY <1>0, <1>1 DEF Probe, Leaving
  <2>2. GoTo(g, "probed") \/ GoTo(g, "ended")
    BY <1>1 DEF Probe, TryBind
  <2> QED
    BY <2>1, <2>2, GoToKeeps
<1>2. CASE DropProbe(g)
  <2>1. srv[g].late = 0 /\ GoTo(g, "bind")
    BY <1>0, <1>2 DEF DropProbe, Leaving
  <2> QED
    BY <2>1, GoToKeeps
<1>3. CASE Bind(g)
  <2>1. GoTo(g, "check") \/ GoTo(g, "ended")
    BY <1>3 DEF Bind, TryBind
  <2> QED
    BY <2>1, GoToKeeps
<1>4. CASE CheckStop(g)
  <2>1. CASE srv[g].stop
    BY <1>4, <2>1, GoToKeeps DEF CheckStop, Leave
  <2>2. CASE ~srv[g].stop
    <3>1. srv[g].late = 0 /\ GoTo(g, "recv")
      BY <1>0, <1>4, <2>2 DEF CheckStop, Leaving
    <3> QED
      BY <3>1, GoToKeeps
  <2> QED
    BY <2>1, <2>2
<1>5. CASE Receive(g)
  <2> DEFINE t == [srv[g] EXCEPT !.pc = "check",
                                 !.late = IF srv[g].stop THEN @ + 1 ELSE @]
  <2>1. srv[g].late = 0
    BY <1>0, <1>5 DEF Receive, Leaving
  <2>2. t \in ThreadStates
    <3> DEFINE n == IF srv[g].stop THEN srv[g].late + 1 ELSE srv[g].late
    <3>1. n \in Nat
      BY <2>1
    <3>2. t = [srv[g] EXCEPT !.pc = "check", !.late = n]
      OBVIOUS
    <3> HIDE DEF n
    <3> QED
      BY <1>0, <3>1, <3>2 DEF ThreadStates
  <2>3. t.pc = "check" /\ t.stop = srv[g].stop
    BY <1>0 DEF ThreadStates
  <2>4. t.late = IF srv[g].stop THEN 1 ELSE 0
    BY <1>0, <2>1 DEF ThreadStates
  <2>5. Leaving(t)
    BY <1>0, <2>3, <2>4 DEF Leaving, ThreadStates
  <2>6. srv' = [srv EXCEPT ![g] = t]
    BY <1>0, <1>5 DEF Receive, LateInv
  <2> QED
    BY <2>2, <2>5, <2>6, OneThread
<1>6. CASE DropRuntime(g)
  BY <1>6, GoToKeeps DEF DropRuntime
<1>7. CASE ReceiveFails(g)
  BY <1>7, GoToKeeps DEF ReceiveFails, Leave
<1> QED
  BY <1>1, <1>2, <1>3, <1>4, <1>5, <1>6, <1>7 DEF Thread

\* Start makes a thread of one that was not there yet.
LEMMA StartKeeps ==
    ASSUME LateInv, NEW g \in Servers, NEW p \in Ports, Start(g, p)
    PROVE  LateInv'
<1> DEFINE t == [srv[g] EXCEPT !.pc = "probe", !.port = p]
<1>1. srv[g] \in ThreadStates /\ srv[g].late = 0 /\ srv' = [srv EXCEPT ![g] = t]
  BY DEF Start, LateInv, Leaving
<1>2. t \in ThreadStates /\ t.late = 0
  BY <1>1 DEF ThreadStates, ServerPcs
<1> QED
  BY <1>1, <1>2, OneThread DEF Leaving

\* Stop only raises a flag, which helps.
LEMMA StopKeeps ==
    ASSUME LateInv, Stop
    PROVE  LateInv'
<1>1. CASE server_stop \in Servers
  <2> DEFINE t == [srv[server_stop] EXCEPT !.stop = TRUE]
  <2>1. srv[server_stop] \in ThreadStates /\ Leaving(srv[server_stop])
    BY <1>1 DEF LateInv
  <2>2. t \in ThreadStates /\ t.pc = srv[server_stop].pc
    BY <2>1 DEF ThreadStates
  <2>3. t.stop = TRUE /\ t.late = srv[server_stop].late
    BY <2>1 DEF ThreadStates
  <2>4. Leaving(t)
    BY <2>1, <2>2, <2>3 DEF Leaving
  <2>5. srv' = [srv EXCEPT ![server_stop] = t]
    BY DEF Stop
  <2> QED
    BY <1>1, <2>2, <2>4, <2>5, OneThread
<1>2. CASE server_stop \notin Servers
  <2>1. srv' = srv
    BY <1>2 DEF Stop, LateInv
  <2> QED
    BY <2>1 DEF LateInv
<1> QED
  BY <1>1, <1>2

\* Nothing else touches the threads.
LEMMA OthersKeep ==
    ASSUME LateInv, UNCHANGED srv
    PROVE  LateInv'
BY DEF LateInv

LEMMA NextKeeps == LateInv /\ [Next]_vars => LateInv'
<1> SUFFICES ASSUME LateInv, [Next]_vars PROVE LateInv'
  OBVIOUS
<1> USE DEF serverVars, rowVars, appVars, channels
<1>1. CASE UI
  <2>1. CASE Frame
    <3>1. CASE \E g \in Servers, p \in Ports : Start(g, p)
      BY <3>1, StartKeeps
    <3>2. CASE Stop
      BY <3>2, StopKeeps
    <3>3. CASE \/ StartTransfer
               \/ \E i \in DOMAIN transfers : RemoveRow(i)
               \/ NoClick
      BY <3>3, OthersKeep DEF StartTransfer, RemoveRow, NoClick
    <3> QED
      BY <2>1, <3>1, <3>2, <3>3 DEF Frame
  <2>2. CASE PollStatus \/ PollEvents \/ PollProgress \/ PollMessages
    BY <2>2, OthersKeep DEF PollStatus, PollEvents, PollProgress, PollMessages
  <2> QED
    BY <1>1, <2>1, <2>2 DEF UI
<1>2. CASE \E g \in Servers : ServerThread(g) \/ GiveUp(g)
  BY <1>2, ThreadKeeps DEF ServerThread, GiveUp
<1>3. CASE \E k \in 1..MaxTransfers : ServerTask(k) \/ Client(k)
  BY <1>3, OthersKeep DEF ServerTask, Task, Report, EndTask, Client, ClientEnds
<1>4. CASE Arrive
  BY <1>4, OthersKeep DEF Arrive
<1>5. CASE UNCHANGED vars
  BY <1>5, OthersKeep DEF vars
<1> QED
  BY <1>1, <1>2, <1>3, <1>4, <1>5 DEF Next

\* A stopped server takes at most one more datagram, the one its recv_from was waiting
\* for, however often Start and Stop are pressed and whatever arrives (gui.rs:1292).
THEOREM GuiStopsAfterOneDatagram == Spec => []OneDatagramAfterStop
<1>1. Init => LateInv
  BY LateInit
<1>2. LateInv /\ [Next]_vars => LateInv'
  BY NextKeeps
<1>3. LateInv => OneDatagramAfterStop
  BY DEF LateInv, Leaving, OneDatagramAfterStop, ThreadStates
<1> QED
  BY <1>1, <1>2, <1>3, PTL DEF Spec

-----------------------------------------------------------------------------
(* Types.  That the ids of rows and the numbers of tasks stay within the     *)
(* bound takes the counting of Bounded: every row was made for a client      *)
(* transfer or for the start of a task, every task for a datagram, and the   *)
(* starts that wait in the channel are those of later and later tasks, each  *)
(* of them with an id left for its row.                                      *)

TaskRecords ==
    [server : Servers, origin : Origins, sent : 0..MaxReports,
     pc : {"run", "ended", "cancelled"}]

ClientRecords == [id : RowIds, pc : {"run", "ended"}]

Messages == [id : RowIds, bytes : 0..MaxReports]

Starts(i) == ~events[i].done

\* How many datagrams wait at sockets.
Waiting == Cardinality(Places(arrivals, Servers))

Counted ==
    /\ next_id - 1 <= Len(clients) + Len(tasks)
    /\ Len(tasks) + Waiting <= Len(arrivals)
    /\ Len(arrivals) + Len(clients) <= MaxTransfers

Numbered ==
    /\ \A i \in 1..Len(events) :
          /\ events[i].task <= Len(tasks)
          /\ Starts(i) => next_id <= Len(clients) + events[i].task
    /\ \A i, j \in 1..Len(events) :
          Starts(i) /\ Starts(j) /\ i < j => events[i].task < events[j].task

Bounded == Counted /\ Numbered

TypeInv == TypeOK /\ Bounded

\* What is known of the state's parts in every state.
LEMMA Types ==
    ASSUME TypeOK
    PROVE  /\ srv \in [Servers -> ThreadStates]
           /\ tasks \in Seq(TaskRecords) /\ Len(tasks) \in Nat
           /\ events \in Seq(TransferEvents) /\ Len(events) \in Nat
           /\ clients \in Seq(ClientRecords) /\ Len(clients) \in Nat
           /\ messages \in Seq(Messages) /\ Len(messages) \in Nat
           /\ transfers \in Seq(Rows) /\ Len(transfers) \in Nat
           /\ progress \in Seq(1..MaxReports)
           /\ lines \in Seq(StatusLines)
           /\ Waiting \in Nat /\ Len(arrivals) \in Nat /\ next_id \in Nat \ {0}
           /\ MaxTransfers \in Nat /\ MaxReports \in Nat \ {0} /\ MaxStarts \in Nat
<1>1. /\ srv \in [Servers -> ThreadStates]
      /\ tasks \in Seq(TaskRecords)
      /\ events \in Seq(TransferEvents)
      /\ clients \in Seq(ClientRecords)
      /\ messages \in Seq(Messages)
      /\ transfers \in Seq(Rows)
      /\ progress \in Seq(1..MaxReports)
      /\ lines \in Seq(StatusLines)
  BY DEF TypeOK, ServerOK, RowsOK, ThreadStates, TaskRecords, ClientRecords, Messages
<1>2. Waiting \in Nat /\ Len(arrivals) \in Nat /\ next_id \in Nat \ {0}
  <2>1. arrivals \in Seq(Servers \cup {Nobody})
    BY DEF TypeOK, ServerOK
  <2>2. next_id \in 1..(MaxTransfers + 1)
    BY DEF TypeOK, RowsOK
  <2>3. Cardinality(Places(arrivals, Servers)) \in Nat
    BY <2>1, PlacesFinite
  <2>4. Len(arrivals) \in Nat
    BY <2>1, LenProperties
  <2>5. next_id \in Nat \ {0}
    <3>1. MaxTransfers \in Nat
      BY GuiServerAssumption
    <3> QED BY <2>2, <3>1
  <2> QED BY <2>3, <2>4, <2>5 DEF Waiting
<1>3. MaxTransfers \in Nat /\ MaxReports \in Nat \ {0} /\ MaxStarts \in Nat
  BY GuiServerAssumption
<1> QED BY <1>1, <1>2, <1>3, LenProperties

LEMMA SentByInSeq ==
    ASSUME NEW T, NEW q \in Seq(T), NEW e \in T, NEW g
    PROVE  SentBy(g, q, e) \in Seq(T)
BY AppendProperties DEF SentBy

LEMMA GoToTypes ==
    ASSUME srv \in [Servers -> ThreadStates], NEW g \in Servers, NEW pc \in ServerPcs,
           GoTo(g, pc)
    PROVE  srv' \in [Servers -> ThreadStates]
BY DEF GoTo, ThreadStates

\* Steps that neither send nor take an event; datagrams may be taken or lost.
LEMMA BoundedFewer ==
    ASSUME TypeInv, Len(tasks') = Len(tasks), Len(clients') = Len(clients),
           UNCHANGED <<next_id, events>>,
           Len(arrivals') = Len(arrivals), Waiting' \in Nat, Waiting' <= Waiting
    PROVE  Bounded'
<1>1. Waiting \in Nat /\ Len(arrivals) \in Nat /\ Len(tasks) \in Nat
  BY Types DEF TypeInv
<1>2. Len(tasks') + Waiting' <= Len(arrivals')
  BY <1>1 DEF TypeInv, Bounded, Counted
<1>3. Counted'
  BY <1>2 DEF TypeInv, Bounded, Counted
<1>4. Numbered'
  BY DEF TypeInv, Bounded, Numbered, Starts
<1> QED BY <1>3, <1>4 DEF Bounded

LEMMA BoundedFrame ==
    ASSUME TypeInv, Len(tasks') = Len(tasks), Len(clients') = Len(clients),
           UNCHANGED <<next_id, arrivals, events>>
    PROVE  Bounded'
<1>1. Waiting' = Waiting /\ Waiting \in Nat
  BY Types DEF TypeInv, Waiting
<1> QED BY <1>1, BoundedFewer

\* A server takes one of its datagrams; when it leaves, the others are lost.
LEMMA ArrivalsOfThread ==
    ASSUME TypeInv, NEW g \in Servers, Thread(g) \/ ReceiveFails(g)
    PROVE  /\ arrivals' \in Seq(Servers \cup {Nobody}) /\ Len(arrivals') = Len(arrivals)
           /\ Waiting' \in Nat /\ Waiting' <= Waiting
           /\ Receive(g) => Waiting' = Waiting - 1
<1> DEFINE T == Servers \cup {Nobody}
<1>1. /\ arrivals \in Seq(T) /\ DOMAIN arrivals = 1..Len(arrivals) /\ Len(arrivals) \in Nat
      /\ \A i \in 1..Len(arrivals) : arrivals[i] \in T
      /\ Waiting \in Nat
  <2>1. arrivals \in Seq(T)
    BY DEF TypeInv, TypeOK, ServerOK
  <2> QED BY <2>1, Types, LenProperties, ElementOfSeq DEF TypeInv
<1>2. Nobody \in T /\ Nobody \notin Servers
  BY DEF Servers, Nobody
<1>3. ASSUME arrivals' \in Seq(T) PROVE Waiting' \in Nat
  <2> HIDE DEF T
  <2>1. Cardinality(Places(arrivals', Servers)) \in Nat
    BY <1>3, PlacesFinite
  <2> QED BY <2>1 DEF Waiting
<1>4. CASE Receive(g)
  <2>1. PICK i : i = SelectInSeq(arrivals, LAMBDA h : h = g)
    OBVIOUS
  <2>2. i # 0 /\ arrivals' = [arrivals EXCEPT ![i] = Nobody]
    BY <1>4, <2>1 DEF Receive
  <2>3. i \in 1..Len(arrivals) /\ arrivals[i] = g
    <3>1. PICK I : I = {j \in 1..Len(arrivals) : arrivals[j] = g}
      OBVIOUS
    <3>2. i = IF I # {} THEN Min(I) ELSE 0
      BY <2>1, <3>1 DEF SelectInSeq
    <3>3. I \in SUBSET Nat
      BY <1>1, <3>1
    <3>4. I # {} => Min(I) \in I
      BY <3>3, MinIsLeast
    <3> QED BY <2>2, <3>1, <3>2, <3>4
  <2> HIDE DEF T
  <2>4. /\ arrivals' \in Seq(T) /\ Len(arrivals') = Len(arrivals)
        /\ arrivals'[i] = Nobody
        /\ \A j \in 1..Len(arrivals) : j # i => arrivals'[j] = arrivals[j]
    BY <1>1, <1>2, <2>2, <2>3, ExceptSeq
  <2>5. Cardinality(Places(arrivals', Servers)) = Cardinality(Places(arrivals, Servers)) - 1
    BY <1>1, <1>2, <2>3, <2>4, PlacesChanged
  <2>6. Waiting' = Waiting - 1
    BY <2>5 DEF Waiting
  <2>7. Waiting' \in Nat
    BY <1>3, <2>4
  <2> QED BY <1>1, <2>4, <2>6, <2>7 DEF T
<1>5. CASE ~Receive(g) /\ ((CheckStop(g) /\ Leave(g)) \/ ReceiveFails(g))
  <2>1. arrivals' = [i \in 1..Len(arrivals) |-> IF arrivals[i] = g THEN Nobody ELSE arrivals[i]]
    BY <1>1, <1>5 DEF Leave, ReceiveFails
  <2>2. \A i \in 1..Len(arrivals) : (IF arrivals[i] = g THEN Nobody ELSE arrivals[i]) \in T
    BY <1>1, <1>2
  <2>3. arrivals' \in Seq(T) /\ Len(arrivals') = Len(arrivals)
    <3> HIDE DEF T
    <3>1. arrivals' \in [1..Len(arrivals) -> T]
      BY <2>1, <2>2
    <3> QED BY <1>1, <3>1
  <2>4. Places(arrivals', Servers) \subseteq Places(arrivals, Servers)
    BY <1>2, <2>1, <2>3 DEF Places
  <2>5. IsFiniteSet(Places(arrivals, Servers))
    BY <1>1, PlacesFinite
  <2>6. Cardinality(Places(arrivals', Servers)) <= Cardinality(Places(arrivals, Servers))
    BY <2>4, <2>5, FS_Subset
  <2> QED BY <1>3, <1>5, <2>3, <2>6 DEF Waiting
<1>6. CASE ~Receive(g) /\ ~(CheckStop(g) /\ Leave(g)) /\ ~ReceiveFails(g)
  <2>1. UNCHANGED arrivals
    BY <1>6 DEF Thread, Probe, DropProbe, Bind, TryBind, CheckStop, Leave, ReceiveFails,
                DropRuntime
  <2> QED BY <1>1, <1>6, <2>1 DEF Waiting
<1> QED BY <1>4, <1>5, <1>6

LEMMA TypeInvInit == Init => TypeInv
<1> SUFFICES ASSUME Init PROVE TypeInv
  OBVIOUS
<1>1. MaxStarts \in Nat /\ MaxTransfers \in Nat /\ MaxReports \in Nat \ {0}
  BY GuiServerAssumption
<1>2. ServerOK
  BY <1>1, EmptySeq DEF Init, ServerInit, ServerOK, ServerPcs, Nobody
<1>3. RowsOK
  BY <1>1, EmptySeq DEF Init, RowsInit, RowsOK
<1>4. Bounded
  <2>1. Len(tasks) = 0 /\ Len(events) = 0 /\ Len(clients) = 0
    BY EmptySeq DEF Init, ServerInit, RowsInit
  <2>2. next_id = 1 /\ arrivals = <<>>
    BY DEF Init, ServerInit, RowsInit
  <2>3. Len(arrivals) = 0
    BY <2>2, EmptySeq
  <2>4. Places(arrivals, Servers) = {}
    BY <2>3 DEF Places
  <2>5. Waiting = 0
    BY <2>4, FS_EmptySet DEF Waiting
  <2> QED BY <1>1, <2>1, <2>2, <2>3, <2>5 DEF Bounded, Counted, Numbered
<1>5. running \in BOOLEAN
  <2>1. running = FALSE
    BY DEF Init
  <2> QED BY <2>1
<1>6. server_stop \in 0..MaxStarts
  BY <1>1 DEF Init
<1> QED BY <1>2, <1>3, <1>4, <1>5, <1>6 DEF TypeInv, TypeOK

\* The steps of a server thread, of its tasks, and of the network.
LEMMA ThreadTypes ==
    ASSUME TypeInv, NEW g \in Servers, Thread(g) \/ ReceiveFails(g),
           UNCHANGED <<rowVars, appVars>>
    PROVE  TypeInv'
<1> USE DEF rowVars, appVars, channels
<1>0. /\ ServerOK /\ RowsOK
      /\ running \in BOOLEAN /\ server_stop \in 0..MaxStarts
  BY DEF TypeInv, TypeOK
<1>1. /\ srv \in [Servers -> ThreadStates]
      /\ tasks \in Seq(TaskRecords) /\ Len(tasks) \in Nat
      /\ events \in Seq(TransferEvents) /\ Len(events) \in Nat
      /\ clients \in Seq(ClientRecords) /\ Len(clients) \in Nat
      /\ progress \in Seq(1..MaxReports) /\ lines \in Seq(StatusLines)
      /\ Waiting \in Nat /\ Len(arrivals) \in Nat /\ next_id \in Nat \ {0}
      /\ MaxTransfers \in Nat /\ MaxReports \in Nat \ {0} /\ MaxStarts \in Nat
  BY Types DEF TypeInv
<1>2. /\ holder' \in [Ports -> Servers \cup {Nobody}]
      /\ arrivals' \in Seq(Servers \cup {Nobody}) /\ Len(arrivals') = Len(arrivals)
      /\ Waiting' \in Nat /\ Waiting' <= Waiting
      /\ Receive(g) => Waiting' = Waiting - 1
  <2>1. holder \in [Ports -> Servers \cup {Nobody}]
    BY <1>0 DEF ServerOK
  <2>2. \/ UNCHANGED holder
        \/ \E h \in {g, Nobody} : holder' = [holder EXCEPT ![srv[g].port] = h]
    BY DEF Thread, Probe, DropProbe, Bind, TryBind, Take, GiveBack, CheckStop, Leave, Receive,
           ReceiveFails, DropRuntime
  <2> QED BY <2>1, <2>2, ArrivalsOfThread
<1>3. lines' \in Seq(StatusLines)
  <2>1. \/ UNCHANGED lines
        \/ \E line \in StatusLines : Say(g, line)
    BY DEF StatusLines, Thread, Probe, DropProbe, Bind, TryBind, CheckStop, Leave, Receive,
           ReceiveFails, DropRuntime
  <2> QED BY <1>1, <2>1, SentByInSeq DEF Say
<1>4. srv' \in [Servers -> ThreadStates]
  <2>1. CASE Receive(g)
    <3> DEFINE n == IF srv[g].stop THEN srv[g].late + 1 ELSE srv[g].late
    <3>1. srv' = [srv EXCEPT ![g] = [srv[g] EXCEPT !.pc = "check", !.late = n]]
      BY <1>1, <2>1 DEF Receive
    <3>2. srv[g].late \in Nat
      BY <1>1 DEF ThreadStates
    <3>3. n \in Nat
      BY <3>2
    <3> HIDE DEF n
    <3>4. "check" \in ServerPcs
      BY DEF ServerPcs
    <3> QED BY <1>1, <3>1, <3>3, <3>4 DEF ThreadStates
  <2>2. CASE ~Receive(g)
    <3>1. \E pc \in ServerPcs : GoTo(g, pc)
      BY <2>2 DEF ServerPcs, Thread, Probe, DropProbe, Bind, TryBind, CheckStop, Leave,
                  ReceiveFails, DropRuntime
    <3> QED BY <1>1, <3>1, GoToTypes
  <2> QED BY <2>1, <2>2
<1>5. UNCHANGED <<attached, progress>>
  BY DEF Thread, Probe, DropProbe, Bind, TryBind, CheckStop, Leave, Receive, ReceiveFails,
         DropRuntime
<1>6. CASE Receive(g) /\ ~UNCHANGED <<tasks, events>>
  <2>1. PICK o \in Origins :
           /\ tasks' = Append(tasks, [server |-> g, origin |-> o, sent |-> 0, pc |-> "run"])
           /\ events' = SentBy(g, events,
                  [done |-> FALSE, origin |-> o, bytes |-> 0, task |-> Len(tasks')])
    BY <1>6 DEF Receive
  <2> DEFINE t == [server |-> g, origin |-> o, sent |-> 0, pc |-> "run"]
             e == [done |-> FALSE, origin |-> o, bytes |-> 0, task |-> Len(tasks')]
  <2>2. t \in TaskRecords
    BY <1>1 DEF TaskRecords
  <2>3. tasks' \in Seq(TaskRecords) /\ Len(tasks') = Len(tasks) + 1
    BY <1>1, <2>1, <2>2, AppendProperties
  <2>4. Len(tasks') + Waiting' <= Len(arrivals) /\ Len(arrivals) + Len(clients) <= MaxTransfers
        /\ next_id - 1 <= Len(clients) + Len(tasks)
    BY <1>1, <1>2, <1>6, <2>3 DEF TypeInv, Bounded, Counted
  <2>5. Waiting' \in Nat /\ Len(arrivals') = Len(arrivals)
    BY <1>2
  <2>6. Len(tasks') \in 1..MaxTransfers
    BY <1>1, <2>3, <2>4, <2>5
  <2>7. e \in TransferEvents
    BY <1>1, <2>6 DEF TransferEvents
  <2>8. events' \in Seq(TransferEvents)
    BY <1>1, <2>1, <2>7, SentByInSeq
  <2>9. /\ Len(events') \in {Len(events), Len(events) + 1}
        /\ \A i \in 1..Len(events) : events'[i] = events[i]
        /\ \A i \in 1..Len(events') : i \notin 1..Len(events) => i = Len(events) + 1 /\ events'[i] = e
    BY <1>1, <2>1, <2>7, AppendProperties DEF SentBy
  <2>10. e.task = Len(tasks) + 1
    BY <2>3
  <2> HIDE DEF e, t
  <2>11. ASSUME NEW i \in 1..Len(events')
         PROVE  /\ events'[i].task <= Len(tasks')
                /\ next_id <= Len(clients) + events'[i].task \/ ~Starts(i)'
    <3>1. CASE i \in 1..Len(events)
      <4>1. events'[i] = events[i] /\ events[i] \in TransferEvents
        BY <1>1, <2>9, <3>1, ElementOfSeq
      <4>2. events[i].task \in Nat
        BY <4>1 DEF TransferEvents
      <4>3. /\ events[i].task <= Len(tasks)
            /\ Starts(i) => next_id <= Len(clients) + events[i].task
        BY <3>1 DEF TypeInv, Bounded, Counted, Numbered
      <4> QED BY <1>1, <2>3, <4>1, <4>2, <4>3 DEF Starts
    <3>2. CASE i \notin 1..Len(events)
      <4>1. events'[i].task = Len(tasks) + 1
        BY <2>9, <2>10, <3>2
      <4> QED BY <1>1, <2>3, <2>4, <4>1
    <3> QED BY <3>1, <3>2
  <2>12. ASSUME NEW i \in 1..Len(events'), NEW j \in 1..Len(events'),
                Starts(i)', Starts(j)', i < j
         PROVE  events'[i].task < events'[j].task
    <3>1. i \in 1..Len(events)
      BY <1>1, <2>9, <2>12
    <3>2. events'[i] = events[i] /\ events[i] \in TransferEvents
      BY <1>1, <2>9, <3>1, ElementOfSeq
    <3>3. events[i].task \in Nat /\ events[i].task <= Len(tasks)
      BY <3>1, <3>2 DEF TransferEvents, TypeInv, Bounded, Counted, Numbered
    <3>4. CASE j \in 1..Len(events)
      BY <2>9, <2>12, <3>1, <3>4 DEF TypeInv, Bounded, Counted, Numbered, Starts
    <3>5. CASE j \notin 1..Len(events)
      BY <1>1, <2>9, <2>10, <3>2, <3>3, <3>5
    <3> QED BY <3>4, <3>5
  <2>13. Bounded'
    <3>1. Counted'
      BY <1>1, <1>5, <2>3, <2>4, <2>5 DEF Counted
    <3>2. Numbered'
      BY <1>1, <2>11, <2>12 DEF Numbered, Starts
    <3> QED BY <3>1, <3>2 DEF Bounded
  <2> QED BY <1>0, <1>2, <1>3, <1>4, <1>5, <2>3, <2>8, <2>13
          DEF TypeInv, TypeOK, ServerOK, RowsOK, ThreadStates, TaskRecords
<1>7. CASE ~(Receive(g) /\ ~UNCHANGED <<tasks, events>>)
  <2>1. UNCHANGED events
    BY <1>7 DEF Thread, Probe, DropProbe, Bind, TryBind, CheckStop, Leave, Receive,
                ReceiveFails, DropRuntime
  <2>2. UNCHANGED tasks \/ tasks' = [k \in DOMAIN tasks |->
                    IF tasks[k].server = g /\ tasks[k].pc = "run"
                    THEN [tasks[k] EXCEPT !.pc = "cancelled"] ELSE tasks[k]]
    BY <1>7 DEF Thread, Probe, DropProbe, Bind, TryBind, CheckStop, Leave, Receive,
                ReceiveFails, DropRuntime
  <2>3. tasks' \in Seq(TaskRecords) /\ Len(tasks') = Len(tasks)
    <3>1. CASE UNCHANGED tasks
      BY <1>1, <3>1
    <3>2. CASE ~UNCHANGED tasks
      <4> DEFINE n == Len(tasks)
      <4>1. DOMAIN tasks = 1..n /\ \A k \in 1..n : tasks[k] \in TaskRecords
        BY <1>1, LenProperties, ElementOfSeq
      <4>2. \A k \in 1..n : [tasks[k] EXCEPT !.pc = "cancelled"] \in TaskRecords
        BY <4>1 DEF TaskRecords
      <4>3. n \in Nat
        BY <1>1
      <4> HIDE DEF n
      <4>4. tasks' \in [1..n -> TaskRecords]
        BY <2>2, <3>2, <4>1, <4>2
      <4>5. tasks' \in Seq(TaskRecords) /\ Len(tasks') = n
        BY <4>3, <4>4
      <4> QED BY <4>5 DEF n
    <3> QED BY <3>1, <3>2
  <2>5. Bounded'
    BY <1>2, <1>5, <2>1, <2>3, BoundedFewer
  <2> QED BY <1>0, <1>1, <1>2, <1>3, <1>4, <1>5, <2>1, <2>3, <2>5
          DEF TypeInv, TypeOK, ServerOK, RowsOK, ThreadStates, TaskRecords
<1> QED BY <1>6, <1>7

\* The steps of a task.
LEMMA TaskTypes ==
    ASSUME TypeInv, NEW k \in DOMAIN tasks, Task(k), UNCHANGED <<rowVars, appVars>>
    PROVE  TypeInv'
<1> USE DEF rowVars, appVars
<1>0. /\ ServerOK /\ RowsOK
      /\ running \in BOOLEAN /\ server_stop \in 0..MaxStarts
  BY DEF TypeInv, TypeOK
<1>1. /\ tasks \in Seq(TaskRecords) /\ Len(tasks) \in Nat
      /\ events \in Seq(TransferEvents) /\ Len(events) \in Nat
      /\ Len(clients) \in Nat /\ progress \in Seq(1..MaxReports)
      /\ Waiting \in Nat /\ Len(arrivals) \in Nat /\ next_id \in Nat \ {0}
      /\ MaxTransfers \in Nat /\ MaxReports \in Nat \ {0}
  BY Types DEF TypeInv
<1>2. k \in 1..Len(tasks) /\ tasks[k] \in TaskRecords
  BY <1>1, LenProperties, ElementOfSeq
<1>3. tasks[k].origin \in Origins /\ tasks[k].sent \in 0..MaxReports
  BY <1>2 DEF TaskRecords
<1>4. CASE Report(k)
  <2> DEFINE n == tasks[k].sent + 1
             t == [tasks[k] EXCEPT !.sent = n]
  <2>1. tasks' = [tasks EXCEPT ![k] = t] /\ progress' = SentBy(tasks[k].server, progress, n)
        /\ tasks[k].sent < MaxReports
    BY <1>4 DEF Report
  <2>2. n \in 1..MaxReports /\ n \in 0..MaxReports
    BY <1>1, <1>3, <2>1
  <2> HIDE DEF n
  <2>3. t \in TaskRecords
    BY <1>2, <2>2 DEF TaskRecords
  <2> HIDE DEF t
  <2>4. tasks' \in Seq(TaskRecords) /\ Len(tasks') = Len(tasks)
    BY <1>1, <1>2, <2>1, <2>3, ExceptSeq
  <2>5. progress' \in Seq(1..MaxReports)
    BY <1>1, <2>1, <2>2, SentByInSeq
  <2>6. UNCHANGED <<srv, holder, arrivals, attached, lines, events>>
    BY <1>4 DEF Report
  <2>7. Bounded'
    BY <2>4, <2>6, BoundedFrame
  <2> QED BY <1>0, <2>4, <2>5, <2>6, <2>7 DEF TypeInv, TypeOK, ServerOK, RowsOK, TaskRecords
<1>5. CASE EndTask(k)
  <2> DEFINE t == [tasks[k] EXCEPT !.pc = "ended"]
  <2>1. PICK bytes \in {0, tasks[k].sent} :
          events' = SentBy(tasks[k].server, events,
              [done |-> TRUE, origin |-> tasks[k].origin, bytes |-> bytes, task |-> k])
    BY <1>5 DEF EndTask
  <2> DEFINE e == [done |-> TRUE, origin |-> tasks[k].origin, bytes |-> bytes, task |-> k]
  <2>2. tasks' = [tasks EXCEPT ![k] = t]
    BY <1>5 DEF EndTask
  <2>3. t \in TaskRecords
    BY <1>2 DEF TaskRecords
  <2> HIDE DEF t
  <2>4. tasks' \in Seq(TaskRecords) /\ Len(tasks') = Len(tasks)
    BY <1>1, <1>2, <2>2, <2>3, ExceptSeq
  <2>5. Len(tasks) + Waiting <= Len(arrivals) /\ Len(arrivals) + Len(clients) <= MaxTransfers
    BY DEF TypeInv, Bounded, Counted
  <2>6. k \in 1..MaxTransfers /\ bytes \in 0..MaxReports
    BY <1>1, <1>2, <1>3, <2>5
  <2>7. e \in TransferEvents
    BY <1>3, <2>6 DEF TransferEvents
  <2>8. events' \in Seq(TransferEvents)
    BY <1>1, <2>1, <2>7, SentByInSeq
  <2>9. /\ Len(events') \in Nat
        /\ \A i \in 1..Len(events') :
              \/ i \in 1..Len(events) /\ events'[i] = events[i]
              \/ events'[i] = e
    BY <1>1, <2>1, <2>7, AppendProperties DEF SentBy
  <2>10. UNCHANGED <<srv, holder, arrivals, attached, lines, progress>>
    BY <1>5 DEF EndTask
  <2>11. e.task = k /\ e.done
    OBVIOUS
  <2> HIDE DEF e
  <2>12. ASSUME NEW i \in 1..Len(events')
         PROVE  /\ events'[i].task <= Len(tasks')
                /\ Starts(i)' => i \in 1..Len(events) /\ Starts(i) /\ events'[i] = events[i]
    <3>1. CASE i \in 1..Len(events) /\ events'[i] = events[i]
      BY <2>4, <3>1 DEF Starts, TypeInv, Bounded, Numbered
    <3>2. CASE events'[i] = e
      BY <1>1, <1>2, <2>4, <2>11, <3>2 DEF Starts
    <3> QED BY <2>9, <3>1, <3>2
  <2>13. Bounded'
    <3>1. Counted'
      BY <2>4, <2>10 DEF TypeInv, Bounded, Counted, Waiting
    <3>2. Numbered'
      BY <2>10, <2>12 DEF TypeInv, Bounded, Numbered
    <3> QED BY <3>1, <3>2 DEF Bounded
  <2> QED BY <1>0, <2>4, <2>8, <2>10, <2>13
          DEF TypeInv, TypeOK, ServerOK, RowsOK, TaskRecords
<1> QED BY <1>4, <1>5 DEF Task

\* A datagram arrives, within the bound.
LEMMA ArriveTypes ==
    ASSUME TypeInv, OneMore, Arrive, UNCHANGED <<rowVars, appVars>>
    PROVE  TypeInv'
<1> USE DEF rowVars, appVars, channels
<1>1. /\ Waiting \in Nat /\ Len(arrivals) \in Nat /\ MaxTransfers \in Nat
      /\ Len(tasks) \in Nat /\ Len(clients) \in Nat
  BY Types DEF TypeInv
<1>2. /\ UNCHANGED <<srv, holder, tasks, attached, lines, events, progress>>
      /\ arrivals' \in Seq(Servers \cup {Nobody}) /\ Len(arrivals') = Len(arrivals) + 1
      /\ Waiting' = Waiting + 1
  <2>1. PICK g \in Servers : arrivals' = Append(arrivals, g)
    BY DEF Arrive
  <2>2. arrivals \in Seq(Servers \cup {Nobody})
    BY DEF TypeInv, TypeOK, ServerOK
  <2>3. Cardinality(Places(Append(arrivals, g), Servers)) = Cardinality(Places(arrivals, Servers)) + 1
    BY <2>2, PlacesAppended
  <2> QED BY <2>1, <2>2, <2>3, AppendProperties DEF Arrive, Waiting
<1>3. Len(tasks) + Waiting <= Len(arrivals) /\ Len(arrivals) + Len(clients) < MaxTransfers
  BY DEF TypeInv, Bounded, Counted, Numbered, OneMore
<1>4. Len(tasks) + Waiting' <= Len(arrivals') /\ Len(arrivals') + Len(clients) <= MaxTransfers
  BY <1>1, <1>2, <1>3
<1>5. Len(arrivals') <= MaxTransfers
  BY <1>1, <1>2, <1>3
<1>6. Bounded'
  BY <1>2, <1>4 DEF TypeInv, Bounded, Counted, Numbered, Starts
<1> QED BY <1>2, <1>5, <1>6 DEF TypeInv, TypeOK, ServerOK, RowsOK

\* A client transfer ends.
LEMMA ClientTypes ==
    ASSUME TypeInv, NEW c \in DOMAIN clients, ClientEnds(c), UNCHANGED appVars
    PROVE  TypeInv'
<1> USE DEF serverVars, appVars, channels
<1>1. /\ clients \in Seq(ClientRecords) /\ messages \in Seq(Messages)
      /\ Waiting \in Nat /\ MaxReports \in Nat
  BY Types DEF TypeInv
<1>2. c \in 1..Len(clients) /\ clients[c] \in ClientRecords
  BY <1>1, LenProperties, ElementOfSeq
<1> DEFINE t == [clients[c] EXCEPT !.pc = "ended"]
<1>3. t \in ClientRecords
  BY <1>2 DEF ClientRecords
<1>4. clients' = [clients EXCEPT ![c] = t]
  BY DEF ClientEnds
<1> HIDE DEF t
<1>5. clients' \in Seq(ClientRecords) /\ Len(clients') = Len(clients)
  BY <1>1, <1>2, <1>3, <1>4, ExceptSeq
<1>6. messages' \in Seq(Messages)
  <2>1. PICK bytes \in 0..MaxReports :
           messages' = Append(messages, [id |-> clients[c].id, bytes |-> bytes])
    BY DEF ClientEnds
  <2>2. [id |-> clients[c].id, bytes |-> bytes] \in Messages
    BY <1>2 DEF ClientRecords, Messages
  <2> QED BY <1>1, <2>1, <2>2, AppendProperties
<1>7. UNCHANGED <<transfers, next_id, said, phase, serverVars>>
  BY DEF ClientEnds
<1>8. Bounded'
  BY <1>5, <1>7, BoundedFrame
<1> QED BY <1>5, <1>6, <1>7, <1>8
        DEF TypeInv, TypeOK, ServerOK, RowsOK, ClientRecords, Messages

-----------------------------------------------------------------------------
(* The rows that events, reports and messages find *)

LEMMA RowOfEventPicks ==
    ASSUME NEW rows \in Seq(Rows), NEW e
    PROVE  LET fits(i) == OpenRow(rows[i]) /\ <<e.origin, rows[i].origin>> \in Inside
               n == RowOfEvent(rows, e)
           IN  \/ n = 0 /\ \A i \in 1..Len(rows) : ~fits(i)
               \/ n \in 1..Len(rows) /\ fits(n) /\ \A i \in 1..Len(rows) : fits(i) => i <= n
<1> DEFINE I == {i \in 1..Len(rows) :
                   OpenRow(rows[i]) /\ <<e.origin, rows[i].origin>> \in Inside}
<1>1. RowOfEvent(rows, e) = IF I # {} THEN Max(I) ELSE 0
  BY DEF RowOfEvent, SelectLastInSeq
<1>2. I # {} => Max(I) \in I /\ \A i \in I : i <= Max(I)
  BY LenProperties, MaxIsGreatest
<1> QED BY <1>1, <1>2

LEMMA LastOpenRowPicks ==
    ASSUME NEW rows \in Seq(Rows)
    PROVE  LET n == SelectLastInSeq(rows, OpenRow)
           IN  n = 0 \/ (n \in 1..Len(rows) /\ OpenRow(rows[n]))
<1> DEFINE I == {i \in 1..Len(rows) : OpenRow(rows[i])}
<1>1. SelectLastInSeq(rows, OpenRow) = IF I # {} THEN Max(I) ELSE 0
  BY DEF SelectLastInSeq
<1>2. I # {} => Max(I) \in I
  BY LenProperties, MaxIsGreatest
<1> QED BY <1>1, <1>2

LEMMA RowOfMessagePicks ==
    ASSUME NEW rows \in Seq(Rows), NEW m
    PROVE  LET n == SelectInSeq(rows, LAMBDA t : t.id = m.id)
           IN  n = 0 \/ (n \in 1..Len(rows) /\ rows[n].id = m.id)
<1> DEFINE I == {i \in 1..Len(rows) : rows[i].id = m.id}
<1>1. SelectInSeq(rows, LAMBDA t : t.id = m.id) = IF I # {} THEN Min(I) ELSE 0
  BY DEF SelectInSeq
<1>2. I # {} => Min(I) \in I
  BY MinIsLeast
<1> QED BY <1>1, <1>2

\* A row that is closed or reported about is still a row, the same one.
LEMMA DoneIsRow ==
    ASSUME NEW t \in Rows, NEW bytes \in 0..MaxReports
    PROVE  /\ Done(t, bytes) \in Rows
           /\ Done(t, bytes).id = t.id /\ Done(t, bytes).origin = t.origin
           /\ Done(t, bytes).task = t.task /\ Done(t, bytes).done = TRUE
<1> DEFINE n == IF bytes > t.bytes THEN bytes ELSE t.bytes
<1>1. n \in 0..MaxReports
  BY DEF Rows
<1>2. Done(t, bytes) = [t EXCEPT !.done = TRUE, !.bytes = n]
  BY DEF Done
<1> HIDE DEF n
<1> QED BY <1>1, <1>2 DEF Rows

\* Row i takes the bytes of a report.
LEMMA ReportIsRow ==
    ASSUME NEW t \in Rows, NEW bytes \in 0..MaxReports
    PROVE  LET u == [t EXCEPT !.bytes = bytes]
           IN  /\ u \in Rows /\ u.id = t.id /\ u.origin = t.origin
               /\ u.task = t.task /\ u.done = t.done
BY DEF Rows

\* Turns of the loops of poll_messages.
LEMMA ServerProgressChanges ==
    ASSUME TypeInv, NEW bytes \in 0..MaxReports, ServerProgress(bytes)
    PROVE  \/ UNCHANGED transfers
           \/ \E i \in 1..Len(transfers), t \in Rows :
                 /\ transfers' = [transfers EXCEPT ![i] = t]
                 /\ OpenRow(transfers[i]) /\ t.done = transfers[i].done
                 /\ t.id = transfers[i].id /\ t.origin = transfers[i].origin
                 /\ t.task = transfers[i].task
<1>1. transfers \in Seq(Rows)
  BY Types DEF TypeInv
<1> DEFINE i == SelectLastInSeq(transfers, OpenRow)
           t == [transfers[i] EXCEPT !.bytes = bytes]
<1>2. i = 0 \/ (i \in 1..Len(transfers) /\ OpenRow(transfers[i]))
  BY <1>1, LastOpenRowPicks
<1>3. transfers' = IF i = 0 THEN transfers ELSE [transfers EXCEPT ![i] = t]
  BY DEF ServerProgress
<1> HIDE DEF i
<1>4. CASE i = 0
  BY <1>3, <1>4
<1>5. CASE i # 0
  <2>1. i \in 1..Len(transfers) /\ OpenRow(transfers[i]) /\ transfers[i] \in Rows
    BY <1>1, <1>2, <1>5, ElementOfSeq
  <2>2. /\ t \in Rows /\ t.id = transfers[i].id /\ t.origin = transfers[i].origin
        /\ t.task = transfers[i].task /\ t.done = transfers[i].done
    BY <2>1, ReportIsRow
  <2>3. transfers' = [transfers EXCEPT ![i] = t]
    BY <1>3, <1>5
  <2> HIDE DEF t
  <2> QED BY <2>1, <2>2, <2>3
<1> QED BY <1>4, <1>5

LEMMA ClientMessageChanges ==
    ASSUME TypeInv, NEW m \in Messages, ClientMessage(m)
    PROVE  \/ UNCHANGED transfers
           \/ \E i \in 1..Len(transfers), t \in Rows :
                 /\ transfers' = [transfers EXCEPT ![i] = t]
                 /\ transfers[i].id = m.id /\ t.done = TRUE
                 /\ t.id = transfers[i].id /\ t.origin = transfers[i].origin
                 /\ t.task = transfers[i].task
<1>1. transfers \in Seq(Rows)
  BY Types DEF TypeInv
<1> DEFINE i == SelectInSeq(transfers, LAMBDA t : t.id = m.id)
           u == Done(transfers[i], m.bytes)
<1>2. i = 0 \/ (i \in 1..Len(transfers) /\ transfers[i].id = m.id)
  BY <1>1, RowOfMessagePicks
<1>3. transfers' = IF i = 0 THEN transfers ELSE [transfers EXCEPT ![i] = u]
  BY DEF ClientMessage
<1> HIDE DEF i
<1>4. CASE i = 0
  BY <1>3, <1>4
<1>5. CASE i # 0
  <2>1. i \in 1..Len(transfers) /\ transfers[i].id = m.id /\ transfers[i] \in Rows
    BY <1>1, <1>2, <1>5, ElementOfSeq
  <2>2. m.bytes \in 0..MaxReports
    BY DEF Messages
  <2>3. /\ u \in Rows /\ u.id = transfers[i].id /\ u.origin = transfers[i].origin
        /\ u.task = transfers[i].task /\ u.done = TRUE
    BY <2>1, <2>2, DoneIsRow
  <2>4. transfers' = [transfers EXCEPT ![i] = u]
    BY <1>3, <1>5
  <2> HIDE DEF u
  <2> QED BY <2>1, <2>3, <2>4
<1> QED BY <1>4, <1>5

\* The end of a task closes the newest row that is open and fits.
LEMMA ClosingEventChanges ==
    ASSUME TypeInv, NEW e \in TransferEvents, e.done, TransferEvent(e)
    PROVE  /\ UNCHANGED next_id
           /\ \/ /\ UNCHANGED transfers
                 /\ \A i \in 1..Len(transfers) :
                       ~(OpenRow(transfers[i]) /\ <<e.origin, transfers[i].origin>> \in Inside)
              \/ \E i \in 1..Len(transfers), t \in Rows :
                    /\ transfers' = [transfers EXCEPT ![i] = t]
                    /\ OpenRow(transfers[i])
                    /\ <<e.origin, transfers[i].origin>> \in Inside
                    /\ \A j \in 1..Len(transfers) :
                          OpenRow(transfers[j]) /\ <<e.origin, transfers[j].origin>> \in Inside
                              => j <= i
                    /\ t.done = TRUE
                    /\ t.id = transfers[i].id /\ t.origin = transfers[i].origin
                    /\ t.task = transfers[i].task
<1>1. transfers \in Seq(Rows)
  BY Types DEF TypeInv
<1> DEFINE i == RowOfEvent(transfers, e)
           u == Done(transfers[i], e.bytes)
           fits(j) == OpenRow(transfers[j]) /\ <<e.origin, transfers[j].origin>> \in Inside
<1>2. \/ i = 0 /\ \A j \in 1..Len(transfers) : ~fits(j)
      \/ i \in 1..Len(transfers) /\ fits(i) /\ \A j \in 1..Len(transfers) : fits(j) => j <= i
  BY <1>1, RowOfEventPicks
<1>3. /\ transfers' = IF i = 0 THEN transfers ELSE [transfers EXCEPT ![i] = u]
      /\ UNCHANGED next_id
  BY DEF TransferEvent
<1> HIDE DEF i
<1>4. CASE i = 0
  <2>1. 0 \notin 1..Len(transfers)
    OBVIOUS
  <2> QED BY <1>2, <1>3, <1>4, <2>1
<1>5. CASE i # 0
  <2>1. i \in 1..Len(transfers) /\ fits(i) /\ transfers[i] \in Rows
        /\ \A j \in 1..Len(transfers) : fits(j) => j <= i
    BY <1>1, <1>2, <1>5, ElementOfSeq
  <2>2. e.bytes \in 0..MaxReports
    BY DEF TransferEvents
  <2>3. /\ u \in Rows /\ u.id = transfers[i].id /\ u.origin = transfers[i].origin
        /\ u.task = transfers[i].task /\ u.done = TRUE
    BY <2>1, <2>2, DoneIsRow
  <2>4. transfers' = [transfers EXCEPT ![i] = u]
    BY <1>3, <1>5
  <2> HIDE DEF u
  <2> QED BY <1>3, <2>1, <2>3, <2>4
<1> QED BY <1>4, <1>5

\* A row that replaces another leaves the table a table.
LEMMA ChangedTable ==
    ASSUME transfers \in Seq(Rows), NEW i \in 1..Len(transfers), NEW t \in Rows,
           transfers' = [transfers EXCEPT ![i] = t]
    PROVE  transfers' \in Seq(Rows) /\ Len(transfers') = Len(transfers)
BY ExceptSeq

\* A turn of one of the loops of poll_messages.
LEMMA PollEventsTypes ==
    ASSUME TypeInv, PollEvents, UNCHANGED appVars
    PROVE  TypeInv'
<1> USE DEF appVars
<1>1. /\ transfers \in Seq(Rows) /\ events \in Seq(TransferEvents)
      /\ Len(events) \in Nat /\ Len(clients) \in Nat /\ Len(tasks) \in Nat
      /\ next_id \in Nat \ {0} /\ Waiting \in Nat /\ MaxTransfers \in Nat /\ Len(arrivals) \in Nat
      /\ MaxReports \in Nat
  BY Types DEF TypeInv
<1>2. UNCHANGED <<clients, messages, said, srv, holder, arrivals, tasks,
                  attached, lines, progress>>
  BY DEF PollEvents
<1>3. CASE events = <<>>
  <2>1. phase' = "progress" /\ UNCHANGED <<transfers, next_id, events>>
    BY <1>3 DEF PollEvents
  <2>2. Bounded'
    BY <1>2, <2>1, BoundedFrame
  <2> QED BY <1>2, <2>1, <2>2 DEF TypeInv, TypeOK, ServerOK, RowsOK
<1>4. CASE events # <<>>
  <2> DEFINE e == Head(events)
             q == Tail(events)
  <2>1. TransferEvent(e) /\ events' = q /\ UNCHANGED phase
    BY <1>4 DEF PollEvents
  <2>2. /\ e \in TransferEvents /\ q \in Seq(TransferEvents) /\ Len(q) = Len(events) - 1
        /\ \A i \in 1..Len(q) : q[i] = events[i + 1]
        /\ e = events[1] /\ 1 \in 1..Len(events)
    BY <1>1, <1>4, HeadTailProperties
  <2>3. e.task \in Nat /\ e.origin \in Origins /\ e.task <= Len(tasks)
    BY <1>1, <2>2 DEF TransferEvents, TypeInv, Bounded, Counted, Numbered
  <2>4. /\ Len(tasks) + Waiting <= Len(arrivals) /\ Len(arrivals) + Len(clients) <= MaxTransfers
        /\ next_id - 1 <= Len(clients) + Len(tasks)
    BY DEF TypeInv, Bounded, Counted, Numbered
  <2> HIDE DEF q
  <2>5. ASSUME NEW i \in 1..Len(q)
        PROVE  /\ i + 1 \in 1..Len(events) /\ q[i] = events[i + 1]
               /\ q[i].task \in Nat /\ q[i].task <= Len(tasks)
               /\ ~q[i].done => Starts(i + 1) /\ next_id <= Len(clients) + q[i].task
    <3>1. i + 1 \in 1..Len(events) /\ q[i] = events[i + 1]
      BY <1>1, <2>2
    <3>2. events[i + 1] \in TransferEvents
      BY <1>1, <3>1, ElementOfSeq
    <3>3. events[i + 1].task \in Nat
      BY <3>2 DEF TransferEvents
    <3> QED BY <3>1, <3>3 DEF TypeInv, Bounded, Counted, Numbered, Starts
  <2>6. ASSUME NEW i \in 1..Len(q), NEW j \in 1..Len(q), ~q[i].done, ~q[j].done, i < j
        PROVE  q[i].task < q[j].task
    <3>1. i + 1 < j + 1
      BY <2>6
    <3> QED BY <2>5, <2>6, <3>1 DEF TypeInv, Bounded, Counted, Numbered
  <2>7. CASE e.done
    <3>1. UNCHANGED next_id
      BY <2>1, <2>2, <2>7, ClosingEventChanges
    <3>2. transfers' \in Seq(Rows)
      <4>1. \/ UNCHANGED transfers
            \/ \E i \in 1..Len(transfers), t \in Rows : transfers' = [transfers EXCEPT ![i] = t]
        BY <2>1, <2>2, <2>7, ClosingEventChanges
      <4> QED BY <1>1, <4>1, ChangedTable
    <3> HIDE DEF e
    <3>3. Bounded'
      BY <1>1, <1>2, <2>1, <2>4, <2>5, <2>6, <3>1 DEF Bounded, Counted, Numbered, Starts, Waiting
    <3> QED BY <1>2, <2>1, <2>2, <3>1, <3>2, <3>3 DEF TypeInv, TypeOK, ServerOK, RowsOK
  <2>8. CASE ~e.done
    <3> DEFINE r == Row(next_id, e.origin, e.task)
    <3>1. transfers' = Append(transfers, r) /\ next_id' = next_id + 1
      BY <2>1, <2>8 DEF TransferEvent
    <3>2. next_id <= Len(clients) + e.task
      BY <2>2, <2>8 DEF TypeInv, Bounded, Counted, Numbered, Starts
    <3>3. next_id \in RowIds /\ e.task \in 0..MaxTransfers
      BY <1>1, <2>3, <2>4, <3>2 DEF RowIds
    <3>4. r \in Rows
      BY <1>1, <2>3, <3>3 DEF Row, Rows
    <3>5. transfers' \in Seq(Rows)
      BY <1>1, <3>1, <3>4, AppendProperties
    <3>6. ASSUME NEW i \in 1..Len(q), ~q[i].done PROVE next_id' <= Len(clients) + q[i].task
      <4>1. 1 < i + 1 /\ Starts(1) /\ Starts(i + 1) /\ i + 1 \in 1..Len(events)
        BY <2>2, <2>5, <2>8, <3>6 DEF Starts
      <4>2. events[1].task < events[i + 1].task
        BY <2>2, <4>1 DEF TypeInv, Bounded, Counted, Numbered
      <4>3. e.task < q[i].task
        BY <2>2, <2>5, <4>2
      <4>4. e.task \in Nat /\ q[i].task \in Nat
        BY <2>3, <2>5
      <4> HIDE DEF e
      <4> QED BY <1>1, <3>1, <3>2, <4>3, <4>4
    <3>7. next_id' - 1 <= Len(clients) + Len(tasks)
      BY <1>1, <2>3, <3>1, <3>2
    <3> HIDE DEF e
    <3>8. Bounded'
      BY <1>2, <2>1, <2>4, <2>5, <2>6, <3>6, <3>7
         DEF Bounded, Counted, Numbered, Starts, Waiting
    <3>9. next_id' \in 1..(MaxTransfers + 1)
      BY <1>1, <2>4, <3>1, <3>7
    <3> QED BY <1>2, <2>1, <2>2, <3>5, <3>8, <3>9 DEF TypeInv, TypeOK, ServerOK, RowsOK
  <2> QED BY <2>7, <2>8
<1> QED BY <1>3, <1>4

LEMMA OtherPollsTypes ==
    ASSUME TypeInv, PollStatus \/ PollProgress \/ PollMessages, UNCHANGED appVars
    PROVE  TypeInv'
<1> USE DEF appVars, serverVars, channels
<1>1. /\ transfers \in Seq(Rows) /\ lines \in Seq(StatusLines)
      /\ progress \in Seq(1..MaxReports) /\ messages \in Seq(Messages)
      /\ Waiting \in Nat /\ MaxReports \in Nat
  BY Types DEF TypeInv
<1>2. CASE PollStatus
  <2>1. lines' \in Seq(StatusLines)
        /\ said' \in StatusLines \cup {"nothing", "starting", "stop requested"}
    <3>1. said \in StatusLines \cup {"nothing", "starting", "stop requested"}
      BY DEF TypeInv, TypeOK, RowsOK
    <3>2. CASE lines # <<>>
      <4>1. Head(lines) \in StatusLines /\ Tail(lines) \in Seq(StatusLines)
        BY <1>1, <3>2, HeadTailProperties
      <4>2. said' = Head(lines) /\ lines' = Tail(lines)
        BY <1>2, <3>2 DEF PollStatus
      <4> QED BY <4>1, <4>2
    <3>3. CASE lines = <<>>
      BY <1>1, <1>2, <3>1, <3>3 DEF PollStatus
    <3> QED BY <3>2, <3>3
  <2>2. phase' \in {"status", "events", "progress", "messages"}
    BY <1>2 DEF PollStatus, TypeInv, TypeOK, RowsOK
  <2>3. UNCHANGED <<transfers, next_id, clients, messages, srv, holder, arrivals,
                    tasks, attached, events, progress>>
    BY <1>2 DEF PollStatus
  <2>4. Bounded'
    BY <2>3, BoundedFrame
  <2> QED BY <2>1, <2>2, <2>3, <2>4 DEF TypeInv, TypeOK, ServerOK, RowsOK
<1>3. CASE PollProgress
  <2>1. UNCHANGED <<next_id, clients, messages, said, srv, holder, arrivals, tasks,
                    attached, lines, events>>
    BY <1>3 DEF PollProgress
  <2>2. phase' \in {"status", "events", "progress", "messages"}
    BY <1>3 DEF PollProgress, TypeInv, TypeOK, RowsOK
  <2>3. transfers' \in Seq(Rows) /\ progress' \in Seq(1..MaxReports)
    <3>1. CASE progress = <<>>
      BY <1>1, <1>3, <3>1 DEF PollProgress
    <3>2. CASE progress # <<>>
      <4>1. Head(progress) \in 0..MaxReports /\ Tail(progress) \in Seq(1..MaxReports)
        <5>1. Head(progress) \in 1..MaxReports /\ Tail(progress) \in Seq(1..MaxReports)
          BY <1>1, <3>2, HeadTailProperties
        <5> QED BY <5>1
      <4>2. ServerProgress(Head(progress)) /\ progress' = Tail(progress)
        BY <1>3, <3>2 DEF PollProgress
      <4> QED BY <1>1, <4>1, <4>2, ServerProgressChanges, ChangedTable
    <3> QED BY <3>1, <3>2
  <2>4. Bounded'
    BY <2>1, BoundedFrame
  <2> QED BY <2>1, <2>2, <2>3, <2>4 DEF TypeInv, TypeOK, ServerOK, RowsOK
<1>4. CASE PollMessages
  <2>1. UNCHANGED <<phase, next_id, clients, said, serverVars>>
    BY <1>4 DEF PollMessages
  <2>2. Head(messages) \in Messages /\ messages' \in Seq(Messages)
    BY <1>1, <1>4, HeadTailProperties DEF PollMessages
  <2>3. ClientMessage(Head(messages))
    BY <1>4 DEF PollMessages
  <2>4. transfers' \in Seq(Rows)
    BY <1>1, <2>2, <2>3, ClientMessageChanges, ChangedTable
  <2>5. Bounded'
    BY <2>1, BoundedFrame
  <2> QED BY <2>1, <2>2, <2>4, <2>5 DEF TypeInv, TypeOK, ServerOK, RowsOK, Messages
<1> QED BY <1>2, <1>3, <1>4

\* The user's buttons.
LEMMA FrameTypes ==
    ASSUME TypeInv, Frame
    PROVE  TypeInv'
<1> USE DEF serverVars, channels, appVars
<1>0. /\ ServerOK /\ RowsOK
      /\ running \in BOOLEAN /\ server_stop \in 0..MaxStarts
  BY DEF TypeInv, TypeOK
<1>1. /\ transfers \in Seq(Rows) /\ clients \in Seq(ClientRecords)
      /\ srv \in [Servers -> ThreadStates]
      /\ Len(clients) \in Nat /\ Len(tasks) \in Nat
      /\ next_id \in Nat \ {0} /\ Waiting \in Nat /\ Len(arrivals) \in Nat
      /\ MaxTransfers \in Nat /\ MaxReports \in Nat /\ MaxStarts \in Nat
  BY Types DEF TypeInv
<1>2. phase' \in {"status", "events", "progress", "messages"}
  BY DEF Frame
<1>3. ASSUME NEW g \in Servers, NEW p \in Ports, Start(g, p) PROVE TypeInv'
  <2>1. srv' = [srv EXCEPT ![g] = [srv[g] EXCEPT !.pc = "probe", !.port = p]]
    BY <1>1, <1>3 DEF Start
  <2>2. srv' \in [Servers -> ThreadStates]
    BY <1>1, <2>1 DEF ServerPcs, ThreadStates
  <2>3. g \in 0..MaxStarts
    BY <1>1 DEF Servers
  <2>4. /\ attached' = g /\ lines' = <<>> /\ events' = <<>> /\ progress' = <<>>
        /\ said' = "starting" /\ server_stop' = g
        /\ UNCHANGED <<holder, arrivals, tasks, transfers, next_id, clients, messages>>
    BY <1>3 DEF Start
  <2>5. running' \in BOOLEAN
    <3>1. running' = TRUE
      BY <1>3 DEF Start
    <3> QED BY <3>1
  <2>6. Len(events') = 0
    BY <2>4, EmptySeq
  <2>7. Bounded'
    BY <2>4, <2>6 DEF TypeInv, Bounded, Counted, Numbered, Waiting
  <2>8. ServerOK'
    BY <1>0, <2>2, <2>3, <2>4, EmptySeq DEF ServerOK, ThreadStates
  <2>9. RowsOK'
    BY <1>0, <1>2, <2>4 DEF RowsOK
  <2> QED BY <2>3, <2>4, <2>5, <2>7, <2>8, <2>9 DEF TypeInv, TypeOK
<1>4. CASE Stop
  <2>1. srv' \in [Servers -> ThreadStates]
    BY <1>1, <1>4 DEF Stop, ThreadStates
  <2>2. /\ UNCHANGED <<holder, arrivals, tasks, attached, lines, events, progress,
                       transfers, next_id, clients, messages>>
        /\ said' = "stop requested" /\ server_stop' = 0
    BY <1>4 DEF Stop
  <2>3. running' \in BOOLEAN
    <3>1. running' = FALSE
      BY <1>4 DEF Stop
    <3> QED BY <3>1
  <2>4. Bounded'
    BY <2>2, BoundedFrame
  <2>5. ServerOK'
    BY <1>0, <2>1, <2>2 DEF ServerOK, ThreadStates
  <2>6. RowsOK'
    BY <1>0, <1>2, <2>2 DEF RowsOK
  <2>7. server_stop' \in 0..MaxStarts
    <3>1. 0 \in 0..MaxStarts
      BY GuiServerAssumption
    <3>2. server_stop' = 0
      BY <1>4 DEF Stop
    <3> QED BY <3>1, <3>2
  <2> QED BY <2>3, <2>4, <2>5, <2>6, <2>7 DEF TypeInv, TypeOK
<1>5. CASE OneMore /\ StartTransfer /\ UNCHANGED appVars
  <2> DEFINE r == Row(next_id, NoOrigin, 0)
             c == [id |-> next_id, pc |-> "run"]
  <2>1. /\ transfers' = Append(transfers, r) /\ clients' = Append(clients, c)
        /\ next_id' = next_id + 1 /\ UNCHANGED <<messages, said, serverVars>>
    BY <1>5 DEF StartTransfer
  <2>2. /\ Len(tasks) + Waiting <= Len(arrivals) /\ Len(arrivals) + Len(clients) < MaxTransfers
        /\ next_id - 1 <= Len(clients) + Len(tasks)
    BY <1>5 DEF TypeInv, Bounded, Counted, Numbered, OneMore
  <2>3. next_id \in RowIds
    BY <1>1, <2>2 DEF RowIds
  <2>4. r \in Rows /\ c \in ClientRecords
    BY <1>1, <2>3 DEF Row, Rows, ClientRecords
  <2>5. transfers' \in Seq(Rows) /\ clients' \in Seq(ClientRecords)
        /\ Len(clients') = Len(clients) + 1
    BY <1>1, <2>1, <2>4, AppendProperties
  <2>6. ASSUME NEW i \in 1..Len(events)
        PROVE  /\ events[i].task <= Len(tasks)
               /\ Starts(i) => next_id' <= Len(clients') + events[i].task
    <3>1. events[i] \in TransferEvents
      BY ElementOfSeq, Types DEF TypeInv
    <3>2. events[i].task \in Nat
      BY <3>1 DEF TransferEvents
    <3>3. /\ events[i].task <= Len(tasks)
          /\ Starts(i) => next_id <= Len(clients) + events[i].task
      BY DEF TypeInv, Bounded, Counted, Numbered
    <3> QED BY <1>1, <2>1, <2>5, <3>2, <3>3
  <2>7. /\ next_id' - 1 <= Len(clients') + Len(tasks)
        /\ Len(arrivals) + Len(clients') <= MaxTransfers
    BY <1>1, <2>1, <2>2, <2>5
  <2>8. Bounded'
    BY <2>1, <2>6, <2>7 DEF TypeInv, Bounded, Counted, Numbered, Starts, Waiting
  <2>9. next_id' \in 1..(MaxTransfers + 1)
    BY <1>1, <2>1, <2>3 DEF RowIds
  <2> HIDE DEF r, c
  <2> QED BY <1>0, <1>2, <1>5, <2>1, <2>5, <2>8, <2>9
          DEF TypeInv, TypeOK, ServerOK, RowsOK, ClientRecords
<1>6. ASSUME NEW i \in DOMAIN transfers, RemoveRow(i), UNCHANGED appVars PROVE TypeInv'
  <2>1. i \in 1..Len(transfers)
    BY <1>1, LenProperties
  <2>2. transfers' \in Seq(Rows)
    BY <1>1, <1>6, <2>1, RemoveAtInSeq DEF RemoveRow
  <2>3. UNCHANGED <<next_id, clients, messages, said, serverVars>>
    BY <1>6 DEF RemoveRow
  <2>4. Bounded'
    BY <2>3, BoundedFrame
  <2> QED BY <1>0, <1>2, <1>6, <2>2, <2>3, <2>4 DEF TypeInv, TypeOK, ServerOK, RowsOK
<1>7. CASE NoClick
  <2>1. UNCHANGED <<transfers, next_id, clients, messages, said, serverVars, appVars>>
    BY <1>7 DEF NoClick
  <2>2. Bounded'
    BY <2>1, BoundedFrame
  <2> QED BY <1>0, <1>2, <2>1, <2>2 DEF TypeInv, TypeOK, ServerOK, RowsOK
<1> QED BY <1>3, <1>4, <1>5, <1>6, <1>7 DEF Frame

LEMMA TypeInvNext == TypeInv /\ [Next]_vars => TypeInv'
<1> SUFFICES ASSUME TypeInv, [Next]_vars PROVE TypeInv'
  OBVIOUS
<1>1. CASE UI
  BY <1>1, PollEventsTypes, OtherPollsTypes, FrameTypes DEF UI
<1>2. CASE \E g \in Servers : ServerThread(g) \/ GiveUp(g)
  BY <1>2, ThreadTypes DEF ServerThread, GiveUp
<1>3. CASE \E k \in 1..MaxTransfers : ServerTask(k) \/ Client(k)
  BY <1>3, TaskTypes, ClientTypes DEF ServerTask, Client
<1>4. CASE OneMore /\ Arrive /\ UNCHANGED <<rowVars, appVars>>
  BY <1>4, ArriveTypes
<1>5. CASE UNCHANGED vars
  <2>1. UNCHANGED <<rowVars, serverVars, appVars>>
    BY <1>5 DEF vars
  <2>2. Bounded'
    BY <2>1, BoundedFrame DEF rowVars, serverVars, channels
  <2> QED BY <2>1, <2>2 DEF TypeInv, TypeOK, ServerOK, RowsOK, rowVars, serverVars,
                            channels, appVars
<1> QED BY <1>1, <1>2, <1>3, <1>4, <1>5 DEF Next

\* Nothing outgrows its bound: there is an id for every row, and no more tasks, rows,
\* events or clients than there were datagrams and clicks, however the channels of
\* successive servers are filled and dropped.
THEOREM GuiTypes == Spec => []TypeOK
<1>1. TypeInv => TypeOK
  BY DEF TypeInv
<1> QED BY <1>1, TypeInvInit, TypeInvNext, PTL DEF Spec

-----------------------------------------------------------------------------
(* Ids.  An id is given once, and the rows and the clients stand in the      *)
(* order of theirs.  A message comes from a client that has ended, one from  *)
(* each; and a client's row, which no event of a server can find, is not     *)
(* closed before that message is taken.                                      *)

Quiet(id) ==
    /\ \A c \in 1..Len(clients) : clients[c].id = id => clients[c].pc # "run"
    /\ \A m \in 1..Len(messages) : messages[m].id # id

RowsInOrder ==
    /\ \A i, j \in 1..Len(transfers) : i < j => transfers[i].id < transfers[j].id
    /\ \A i \in 1..Len(transfers) : transfers[i].id < next_id

ClientsInOrder ==
    /\ \A c, d \in 1..Len(clients) : c < d => clients[c].id < clients[d].id
    /\ \A c \in 1..Len(clients) : clients[c].id < next_id

MessagesFollow ==
    /\ \A m, n \in 1..Len(messages) : m # n => messages[m].id # messages[n].id
    /\ \A m \in 1..Len(messages) :
          \E c \in 1..Len(clients) : clients[c].id = messages[m].id /\ clients[c].pc = "ended"

ClosedForGood ==
    \A i \in 1..Len(transfers) :
        /\ IsServerRow(transfers[i]) =>
               \A c \in 1..Len(clients) : clients[c].id # transfers[i].id
        /\ transfers[i].done =>
               /\ \A c \in 1..Len(clients) :
                     clients[c].id = transfers[i].id => clients[c].pc # "run"
               /\ \A m \in 1..Len(messages) : messages[m].id # transfers[i].id

IdsInv == RowsInOrder /\ ClientsInOrder /\ MessagesFollow /\ ClosedForGood

LEMMA IdsInit == Init => IdsInv
<1> SUFFICES ASSUME Init PROVE IdsInv
  OBVIOUS
<1>1. Len(transfers) = 0 /\ Len(clients) = 0 /\ Len(messages) = 0
  BY EmptySeq DEF Init, RowsInit
<1> QED BY <1>1 DEF IdsInv, RowsInOrder, ClientsInOrder, MessagesFollow, ClosedForGood

\* The numbers that ids are.
LEMMA IdsAreNat ==
    ASSUME TypeInv
    PROVE  /\ \A i \in 1..Len(transfers) : transfers[i].id \in Nat
           /\ \A c \in 1..Len(clients) : clients[c].id \in Nat
           /\ \A m \in 1..Len(messages) : messages[m].id \in Nat
<1>1. /\ transfers \in Seq(Rows) /\ clients \in Seq(ClientRecords) /\ messages \in Seq(Messages)
  BY Types DEF TypeInv
<1>2. /\ \A i \in 1..Len(transfers) : transfers[i] \in Rows
      /\ \A c \in 1..Len(clients) : clients[c] \in ClientRecords
      /\ \A m \in 1..Len(messages) : messages[m] \in Messages
  BY <1>1, ElementOfSeq
<1> QED BY <1>2 DEF Rows, ClientRecords, Messages, RowIds

\* A row changes but for its id and its origin, and closes only if nothing more is
\* expected from its client.
LEMMA IdsOfChangedRow ==
    ASSUME TypeInv, IdsInv, NEW i \in 1..Len(transfers), NEW t \in Rows,
           transfers' = [transfers EXCEPT ![i] = t],
           t.id = transfers[i].id, t.origin = transfers[i].origin,
           UNCHANGED <<next_id, clients, messages>>,
           t.done => transfers[i].done \/ Quiet(t.id)
    PROVE  IdsInv'
<1>1. /\ Len(transfers') = Len(transfers) /\ transfers'[i] = t
      /\ \A j \in 1..Len(transfers) : j # i => transfers'[j] = transfers[j]
  BY ExceptSeq, Types DEF TypeInv
<1>2. ASSUME NEW j \in 1..Len(transfers)
      PROVE  /\ transfers'[j].id = transfers[j].id
             /\ transfers'[j].origin = transfers[j].origin
             /\ transfers'[j].done => Quiet(transfers[j].id)
  BY <1>1 DEF IdsInv, ClosedForGood, Quiet
<1>3. RowsInOrder'
  BY <1>1, <1>2 DEF IdsInv, RowsInOrder
<1>4. ClientsInOrder' /\ MessagesFollow'
  BY DEF IdsInv, ClientsInOrder, MessagesFollow
<1>5. ClosedForGood'
  BY <1>1, <1>2 DEF IdsInv, ClosedForGood, IsServerRow, Quiet
<1> QED BY <1>3, <1>4, <1>5 DEF IdsInv

\* A row is appended, and perhaps its client; a new id is above all others.
LEMMA IdsOfNewRow ==
    ASSUME TypeInv, IdsInv, NEW r \in Rows, transfers' = Append(transfers, r),
           r.id = next_id, ~r.done, next_id' = next_id + 1, UNCHANGED messages,
           \/ UNCHANGED clients
           \/ /\ clients' = Append(clients, [id |-> next_id, pc |-> "run"])
              /\ next_id \in RowIds /\ ~IsServerRow(r)
    PROVE  IdsInv'
<1> DEFINE n == Len(transfers) + 1
<1>1. /\ Len(transfers) \in Nat /\ Len(transfers') = n /\ transfers'[n] = r
      /\ \A i \in 1..Len(transfers) : transfers'[i] = transfers[i]
  BY AppendProperties, Types DEF TypeInv
<1>2. /\ Len(clients) \in Nat /\ Len(clients') \in Nat /\ Len(clients') >= Len(clients)
      /\ \A c \in 1..Len(clients) : clients'[c] = clients[c]
      /\ \A c \in 1..Len(clients') :
            \/ c \in 1..Len(clients)
            \/ /\ c = Len(clients) + 1 /\ clients'[c].id = next_id /\ ~IsServerRow(r)
  <2>1. clients \in Seq(ClientRecords) /\ Len(clients) \in Nat
    BY Types DEF TypeInv
  <2>2. CASE UNCHANGED clients
    BY <2>1, <2>2
  <2>3. CASE ~UNCHANGED clients
    <3> DEFINE c == [id |-> next_id, pc |-> "run"]
    <3>1. clients' = Append(clients, c) /\ c \in ClientRecords /\ c.id = next_id
          /\ ~IsServerRow(r)
      BY <2>3 DEF ClientRecords
    <3> HIDE DEF c
    <3>2. Len(clients') = Len(clients) + 1 /\ clients'[Len(clients) + 1] = c
          /\ \A d \in 1..Len(clients) : clients'[d] = clients[d]
      BY <2>1, <3>1, AppendProperties
    <3> QED BY <2>1, <3>1, <3>2
  <2> QED BY <2>2, <2>3
<1>3. next_id \in Nat
  BY Types DEF TypeInv
<1>4. /\ \A i \in 1..Len(transfers) : transfers[i].id \in Nat
      /\ \A c \in 1..Len(clients) : clients[c].id \in Nat
      /\ \A m \in 1..Len(messages) : messages[m].id \in Nat
  BY IdsAreNat
<1> HIDE DEF n
<1>5. \A i \in 1..Len(transfers') : i \in 1..Len(transfers) \/ i = n
  BY <1>1 DEF n
<1>6. \A i, j \in 1..Len(transfers') : i < j => transfers'[i].id < transfers'[j].id
  <2> SUFFICES ASSUME NEW i \in 1..Len(transfers'), NEW j \in 1..Len(transfers'), i < j
               PROVE  transfers'[i].id < transfers'[j].id
    OBVIOUS
  <2>1. i \in 1..Len(transfers)
    BY <1>1 DEF n
  <2> QED BY <1>1, <1>5, <2>1 DEF IdsInv, RowsInOrder
<1>7. \A i \in 1..Len(transfers') : transfers'[i].id < next_id'
  BY <1>1, <1>3, <1>4, <1>5 DEF IdsInv, RowsInOrder
<1>8. \A c \in 1..Len(clients') : clients'[c].id < next_id'
  BY <1>2, <1>3, <1>4 DEF IdsInv, ClientsInOrder
<1>9. \A c, d \in 1..Len(clients') : c < d => clients'[c].id < clients'[d].id
  BY <1>2, <1>3, <1>4 DEF IdsInv, ClientsInOrder
<1>10. \A m \in 1..Len(messages') :
          \E c \in 1..Len(clients') : clients'[c].id = messages'[m].id /\ clients'[c].pc = "ended"
  <2> TAKE m \in 1..Len(messages')
  <2>1. m \in 1..Len(messages) /\ messages'[m] = messages[m]
    OBVIOUS
  <2>2. PICK c \in 1..Len(clients) : clients[c].id = messages[m].id /\ clients[c].pc = "ended"
    BY <2>1 DEF IdsInv, MessagesFollow
  <2>3. c \in 1..Len(clients') /\ clients'[c] = clients[c]
    BY <1>2
  <2> QED BY <2>1, <2>2, <2>3
<1>11. ASSUME NEW i \in 1..Len(transfers'), IsServerRow(transfers'[i])
       PROVE  \A c \in 1..Len(clients') : clients'[c].id # transfers'[i].id
  BY <1>1, <1>2, <1>3, <1>4, <1>5, <1>11 DEF IdsInv, RowsInOrder, ClientsInOrder, ClosedForGood
<1>12. ASSUME NEW i \in 1..Len(transfers'), transfers'[i].done,
              NEW id, id = transfers'[i].id
       PROVE  /\ \A c \in 1..Len(clients') : clients'[c].id = id => clients'[c].pc # "run"
              /\ \A m \in 1..Len(messages') : messages'[m].id # id
  <2>1. i \in 1..Len(transfers) /\ transfers'[i] = transfers[i]
    BY <1>1, <1>5, <1>12
  <2>2. Quiet(id) /\ id < next_id /\ id \in Nat
    BY <1>4, <1>12, <2>1 DEF IdsInv, RowsInOrder, ClosedForGood, Quiet
  <2>3. ASSUME NEW c \in 1..Len(clients'), clients'[c].id = id, clients'[c].pc = "run"
        PROVE  FALSE
    <3>1. c \in 1..Len(clients)
      BY <1>2, <1>3, <2>2, <2>3
    <3> QED BY <1>2, <2>2, <2>3, <3>1 DEF Quiet
  <2>4. \A m \in 1..Len(messages') : messages'[m].id # id
    BY <2>2 DEF Quiet
  <2> QED BY <2>3, <2>4
<1>13. \A m, h \in 1..Len(messages') : m # h => messages'[m].id # messages'[h].id
  BY DEF IdsInv, MessagesFollow
<1>14. RowsInOrder' /\ ClientsInOrder'
  BY <1>6, <1>7, <1>8, <1>9 DEF RowsInOrder, ClientsInOrder
<1>15. MessagesFollow'
  BY <1>10, <1>13 DEF MessagesFollow
<1>16. ClosedForGood'
  BY <1>11, <1>12 DEF ClosedForGood
<1> QED BY <1>14, <1>15, <1>16 DEF IdsInv

LEMMA IdsFrame ==
    ASSUME IdsInv, UNCHANGED <<transfers, next_id, clients, messages>>
    PROVE  IdsInv'
BY DEF IdsInv, RowsInOrder, ClientsInOrder, MessagesFollow, ClosedForGood

\* The message of a client closes its row, and no other message will.
LEMMA IdsOfMessage ==
    ASSUME TypeInv, IdsInv, PollMessages
    PROVE  /\ IdsInv'
           /\ \/ UNCHANGED transfers
              \/ \E i \in 1..Len(transfers), t \in Rows :
                    /\ transfers' = [transfers EXCEPT ![i] = t]
                    /\ ~transfers[i].done /\ ~IsServerRow(transfers[i])
                    /\ t.id = transfers[i].id /\ t.origin = transfers[i].origin
<1> DEFINE m == Head(messages)
           q == Tail(messages)
<1>1. /\ messages \in Seq(Messages) /\ messages # <<>>
      /\ transfers \in Seq(Rows) /\ Len(transfers) \in Nat
  BY Types DEF TypeInv, PollMessages
<1>2. /\ m \in Messages /\ m = messages[1] /\ 1 \in 1..Len(messages)
      /\ Len(q) = Len(messages) - 1 /\ Len(messages) \in Nat
      /\ \A k \in 1..Len(q) : q[k] = messages[k + 1]
  BY <1>1, HeadTailProperties, LenProperties
<1>3. ClientMessage(m) /\ messages' = q /\ UNCHANGED <<next_id, clients>>
  BY DEF PollMessages
<1> HIDE DEF q
<1> DEFINE up(k) == k + 1
<1>4. ASSUME NEW k \in 1..Len(messages')
      PROVE  /\ up(k) \in 1..Len(messages) /\ messages'[k] = messages[up(k)]
             /\ messages'[k].id # m.id
  <2>1. up(k) \in 1..Len(messages) /\ messages'[k] = messages[up(k)] /\ up(k) # 1
    BY <1>2, <1>3
  <2> QED BY <1>2, <2>1 DEF IdsInv, MessagesFollow
<1>5. \A k, n \in 1..Len(messages') : k # n => messages'[k].id # messages'[n].id
  <2> SUFFICES ASSUME NEW k \in 1..Len(messages'), NEW n \in 1..Len(messages'), k # n
               PROVE  messages'[k].id # messages'[n].id
    OBVIOUS
  <2>1. up(k) # up(n)
    OBVIOUS
  <2> HIDE DEF up, m
  <2>2. messages[up(k)].id # messages[up(n)].id
    BY <1>4, <2>1 DEF IdsInv, MessagesFollow
  <2> QED BY <1>4, <2>2
<1> HIDE DEF up, m
<1>6. \A k \in 1..Len(messages') :
         \E c \in 1..Len(clients') : clients'[c].id = messages'[k].id /\ clients'[c].pc = "ended"
  <2> TAKE k \in 1..Len(messages')
  <2>1. PICK c \in 1..Len(clients) :
           clients[c].id = messages[up(k)].id /\ clients[c].pc = "ended"
    BY <1>4 DEF IdsInv, MessagesFollow
  <2> QED BY <1>3, <1>4, <2>1
<1>7. PICK d \in 1..Len(clients) : clients[d].id = m.id /\ clients[d].pc = "ended"
  BY <1>2 DEF IdsInv, MessagesFollow
<1>8. \A c \in 1..Len(clients) : clients[c].id = m.id => c = d
  BY <1>7, IdsAreNat DEF IdsInv, ClientsInOrder
<1>9. CASE UNCHANGED transfers
  <2>1. \A i \in 1..Len(transfers') : transfers'[i].done =>
            \A k \in 1..Len(messages') : messages'[k].id # transfers'[i].id
    <3> SUFFICES ASSUME NEW i \in 1..Len(transfers), transfers[i].done,
                        NEW k \in 1..Len(messages')
                 PROVE  messages'[k].id # transfers[i].id
      BY <1>9
    <3>1. Quiet(transfers[i].id)
      BY DEF IdsInv, ClosedForGood, Quiet
    <3> QED BY <1>4, <3>1 DEF Quiet
  <2>2. IdsInv'
    <3>1. RowsInOrder' /\ ClientsInOrder'
      BY <1>3, <1>9 DEF IdsInv, RowsInOrder, ClientsInOrder
    <3>2. MessagesFollow'
      BY <1>5, <1>6 DEF MessagesFollow
    <3>3. ClosedForGood'
      BY <1>3, <1>9, <2>1 DEF IdsInv, ClosedForGood
    <3> QED BY <3>1, <3>2, <3>3 DEF IdsInv
  <2> QED BY <1>9, <2>2
<1>10. CASE \E i \in 1..Len(transfers), t \in Rows :
                 /\ transfers' = [transfers EXCEPT ![i] = t]
                 /\ transfers[i].id = m.id /\ t.done = TRUE
                 /\ t.id = transfers[i].id /\ t.origin = transfers[i].origin
                 /\ t.task = transfers[i].task
  <2>1. PICK i \in 1..Len(transfers), t \in Rows :
                 /\ transfers' = [transfers EXCEPT ![i] = t]
                 /\ transfers[i].id = m.id
                 /\ t.id = transfers[i].id /\ t.origin = transfers[i].origin
    BY <1>10
  <2>2. /\ Len(transfers') = Len(transfers) /\ transfers'[i] = t
        /\ \A j \in 1..Len(transfers) : j # i => transfers'[j] = transfers[j]
    BY <1>1, <2>1, ExceptSeq
  <2>3. ~transfers[i].done /\ ~IsServerRow(transfers[i])
    BY <1>2, <1>7, <2>1 DEF IdsInv, MessagesFollow, ClosedForGood
  <2>4. ASSUME NEW j \in 1..Len(transfers)
        PROVE  /\ transfers'[j].id = transfers[j].id
               /\ transfers'[j].origin = transfers[j].origin
               /\ j # i => transfers'[j].done = transfers[j].done
    BY <2>1, <2>2
  <2>5. ASSUME NEW j \in 1..Len(transfers'), transfers'[j].done
        PROVE  /\ \A c \in 1..Len(clients') :
                     clients'[c].id = transfers'[j].id => clients'[c].pc # "run"
               /\ \A k \in 1..Len(messages') : messages'[k].id # transfers'[j].id
    <3>1. CASE j = i
      BY <1>3, <1>4, <1>7, <1>8, <2>1, <2>2, <3>1
    <3>2. CASE j # i
      <4>1. j \in 1..Len(transfers) /\ transfers'[j] = transfers[j] /\ transfers[j].done
        BY <2>2, <2>5, <3>2
      <4>2. Quiet(transfers[j].id)
        BY <4>1 DEF IdsInv, ClosedForGood, Quiet
      <4> QED BY <1>3, <1>4, <4>1, <4>2 DEF Quiet
    <3> QED BY <3>1, <3>2
  <2>6. /\ \A j, k \in 1..Len(transfers') : j < k => transfers'[j].id < transfers'[k].id
        /\ \A j \in 1..Len(transfers') : transfers'[j].id < next_id'
    BY <1>3, <2>2, <2>4 DEF IdsInv, RowsInOrder
  <2>7. \A j \in 1..Len(transfers') : IsServerRow(transfers'[j]) =>
            \A c \in 1..Len(clients') : clients'[c].id # transfers'[j].id
    BY <1>3, <2>2, <2>4 DEF IdsInv, ClosedForGood, IsServerRow
  <2>8. IdsInv'
    <3>1. RowsInOrder' /\ ClientsInOrder'
      BY <1>3, <2>6 DEF IdsInv, RowsInOrder, ClientsInOrder
    <3>2. MessagesFollow'
      BY <1>5, <1>6 DEF MessagesFollow
    <3>3. ClosedForGood'
      BY <2>5, <2>7 DEF ClosedForGood
    <3> QED BY <3>1, <3>2, <3>3 DEF IdsInv
  <2> QED BY <2>1, <2>3, <2>8
<1> QED BY <1>2, <1>3, <1>9, <1>10, ClientMessageChanges

\* A row is removed.
LEMMA IdsOfRemoval ==
    ASSUME TypeInv, IdsInv, NEW i \in 1..Len(transfers), RemoveRow(i)
    PROVE  IdsInv'
<1>1. /\ transfers' = RemoveAt(transfers, i) /\ UNCHANGED <<next_id, clients, messages>>
      /\ transfers \in Seq(Rows)
  BY Types DEF TypeInv, RemoveRow
<1>2. /\ Len(transfers') = Len(transfers) - 1 /\ Len(transfers) \in Nat
      /\ \A j \in 1..Len(transfers') : transfers'[j] = transfers[IF j < i THEN j ELSE j + 1]
  BY <1>1, RemoveAtIndices
<1> DEFINE up(j) == IF j < i THEN j ELSE j + 1
<1>3. \A j \in 1..Len(transfers') : up(j) \in 1..Len(transfers) /\ transfers'[j] = transfers[up(j)]
  BY <1>2
<1>4. \A j, k \in 1..Len(transfers') : j < k => up(j) < up(k)
  BY <1>2
<1> HIDE DEF up
<1>5. RowsInOrder'
  BY <1>1, <1>3, <1>4 DEF IdsInv, RowsInOrder
<1>6. ClosedForGood'
  <2>1. ASSUME NEW j \in 1..Len(transfers'), IsServerRow(transfers'[j])
        PROVE  \A c \in 1..Len(clients') : clients'[c].id # transfers'[j].id
    BY <1>1, <1>3, <2>1 DEF IdsInv, ClosedForGood
  <2>2. ASSUME NEW j \in 1..Len(transfers'), transfers'[j].done
        PROVE  /\ \A c \in 1..Len(clients') :
                     clients'[c].id = transfers'[j].id => clients'[c].pc # "run"
               /\ \A m \in 1..Len(messages') : messages'[m].id # transfers'[j].id
    BY <1>1, <1>3, <2>2 DEF IdsInv, ClosedForGood
  <2> QED BY <2>1, <2>2 DEF ClosedForGood
<1>7. ClientsInOrder' /\ MessagesFollow'
  BY <1>1 DEF IdsInv, ClientsInOrder, MessagesFollow
<1> QED BY <1>5, <1>6, <1>7 DEF IdsInv

\* A client ends, and its message is the first with its id.
LEMMA IdsOfEnd ==
    ASSUME TypeInv, IdsInv, NEW c \in DOMAIN clients, ClientEnds(c)
    PROVE  IdsInv'
<1>1. /\ clients \in Seq(ClientRecords) /\ messages \in Seq(Messages)
      /\ Len(clients) \in Nat /\ Len(messages) \in Nat
  BY Types DEF TypeInv
<1>2. c \in 1..Len(clients) /\ clients[c] \in ClientRecords /\ clients[c].pc = "run"
  BY <1>1, LenProperties, ElementOfSeq DEF ClientEnds
<1>3. PICK bytes \in 0..MaxReports :
          messages' = Append(messages, [id |-> clients[c].id, bytes |-> bytes])
  BY DEF ClientEnds
<1> DEFINE m == [id |-> clients[c].id, bytes |-> bytes]
           n == Len(messages) + 1
           t == [clients[c] EXCEPT !.pc = "ended"]
<1>4. m \in Messages /\ m.id = clients[c].id
  BY <1>2 DEF Messages, ClientRecords
<1>5. t \in ClientRecords /\ t.id = clients[c].id /\ t.pc = "ended"
  BY <1>2 DEF ClientRecords
<1>6. clients' = [clients EXCEPT ![c] = t] /\ UNCHANGED <<transfers, next_id>>
  BY DEF ClientEnds
<1> HIDE DEF t, m
<1>7. /\ Len(messages') = n /\ messages'[n] = m
      /\ \A k \in 1..Len(messages) : messages'[k] = messages[k]
  BY <1>1, <1>3, <1>4, AppendProperties DEF m
<1>8. /\ Len(clients') = Len(clients) /\ clients'[c] = t
      /\ \A d \in 1..Len(clients) : d # c => clients'[d] = clients[d]
  BY <1>1, <1>2, <1>5, <1>6, ExceptSeq
<1>9. \A d \in 1..Len(clients) : clients'[d].id = clients[d].id
  BY <1>5, <1>8
<1>10. \A d \in 1..Len(clients) : clients[d].id = clients[c].id => d = c
  BY <1>2, IdsAreNat DEF IdsInv, ClientsInOrder
<1>11. \A k \in 1..Len(messages) : messages[k].id # m.id
  <2> SUFFICES ASSUME NEW k \in 1..Len(messages), messages[k].id = m.id PROVE FALSE
    OBVIOUS
  <2>1. PICK d \in 1..Len(clients) : clients[d].id = m.id /\ clients[d].pc = "ended"
    BY DEF IdsInv, MessagesFollow
  <2>2. d = c
    BY <1>4, <1>10, <2>1
  <2> QED BY <1>2, <2>1, <2>2
<1>12. \A k \in 1..Len(messages') : k \in 1..Len(messages) \/ k = n
  BY <1>1, <1>7
<1> HIDE DEF n
<1>13. \A k, j \in 1..Len(messages') : k # j => messages'[k].id # messages'[j].id
  <2> SUFFICES ASSUME NEW k \in 1..Len(messages'), NEW j \in 1..Len(messages'), k # j
               PROVE  messages'[k].id # messages'[j].id
    OBVIOUS
  <2>1. CASE k \in 1..Len(messages) /\ j \in 1..Len(messages)
    BY <1>7, <2>1 DEF IdsInv, MessagesFollow
  <2>2. CASE k = n \/ j = n
    BY <1>7, <1>11, <1>12, <2>2
  <2> QED BY <1>12, <2>1, <2>2
<1>14. ASSUME NEW k \in 1..Len(messages')
       PROVE  \E d \in 1..Len(clients') :
                 clients'[d].id = messages'[k].id /\ clients'[d].pc = "ended"
  <2>1. CASE k = n
    BY <1>2, <1>4, <1>5, <1>7, <1>8, <2>1
  <2>2. CASE k \in 1..Len(messages)
    <3>1. PICK d \in 1..Len(clients) : clients[d].id = messages[k].id /\ clients[d].pc = "ended"
      BY <2>2 DEF IdsInv, MessagesFollow
    <3>2. d # c
      BY <1>2, <3>1
    <3>3. d \in 1..Len(clients') /\ clients'[d] = clients[d] /\ messages'[k] = messages[k]
      BY <1>7, <1>8, <2>2, <3>2
    <3> QED BY <3>1, <3>3
  <2> QED BY <1>12, <2>1, <2>2
<1>15. ASSUME NEW i \in 1..Len(transfers'), transfers'[i].done
       PROVE  /\ \A d \in 1..Len(clients') :
                    clients'[d].id = transfers'[i].id => clients'[d].pc # "run"
              /\ \A k \in 1..Len(messages') : messages'[k].id # transfers'[i].id
  <2>1. i \in 1..Len(transfers) /\ transfers'[i] = transfers[i]
    BY <1>6
  <2>2. transfers[i].id # clients[c].id
    BY <1>2, <1>15, <2>1 DEF IdsInv, ClosedForGood
  <2>3. ASSUME NEW d \in 1..Len(clients'), clients'[d].id = transfers[i].id
        PROVE  clients'[d].pc # "run"
    BY <1>8, <1>9, <1>15, <2>1, <2>2, <2>3 DEF IdsInv, ClosedForGood
  <2>4. ASSUME NEW k \in 1..Len(messages') PROVE messages'[k].id # transfers[i].id
    <3>1. CASE k = n
      BY <1>4, <1>7, <2>2, <3>1
    <3>2. CASE k \in 1..Len(messages)
      BY <1>7, <1>15, <2>1, <3>2 DEF IdsInv, ClosedForGood
    <3> QED BY <1>12, <3>1, <3>2
  <2> QED BY <2>1, <2>3, <2>4
<1>16. /\ \A d, e \in 1..Len(clients') : d < e => clients'[d].id < clients'[e].id
       /\ \A d \in 1..Len(clients') : clients'[d].id < next_id'
  BY <1>6, <1>8, <1>9 DEF IdsInv, ClientsInOrder
<1>17. \A i \in 1..Len(transfers') : IsServerRow(transfers'[i]) =>
            \A d \in 1..Len(clients') : clients'[d].id # transfers'[i].id
  BY <1>6, <1>8, <1>9 DEF IdsInv, ClosedForGood
<1>18. RowsInOrder' /\ ClientsInOrder'
  BY <1>6, <1>16 DEF IdsInv, RowsInOrder, ClientsInOrder
<1>19. MessagesFollow'
  BY <1>13, <1>14 DEF MessagesFollow
<1>20. ClosedForGood'
  BY <1>15, <1>17 DEF ClosedForGood
<1> QED BY <1>18, <1>19, <1>20 DEF IdsInv

\* What a step can do to the table.
RowAppended ==
    \E r \in Rows : transfers' = Append(transfers, r) /\ r.id = next_id

RowChanged ==
    \E i \in 1..Len(transfers), t \in Rows :
        /\ transfers' = [transfers EXCEPT ![i] = t]
        /\ ~transfers[i].done /\ t.id = transfers[i].id

RowRemoved ==
    \E i \in 1..Len(transfers) :
        transfers[i].done /\ transfers' = RemoveAt(transfers, i)

TableStep ==
    IdsInv' /\ (UNCHANGED transfers \/ RowAppended \/ RowChanged \/ RowRemoved)

LEMMA IdsOfEvent ==
    ASSUME TypeInv, IdsInv, PollEvents
    PROVE  TableStep
<1>1. UNCHANGED <<clients, messages>>
  BY DEF PollEvents
<1>2. CASE events = <<>>
  BY <1>1, <1>2, IdsFrame DEF PollEvents, TableStep
<1>3. CASE events # <<>>
  <2>1. PICK e \in TransferEvents : TransferEvent(e) /\ e = Head(events)
    BY <1>3, HeadTailProperties, Types DEF PollEvents, TypeInv
  <2>2. CASE e.done
    <3>1. UNCHANGED next_id
      BY <2>1, <2>2, ClosingEventChanges
    <3>2. CASE UNCHANGED transfers
      BY <1>1, <3>1, <3>2, IdsFrame DEF TableStep
    <3>3. CASE ~UNCHANGED transfers
      <4>1. PICK i \in 1..Len(transfers), t \in Rows :
                    /\ transfers' = [transfers EXCEPT ![i] = t]
                    /\ OpenRow(transfers[i])
                    /\ t.id = transfers[i].id /\ t.origin = transfers[i].origin
        BY <2>1, <2>2, <3>3, ClosingEventChanges
      <4>2. \A c \in 1..Len(clients) : clients[c].id # transfers[i].id
        BY <4>1 DEF IdsInv, ClosedForGood, OpenRow
      <4>3. \A m \in 1..Len(messages) : messages[m].id # transfers[i].id
        BY <4>2 DEF IdsInv, MessagesFollow
      <4>4. Quiet(t.id)
        BY <4>1, <4>2, <4>3 DEF Quiet
      <4>5. IdsInv'
        BY <1>1, <3>1, <4>1, <4>4, IdsOfChangedRow
      <4> QED BY <4>1, <4>5 DEF TableStep, RowChanged, OpenRow
    <3> QED BY <3>2, <3>3
  <2>3. CASE ~e.done
    <3> DEFINE r == Row(next_id, e.origin, e.task)
    <3>1. transfers' = Append(transfers, r) /\ next_id' = next_id + 1
      BY <2>1, <2>3 DEF TransferEvent
    <3>2. r.id = next_id /\ ~r.done
      BY DEF Row
    <3>3. r \in Rows
      <4>1. /\ events \in Seq(TransferEvents) /\ Len(events) \in Nat
            /\ Len(clients) \in Nat /\ Len(tasks) \in Nat
            /\ next_id \in Nat \ {0} /\ Waiting \in Nat /\ MaxTransfers \in Nat
            /\ Len(arrivals) \in Nat /\ MaxReports \in Nat
        BY Types DEF TypeInv
      <4>2. e = events[1] /\ 1 \in 1..Len(events)
        BY <1>3, <2>1, <4>1, HeadTailProperties
      <4>3. next_id <= Len(clients) + e.task /\ e.task <= Len(tasks)
        BY <2>3, <4>2 DEF TypeInv, Bounded, Counted, Numbered, Starts
      <4>4. Len(tasks) + Waiting <= Len(arrivals) /\ Len(arrivals) + Len(clients) <= MaxTransfers
        BY DEF TypeInv, Bounded, Counted, Numbered
      <4>5. e.task \in Nat /\ e.origin \in Origins
        BY <4>1 DEF TransferEvents
      <4>6. next_id \in RowIds /\ e.task \in 0..MaxTransfers
        BY <4>1, <4>3, <4>4, <4>5 DEF RowIds
      <4> QED BY <4>1, <4>5, <4>6 DEF Row, Rows
    <3> HIDE DEF r
    <3>4. IdsInv'
      BY <1>1, <3>1, <3>2, <3>3, IdsOfNewRow
    <3> QED BY <3>1, <3>2, <3>3, <3>4 DEF TableStep, RowAppended
  <2> QED BY <2>2, <2>3
<1> QED BY <1>2, <1>3

LEMMA IdsOfProgress ==
    ASSUME TypeInv, IdsInv, PollProgress
    PROVE  TableStep
<1>1. UNCHANGED <<next_id, clients, messages>>
  BY DEF PollProgress
<1>2. CASE UNCHANGED transfers
  BY <1>1, <1>2, IdsFrame DEF TableStep
<1>3. CASE ~UNCHANGED transfers
  <2>1. progress # <<>> /\ ServerProgress(Head(progress))
    BY <1>3 DEF PollProgress
  <2>2. progress \in Seq(1..MaxReports) /\ MaxReports \in Nat
    BY Types DEF TypeInv
  <2>3. Head(progress) \in 1..MaxReports
    BY <2>1, <2>2, HeadTailProperties
  <2>4. Head(progress) \in 0..MaxReports
    BY <2>2, <2>3
  <2>5. PICK i \in 1..Len(transfers), t \in Rows :
                 /\ transfers' = [transfers EXCEPT ![i] = t]
                 /\ OpenRow(transfers[i]) /\ t.done = transfers[i].done
                 /\ t.id = transfers[i].id /\ t.origin = transfers[i].origin
    BY <1>3, <2>1, <2>4, ServerProgressChanges
  <2>6. IdsInv'
    BY <1>1, <2>5, IdsOfChangedRow
  <2> QED BY <2>5, <2>6 DEF TableStep, RowChanged, OpenRow
<1> QED BY <1>2, <1>3

LEMMA IdsOfFrame ==
    ASSUME TypeInv, IdsInv, Frame
    PROVE  TableStep
<1>1. CASE \/ \E g \in Servers, p \in Ports : Start(g, p)
           \/ Stop
           \/ NoClick
  <2>1. UNCHANGED <<transfers, next_id, clients, messages>>
    BY <1>1 DEF Start, Stop, NoClick
  <2> QED BY <2>1, IdsFrame DEF TableStep
<1>2. CASE OneMore /\ StartTransfer
  <2> DEFINE r == Row(next_id, NoOrigin, 0)
  <2>1. /\ transfers' = Append(transfers, r)
        /\ clients' = Append(clients, [id |-> next_id, pc |-> "run"])
        /\ next_id' = next_id + 1 /\ UNCHANGED messages
    BY <1>2 DEF StartTransfer
  <2>2. r.id = next_id /\ ~r.done /\ ~IsServerRow(r)
    BY DEF Row, IsServerRow
  <2>3. /\ Len(clients) \in Nat /\ Len(tasks) \in Nat /\ next_id \in Nat \ {0}
        /\ Waiting \in Nat /\ MaxTransfers \in Nat /\ Len(arrivals) \in Nat /\ MaxReports \in Nat
    BY Types DEF TypeInv
  <2>4. /\ Len(tasks) + Waiting <= Len(arrivals) /\ Len(arrivals) + Len(clients) < MaxTransfers
        /\ next_id - 1 <= Len(clients) + Len(tasks)
    BY <1>2 DEF TypeInv, Bounded, Counted, Numbered, OneMore
  <2>5. next_id \in RowIds
    BY <2>3, <2>4 DEF RowIds
  <2>6. r \in Rows
    BY <2>3, <2>5 DEF Row, Rows
  <2> HIDE DEF r
  <2>7. IdsInv'
    BY <2>1, <2>2, <2>5, <2>6, IdsOfNewRow
  <2> QED BY <2>1, <2>2, <2>6, <2>7 DEF TableStep, RowAppended
<1>3. ASSUME NEW i \in DOMAIN transfers, RemoveRow(i) PROVE TableStep
  <2>1. i \in 1..Len(transfers)
    BY Types, LenProperties DEF TypeInv
  <2> QED BY <1>3, <2>1, IdsOfRemoval DEF TableStep, RowRemoved, RemoveRow
<1> QED BY <1>1, <1>2, <1>3 DEF Frame

LEMMA IdsNext == TypeInv /\ IdsInv /\ [Next]_vars => TableStep
<1> SUFFICES ASSUME TypeInv, IdsInv, [Next]_vars PROVE TableStep
  OBVIOUS
<1> USE DEF rowVars
<1>1. CASE UI
  <2>1. CASE PollStatus
    BY <2>1, IdsFrame DEF PollStatus, TableStep
  <2>2. CASE PollMessages
    BY <2>2, IdsOfMessage DEF TableStep, RowChanged
  <2> QED BY <1>1, <2>1, <2>2, IdsOfEvent, IdsOfProgress, IdsOfFrame DEF UI
<1>2. CASE \E g \in Servers : ServerThread(g) \/ GiveUp(g)
  BY <1>2, IdsFrame DEF ServerThread, GiveUp, TableStep
<1>3. CASE \E k \in 1..MaxTransfers : ServerTask(k)
  BY <1>3, IdsFrame DEF ServerTask, TableStep
<1>4. CASE \E k \in 1..MaxTransfers : Client(k)
  <2>1. PICK c \in DOMAIN clients : ClientEnds(c)
    BY <1>4 DEF Client
  <2> QED BY <2>1, IdsOfEnd DEF ClientEnds, TableStep
<1>5. CASE UNCHANGED rowVars
  BY <1>5, IdsFrame DEF TableStep
<1> QED BY <1>1, <1>2, <1>3, <1>4, <1>5 DEF Next, vars

LEMMA IdsHold == Spec => [](TypeInv /\ IdsInv)
<1>1. TypeInv /\ IdsInv /\ [Next]_vars => IdsInv'
  BY IdsNext DEF TableStep
<1> QED BY <1>1, TypeInvInit, TypeInvNext, IdsInit, PTL DEF Spec

\* A finished row does not change any more, whatever reports and messages are still on
\* their way, and no row disappears unfinished: an event or a report finds unfinished
\* rows only, and the one message of a client is the first to close its row.
THEOREM GuiRowsOnlyAdvance == Spec => RowsOnlyAdvance
<1> DEFINE Advance(t) ==
        LET later == {u \in Range(transfers') : u.id = t.id}
        IN  (later = {} => t.done) /\ (t.done => later \subseteq {t})
<1>1. ASSUME TypeInv, IdsInv, [Next]_vars, NEW i \in DOMAIN transfers
      PROVE  Advance(transfers[i])
  <2>1. TableStep /\ TypeInv'
    BY <1>1, IdsNext, TypeInvNext
  <2>2. /\ transfers \in Seq(Rows) /\ Len(transfers) \in Nat /\ next_id \in Nat
        /\ transfers' \in Seq(Rows) /\ Len(transfers') \in Nat
    <3>1. transfers \in Seq(Rows) /\ Len(transfers) \in Nat /\ next_id \in Nat
      BY <1>1, Types DEF TypeInv
    <3>2. transfers' \in Seq(Rows)
      BY <2>1 DEF TypeInv, TypeOK, RowsOK
    <3> QED BY <3>1, <3>2, LenProperties
  <2>3. i \in 1..Len(transfers) /\ DOMAIN transfers' = 1..Len(transfers')
    BY <2>2, LenProperties
  <2>4. \A j \in 1..Len(transfers') : \A k \in 1..Len(transfers') :
            transfers'[j].id = transfers'[k].id => j = k
    <3>1. \A j \in 1..Len(transfers') : transfers'[j].id \in Nat
      <4>1. \A j \in 1..Len(transfers') : transfers'[j] \in Rows
        BY <2>2, ElementOfSeq
      <4> QED BY <4>1 DEF Rows, RowIds
    <3> QED BY <2>1, <3>1 DEF TableStep, IdsInv, RowsInOrder
  <2>5. \A u : u \in Range(transfers') <=> \E j \in 1..Len(transfers') : u = transfers'[j]
    BY <2>3 DEF Range
  \* It is enough that the row is still there as it was, or was open and is there with
  \* its id, or was done and is not there with its id.
  <2>6. ASSUME NEW j \in 1..Len(transfers'), transfers'[j].id = transfers[i].id,
               transfers'[j] = transfers[i] \/ ~transfers[i].done
        PROVE  Advance(transfers[i])
    <3>1. transfers'[j] \in {u \in Range(transfers') : u.id = transfers[i].id}
      BY <2>5, <2>6
    <3>2. \A u \in Range(transfers') : u.id = transfers[i].id => u = transfers'[j]
      BY <2>4, <2>5, <2>6
    <3> QED BY <2>6, <3>1, <3>2
  <2>7. ASSUME transfers[i].done, \A j \in 1..Len(transfers') : transfers'[j].id # transfers[i].id
        PROVE  Advance(transfers[i])
    BY <2>5, <2>7
  <2> HIDE DEF Advance
  <2>8. CASE UNCHANGED transfers
    BY <2>3, <2>6, <2>8
  <2>9. CASE RowAppended
    <3>1. transfers'[i] = transfers[i] /\ i \in 1..Len(transfers')
      BY <2>2, <2>3, <2>9, AppendProperties DEF RowAppended
    <3> QED BY <2>6, <3>1
  <2>10. CASE RowChanged
    <3>1. PICK k \in 1..Len(transfers), t \in Rows :
              /\ transfers' = [transfers EXCEPT ![k] = t]
              /\ ~transfers[k].done /\ t.id = transfers[k].id
      BY <2>10 DEF RowChanged
    <3>2. /\ i \in 1..Len(transfers') /\ transfers'[i] = (IF i = k THEN t ELSE transfers[i])
      BY <2>2, <2>3, <3>1, ExceptSeq
    <3> QED BY <2>6, <3>1, <3>2
  <2>11. CASE RowRemoved
    <3>1. PICK k \in 1..Len(transfers) :
              transfers[k].done /\ transfers' = RemoveAt(transfers, k)
      BY <2>11 DEF RowRemoved
    <3>2. /\ Len(transfers') = Len(transfers) - 1
          /\ \A j \in 1..Len(transfers') : transfers'[j] = transfers[IF j < k THEN j ELSE j + 1]
      BY <2>2, <3>1, RemoveAtIndices
    <3>3. CASE i = k
      <4>1. ASSUME NEW j \in 1..Len(transfers') PROVE transfers'[j].id # transfers[i].id
        <5> DEFINE h == IF j < k THEN j ELSE j + 1
        <5>1. h \in 1..Len(transfers) /\ h # k /\ transfers'[j] = transfers[h]
          BY <2>2, <3>2
        <5> HIDE DEF h
        <5>2. transfers[h].id \in Nat /\ transfers[k].id \in Nat
          BY <1>1, <5>1, IdsAreNat
        <5> QED BY <1>1, <3>3, <5>1, <5>2 DEF IdsInv, RowsInOrder
      <4> QED BY <2>7, <3>1, <3>3, <4>1
    <3>4. CASE i # k
      <4> DEFINE j == IF i < k THEN i ELSE i - 1
      <4>1. j \in 1..Len(transfers') /\ (IF j < k THEN j ELSE j + 1) = i
        BY <2>2, <2>3, <3>2, <3>4
      <4> HIDE DEF j
      <4>2. transfers'[j] = transfers[i]
        BY <3>2, <4>1
      <4> QED BY <2>6, <4>1, <4>2
    <3> QED BY <3>3, <3>4
  <2> QED BY <2>1, <2>8, <2>9, <2>10, <2>11 DEF TableStep
<1>2. TypeInv /\ IdsInv /\ [Next]_vars =>
          [\A i \in DOMAIN transfers :
              LET t == transfers[i]
                  later == {u \in Range(transfers') : u.id = t.id}
              IN  /\ later = {} => t.done
                  /\ t.done => later \subseteq {t}]_vars
  BY <1>1
<1> QED BY <1>2, IdsHold, PTL DEF Spec, RowsOnlyAdvance

-----------------------------------------------------------------------------
(* Events.  What waits in the channel is of the running server's tasks: at   *)
(* most one start and one end of each, in this order, and the end of every   *)
(* task that has ended and whose start waits.                                *)

Waits(k, d) == \E i \in 1..Len(events) : events[i].task = k /\ events[i].done = d

TasksBorn == \A k \in 1..Len(tasks) : srv[tasks[k].server].pc # "unborn"

EventsBelong ==
    \A i \in 1..Len(events) :
        LET e == events[i]
        IN  /\ e.task \in 1..Len(tasks)
            /\ Attached(e.task)
            /\ tasks[e.task].origin = e.origin
            /\ e.done => tasks[e.task].pc = "ended"

EventsInOrder ==
    \A i, j \in 1..Len(events) :
        /\ events[i].task = events[j].task /\ events[i].done = events[j].done => i = j
        /\ events[i].task = events[j].task /\ ~events[i].done /\ events[j].done => i < j

EndsFollow ==
    \A k \in 1..Len(tasks) :
        Waits(k, FALSE) /\ tasks[k].pc = "ended" => Waits(k, TRUE)

EventsInv == TasksBorn /\ EventsBelong /\ EventsInOrder /\ EndsFollow

IsUnfinished(k, o) ==
    /\ k \in 1..Len(tasks)
    /\ Attached(k) /\ tasks[k].origin = o
    /\ ~Waits(k, FALSE)
    /\ tasks[k].pc = "ended" => Waits(k, TRUE)

LEMMA UnfinishedIs ==
    TypeInv => \A o \in Origins : /\ \A k : k \in Unfinished(o) <=> IsUnfinished(k, o)
                                  /\ IsFiniteSet(Unfinished(o))
<1> SUFFICES ASSUME TypeInv, NEW o \in Origins
             PROVE  /\ \A k : k \in Unfinished(o) <=> IsUnfinished(k, o)
                    /\ IsFiniteSet(Unfinished(o))
  OBVIOUS
<1>1. DOMAIN tasks = 1..Len(tasks) /\ DOMAIN events = 1..Len(events) /\ Len(tasks) \in Nat
  BY Types, LenProperties DEF TypeInv
<1>2. \A k : k \in Unfinished(o) <=> IsUnfinished(k, o)
  BY <1>1 DEF Unfinished, IsUnfinished, Waits
<1>3. Unfinished(o) \subseteq 1..Len(tasks)
  BY <1>2 DEF IsUnfinished
<1>4. IsFiniteSet(1..Len(tasks))
  BY <1>1, FS_Interval
<1> QED BY <1>2, <1>3, <1>4, FS_Subset

LEMMA UnfinishedIsThen ==
    TypeInv' => (\A o \in Origins : /\ \A k : k \in Unfinished(o) <=> IsUnfinished(k, o)
                                    /\ IsFiniteSet(Unfinished(o)))'
BY UnfinishedIs, PTL

LEMMA EventsInit == Init => EventsInv
<1> SUFFICES ASSUME Init PROVE EventsInv
  OBVIOUS
<1>1. Len(events) = 0 /\ Len(tasks) = 0
  BY EmptySeq DEF Init, ServerInit
<1> QED BY <1>1 DEF EventsInv, TasksBorn, EventsBelong, EventsInOrder, EndsFollow

\* No thread is unborn again.
BornStay ==
    \A g \in Servers : srv[g].pc # "unborn" => srv'[g].pc # "unborn"

LEMMA ThreadsStayBorn ==
    ASSUME TypeInv, [Next]_vars
    PROVE  BornStay
<1>1. srv \in [Servers -> ThreadStates]
  BY Types DEF TypeInv
<1>2. ASSUME NEW g \in Servers, NEW pc \in ServerPcs, GoTo(g, pc), pc # "unborn"
      PROVE  BornStay
  BY <1>1, <1>2 DEF GoTo, BornStay, ThreadStates
<1>3. CASE UNCHANGED srv
  BY <1>3 DEF BornStay
<1>4. ASSUME NEW g \in Servers, Thread(g) \/ ReceiveFails(g) PROVE BornStay
  <2>1. CASE Receive(g)
    BY <1>1, <2>1 DEF Receive, BornStay, ThreadStates
  <2>2. CASE ~Receive(g)
    <3>1. \E pc \in ServerPcs : GoTo(g, pc) /\ pc # "unborn"
      BY <1>4, <2>2 DEF ServerPcs, Thread, Probe, DropProbe, Bind, TryBind, CheckStop, Leave,
                  ReceiveFails, DropRuntime
    <3> QED BY <1>2, <3>1
  <2> QED BY <2>1, <2>2
<1>5. CASE UI
  <2>1. CASE \E g \in Servers, p \in Ports : Start(g, p)
    BY <1>1, <2>1 DEF Start, BornStay, ThreadStates
  <2>2. CASE Stop
    BY <1>1, <2>2 DEF Stop, BornStay, ThreadStates
  <2>3. CASE ~Stop /\ ~\E g \in Servers, p \in Ports : Start(g, p)
    BY <1>3, <1>5, <2>3 DEF UI, Frame, StartTransfer, RemoveRow, NoClick, serverVars,
       PollStatus, PollEvents, PollProgress, PollMessages
  <2> QED BY <2>1, <2>2, <2>3
<1>6. CASE \E k \in 1..MaxTransfers : ServerTask(k) \/ Client(k)
  BY <1>3, <1>6 DEF ServerTask, Task, Report, EndTask, Client, ClientEnds, serverVars
<1>7. CASE Arrive \/ UNCHANGED vars
  BY <1>3, <1>7 DEF Arrive, vars, serverVars
<1> QED BY <1>4, <1>5, <1>6, <1>7 DEF Next, ServerThread, GiveUp

\* Steps after which the tasks are as before: some may have reported, or been cancelled.
TasksKept ==
    /\ Len(tasks') = Len(tasks)
    /\ \A k \in 1..Len(tasks) :
          /\ tasks'[k].server = tasks[k].server /\ tasks'[k].origin = tasks[k].origin
          /\ tasks'[k].pc = "ended" <=> tasks[k].pc = "ended"

LEMMA EventsFrame ==
    ASSUME TypeInv, TypeInv', EventsInv, BornStay, TasksKept, UNCHANGED <<events, attached>>
    PROVE  EventsInv' /\ \A o \in Origins : Unfinished(o)' = Unfinished(o)
<1>1. /\ \A k \in 1..Len(tasks) : tasks[k] \in TaskRecords
      /\ \A i \in 1..Len(events) : events[i] \in TransferEvents
  BY Types, ElementOfSeq DEF TypeInv
<1>2. \A k \in 1..Len(tasks) : tasks[k].server \in Servers
  BY <1>1 DEF TaskRecords
<1>3. TasksBorn'
  BY <1>2 DEF EventsInv, TasksBorn, BornStay, TasksKept
<1>4. \A k, d : Waits(k, d)' <=> Waits(k, d)
  BY DEF Waits
<1>5. \A k \in 1..Len(tasks) : Attached(k)' <=> Attached(k)
  BY DEF Attached, TasksKept
<1>6. EventsBelong'
  BY DEF EventsInv, EventsBelong, TasksKept, Attached
<1>7. EventsInOrder' /\ EndsFollow'
  <2>1. EventsInOrder'
    BY DEF EventsInv, EventsInOrder
  <2>2. EndsFollow'
    BY <1>4 DEF EventsInv, EndsFollow, TasksKept
  <2> QED BY <2>1, <2>2
<1>8. EventsInv'
  BY <1>3, <1>6, <1>7 DEF EventsInv
<1>9. ASSUME NEW o \in Origins PROVE Unfinished(o)' = Unfinished(o)
  <2>1. \A k : k \in Unfinished(o) <=> IsUnfinished(k, o)
    BY UnfinishedIs
  <2>2. \A k : k \in Unfinished(o)' <=> IsUnfinished(k, o)'
    BY UnfinishedIsThen
  <2>3. \A k : IsUnfinished(k, o)' <=> IsUnfinished(k, o)
    BY <1>4, <1>5 DEF IsUnfinished, TasksKept
  <2> QED BY <2>1, <2>2, <2>3
<1> QED BY <1>8, <1>9

\* A request is taken: its task is new, and if its start is sent, it waits.
LEMMA EventsOfRequest ==
    ASSUME TypeInv, TypeInv', EventsInv, BornStay, NEW g \in Servers, Receive(g),
           ~UNCHANGED <<tasks, events>>
    PROVE  EventsInv' /\ \A o \in Origins : Unfinished(o)' = Unfinished(o)
<1>1. PICK o \in Origins :
           /\ tasks' = Append(tasks, [server |-> g, origin |-> o, sent |-> 0, pc |-> "run"])
           /\ events' = SentBy(g, events,
                  [done |-> FALSE, origin |-> o, bytes |-> 0, task |-> Len(tasks')])
  BY DEF Receive
<1> DEFINE n == Len(tasks) + 1
           t == [server |-> g, origin |-> o, sent |-> 0, pc |-> "run"]
           e == [done |-> FALSE, origin |-> o, bytes |-> 0, task |-> Len(tasks')]
           m == Len(events) + 1
<1>2. /\ tasks \in Seq(TaskRecords) /\ Len(tasks) \in Nat
      /\ events \in Seq(TransferEvents) /\ Len(events) \in Nat
      /\ srv \in [Servers -> ThreadStates] /\ MaxReports \in Nat
  BY Types DEF TypeInv
<1>3. t \in TaskRecords /\ t.server = g /\ t.origin = o /\ t.pc = "run"
  BY <1>2 DEF TaskRecords
<1> HIDE DEF t
<1>4. /\ Len(tasks') = n /\ n \in Nat /\ n \in 1..n /\ n \notin 1..Len(tasks) /\ tasks'[n] = t
      /\ \A k \in 1..Len(tasks) : tasks'[k] = tasks[k] /\ k \in 1..n
      /\ \A k \in 1..n : k \in 1..Len(tasks) \/ k = n
  BY <1>1, <1>2, <1>3, AppendProperties DEF t
<1>5. e.done = FALSE /\ e.task = n /\ e.origin = o
  BY <1>4
<1> HIDE DEF e, n
<1>6. TasksBorn'
  <2>1. srv[g].pc # "unborn"
    BY DEF Receive
  <2>2. \A k \in 1..Len(tasks) : tasks[k] \in TaskRecords
    BY <1>2, ElementOfSeq
  <2>3. \A k \in 1..Len(tasks) : tasks[k].server \in Servers
    BY <2>2 DEF TaskRecords
  <2> QED BY <1>3, <1>4, <2>1, <2>3 DEF TasksBorn, EventsInv, BornStay
<1>7. CASE g = attached
  <2>1. /\ Len(events') = m /\ events'[m] = e /\ m \in 1..m /\ m \notin 1..Len(events)
        /\ \A i \in 1..Len(events) : events'[i] = events[i] /\ i \in 1..m
        /\ \A i \in 1..m : i \in 1..Len(events) \/ i = m
        /\ \A i \in 1..Len(events) : i < m
    <3>1. events' = Append(events, e)
      BY <1>1, <1>7 DEF SentBy, e
    <3> QED BY <1>2, <3>1, AppendProperties
  <2> HIDE DEF m
  <2>2. attached' = attached
    BY DEF Receive
  <2>3. \A k, d : Waits(k, d)' <=> Waits(k, d) \/ (k = n /\ d = FALSE)
    BY <1>5, <2>1 DEF Waits
  <2>4. \A d : ~Waits(n, d)
    BY <1>4 DEF Waits, EventsInv, EventsBelong
  <2>5. EventsBelong'
    <3> SUFFICES ASSUME NEW i \in 1..Len(events')
                 PROVE  /\ events'[i].task \in 1..Len(tasks')
                        /\ tasks'[events'[i].task].server = attached'
                        /\ tasks'[events'[i].task].origin = events'[i].origin
                        /\ events'[i].done => tasks'[events'[i].task].pc = "ended"
      BY DEF EventsBelong, Attached
    <3>1. CASE i \in 1..Len(events)
      BY <1>4, <2>1, <2>2, <3>1 DEF EventsInv, EventsBelong, Attached
    <3>2. CASE i = m
      BY <1>3, <1>4, <1>5, <1>7, <2>1, <2>2, <3>2
    <3> QED BY <2>1, <3>1, <3>2
  <2>6. EventsInOrder'
    <3> SUFFICES ASSUME NEW i \in 1..Len(events'), NEW j \in 1..Len(events'),
                        events'[i].task = events'[j].task
                 PROVE  /\ events'[i].done = events'[j].done => i = j
                        /\ ~events'[i].done /\ events'[j].done => i < j
      BY DEF EventsInOrder
    <3>1. CASE i \in 1..Len(events) /\ j \in 1..Len(events)
      BY <2>1, <3>1 DEF EventsInv, EventsInOrder
    <3>2. CASE i = m /\ j = m
      BY <3>2
    <3>3. CASE i = m /\ j \in 1..Len(events)
      BY <1>4, <1>5, <2>1, <3>3 DEF EventsInv, EventsBelong
    <3>4. CASE i \in 1..Len(events) /\ j = m
      BY <1>4, <1>5, <2>1, <3>4 DEF EventsInv, EventsBelong
    <3> QED BY <2>1, <3>1, <3>2, <3>3, <3>4
  <2>7. EndsFollow'
    <3> SUFFICES ASSUME NEW k \in 1..Len(tasks'), Waits(k, FALSE)', tasks'[k].pc = "ended"
                 PROVE  Waits(k, TRUE)'
      BY DEF EndsFollow
    <3>1. k # n
      BY <1>3, <1>4
    <3>2. k \in 1..Len(tasks) /\ Waits(k, FALSE) /\ tasks[k].pc = "ended"
      BY <1>4, <2>3, <3>1
    <3> QED BY <2>3, <3>2 DEF EventsInv, EndsFollow
  <2>9. ASSUME NEW o2 \in Origins PROVE Unfinished(o2)' = Unfinished(o2)
    <3>1. \A k : k \in Unfinished(o2) <=> IsUnfinished(k, o2)
      BY UnfinishedIs
    <3>2. \A k : k \in Unfinished(o2)' <=> IsUnfinished(k, o2)'
      BY UnfinishedIsThen
    <3>3. ASSUME NEW k PROVE IsUnfinished(k, o2)' <=> IsUnfinished(k, o2)
      <4>1. CASE k = n
        BY <1>4, <2>3, <4>1 DEF IsUnfinished
      <4>2. CASE k # n
        BY <1>4, <2>2, <2>3, <4>2 DEF IsUnfinished, Attached
      <4> QED BY <4>1, <4>2
    <3> QED BY <3>1, <3>2, <3>3
  <2> QED BY <1>6, <2>5, <2>6, <2>7, <2>9 DEF EventsInv
<1>8. CASE g # attached
  <2>1. events' = events /\ attached' = attached
    BY <1>1, <1>8 DEF SentBy, Receive
  <2>3. \A k, d : Waits(k, d)' <=> Waits(k, d)
    BY <2>1 DEF Waits
  <2>4. \A d : ~Waits(n, d)
    BY <1>4 DEF Waits, EventsInv, EventsBelong
  <2>5. EventsBelong'
    BY <1>4, <2>1 DEF EventsInv, EventsBelong, Attached
  <2>6. EventsInOrder'
    BY <2>1 DEF EventsInv, EventsInOrder
  <2>7. EndsFollow'
    BY <1>4, <2>3, <2>4 DEF EventsInv, EndsFollow
  <2>9. ASSUME NEW o2 \in Origins PROVE Unfinished(o2)' = Unfinished(o2)
    <3>1. \A k : k \in Unfinished(o2) <=> IsUnfinished(k, o2)
      BY UnfinishedIs
    <3>2. \A k : k \in Unfinished(o2)' <=> IsUnfinished(k, o2)'
      BY UnfinishedIsThen
    <3>3. ASSUME NEW k PROVE IsUnfinished(k, o2)' <=> IsUnfinished(k, o2)
      <4>1. CASE k = n
        BY <1>3, <1>4, <1>8, <2>1, <4>1 DEF IsUnfinished, Attached
      <4>2. CASE k # n
        BY <1>4, <2>1, <2>3, <4>2 DEF IsUnfinished, Attached
      <4> QED BY <4>1, <4>2
    <3> QED BY <3>1, <3>2, <3>3
  <2> QED BY <1>6, <2>5, <2>6, <2>7, <2>9 DEF EventsInv
<1> QED BY <1>7, <1>8

\* A task ends: its end waits, if anybody listens.
LEMMA EventsOfEnd ==
    ASSUME TypeInv, TypeInv', EventsInv, BornStay, NEW k \in DOMAIN tasks, EndTask(k)
    PROVE  EventsInv' /\ \A o \in Origins : Unfinished(o)' = Unfinished(o)
<1>1. PICK bytes \in {0, tasks[k].sent} :
          events' = SentBy(tasks[k].server, events,
              [done |-> TRUE, origin |-> tasks[k].origin, bytes |-> bytes, task |-> k])
  BY DEF EndTask
<1> DEFINE e == [done |-> TRUE, origin |-> tasks[k].origin, bytes |-> bytes, task |-> k]
           t == [tasks[k] EXCEPT !.pc = "ended"]
           m == Len(events) + 1
<1>2. /\ tasks \in Seq(TaskRecords) /\ Len(tasks) \in Nat
      /\ events \in Seq(TransferEvents) /\ Len(events) \in Nat
      /\ DOMAIN tasks = 1..Len(tasks) /\ MaxReports \in Nat /\ MaxTransfers \in Nat
  BY Types, LenProperties DEF TypeInv
<1>3. k \in 1..Len(tasks) /\ tasks[k].pc = "run" /\ \A h \in 1..Len(tasks) : tasks[h] \in TaskRecords
  BY <1>2, ElementOfSeq DEF EndTask
<1>4. t \in TaskRecords /\ t.pc = "ended" /\ t.server = tasks[k].server /\ t.origin = tasks[k].origin
  BY <1>3 DEF TaskRecords
<1>5. tasks' = [tasks EXCEPT ![k] = t] /\ attached' = attached
  BY DEF EndTask
<1> HIDE DEF t
<1>6. /\ Len(tasks') = Len(tasks) /\ tasks'[k] = t
      /\ \A h \in 1..Len(tasks) : h # k => tasks'[h] = tasks[h]
  BY <1>2, <1>3, <1>4, <1>5, ExceptSeq
<1>7. \A h \in 1..Len(tasks) : /\ tasks'[h].server = tasks[h].server
                               /\ tasks'[h].origin = tasks[h].origin
  BY <1>4, <1>6
<1>8. ~Waits(k, TRUE)
  BY <1>3 DEF Waits, EventsInv, EventsBelong
<1>9. TasksBorn'
  <2>1. \A h \in 1..Len(tasks) : tasks[h].server \in Servers
    BY <1>3 DEF TaskRecords
  <2> QED BY <1>6, <1>7, <2>1 DEF TasksBorn, EventsInv, BornStay
<1>10. e.done = TRUE /\ e.task = k /\ e.origin = tasks[k].origin
  OBVIOUS
<1>11. CASE Attached(k)
  <2>1. e \in TransferEvents
    <3>1. /\ Len(tasks) + Waiting <= Len(arrivals) /\ Len(arrivals) + Len(clients) <= MaxTransfers
          /\ Waiting \in Nat /\ Len(arrivals) \in Nat /\ Len(clients) \in Nat
      BY Types DEF TypeInv, Bounded, Counted, Numbered
    <3>2. k \in 1..MaxTransfers
      BY <1>2, <1>3, <3>1
    <3>3. bytes \in 0..MaxReports /\ tasks[k].origin \in Origins
      BY <1>2, <1>3 DEF TaskRecords
    <3> QED BY <3>2, <3>3 DEF TransferEvents
  <2>2. events' = Append(events, e)
    BY <1>1, <1>11 DEF SentBy, Attached
  <2> HIDE DEF e
  <2>3. /\ Len(events') = m /\ events'[m] = e /\ m \in 1..m /\ m \notin 1..Len(events)
        /\ \A i \in 1..Len(events) : events'[i] = events[i] /\ i \in 1..m /\ i < m
        /\ \A i \in 1..m : i \in 1..Len(events) \/ i = m
    BY <1>2, <2>1, <2>2, AppendProperties
  <2> HIDE DEF m
  <2>4. ASSUME NEW h, NEW d PROVE Waits(h, d)' <=> Waits(h, d) \/ (h = k /\ d = TRUE)
    <3>1. Waits(h, d)' => Waits(h, d) \/ (h = k /\ d = TRUE)
      BY <1>10, <2>3 DEF Waits
    <3>2. Waits(h, d) => Waits(h, d)'
      BY <2>3 DEF Waits
    <3>3. Waits(k, TRUE)'
      BY <1>10, <2>3 DEF Waits
    <3> QED BY <3>1, <3>2, <3>3
  <2>5. EventsBelong'
    <3> SUFFICES ASSUME NEW i \in 1..Len(events')
                 PROVE  /\ events'[i].task \in 1..Len(tasks')
                        /\ tasks'[events'[i].task].server = attached'
                        /\ tasks'[events'[i].task].origin = events'[i].origin
                        /\ events'[i].done => tasks'[events'[i].task].pc = "ended"
      BY DEF EventsBelong, Attached
    <3>1. CASE i \in 1..Len(events)
      BY <1>4, <1>5, <1>6, <2>3, <3>1 DEF EventsInv, EventsBelong, Attached
    <3>2. CASE i = m
      BY <1>3, <1>4, <1>5, <1>6, <1>10, <1>11, <2>3, <3>2 DEF Attached
    <3> QED BY <2>3, <3>1, <3>2
  <2>6. EventsInOrder'
    <3> SUFFICES ASSUME NEW i \in 1..Len(events'), NEW j \in 1..Len(events'),
                        events'[i].task = events'[j].task
                 PROVE  /\ events'[i].done = events'[j].done => i = j
                        /\ ~events'[i].done /\ events'[j].done => i < j
      BY DEF EventsInOrder
    <3>1. CASE i \in 1..Len(events) /\ j \in 1..Len(events)
      BY <2>3, <3>1 DEF EventsInv, EventsInOrder
    <3>2. CASE i = m /\ j = m
      BY <3>2
    <3>3. CASE i = m /\ j \in 1..Len(events)
      BY <1>8, <1>10, <2>3, <3>3 DEF Waits
    <3>4. CASE i \in 1..Len(events) /\ j = m
      BY <1>8, <1>10, <2>3, <3>4 DEF Waits
    <3> QED BY <2>3, <3>1, <3>2, <3>3, <3>4
  <2>7. EndsFollow'
    <3> SUFFICES ASSUME NEW h \in 1..Len(tasks'), Waits(h, FALSE)', tasks'[h].pc = "ended"
                 PROVE  Waits(h, TRUE)'
      BY DEF EndsFollow
    <3>1. CASE h = k
      BY <2>4, <3>1
    <3>2. CASE h # k
      BY <1>6, <2>4, <3>2 DEF EventsInv, EndsFollow
    <3> QED BY <3>1, <3>2
  <2>8. ASSUME NEW o \in Origins PROVE Unfinished(o)' = Unfinished(o)
    <3>1. \A h : h \in Unfinished(o) <=> IsUnfinished(h, o)
      BY UnfinishedIs
    <3>2. \A h : h \in Unfinished(o)' <=> IsUnfinished(h, o)'
      BY UnfinishedIsThen
    <3>3. ASSUME NEW h PROVE IsUnfinished(h, o)' <=> IsUnfinished(h, o)
      <4>1. CASE h = k
        BY <1>3, <1>4, <1>5, <1>6, <2>4, <4>1 DEF IsUnfinished, Attached
      <4>2. CASE h # k
        BY <1>5, <1>6, <2>4, <4>2 DEF IsUnfinished, Attached
      <4> QED BY <4>1, <4>2
    <3> QED BY <3>1, <3>2, <3>3
  <2> QED BY <1>9, <2>5, <2>6, <2>7, <2>8 DEF EventsInv
<1>12. CASE ~Attached(k)
  <2>1. events' = events
    BY <1>1, <1>12 DEF SentBy, Attached
  <2>2. \A h, d : Waits(h, d)' <=> Waits(h, d)
    BY <2>1 DEF Waits
  <2>3. \A d : ~Waits(k, d)
    BY <1>12 DEF Waits, EventsInv, EventsBelong
  <2>4. EventsBelong'
    BY <1>4, <1>5, <1>6, <2>1 DEF EventsInv, EventsBelong, Attached
  <2>5. EventsInOrder'
    BY <2>1 DEF EventsInv, EventsInOrder
  <2>6. EndsFollow'
    BY <1>6, <2>2, <2>3 DEF EventsInv, EndsFollow
  <2>7. ASSUME NEW o \in Origins PROVE Unfinished(o)' = Unfinished(o)
    <3>1. \A h : h \in Unfinished(o) <=> IsUnfinished(h, o)
      BY UnfinishedIs
    <3>2. \A h : h \in Unfinished(o)' <=> IsUnfinished(h, o)'
      BY UnfinishedIsThen
    <3>3. ASSUME NEW h PROVE IsUnfinished(h, o)' <=> IsUnfinished(h, o)
      <4>1. CASE h = k
        BY <1>4, <1>5, <1>6, <1>12, <4>1 DEF IsUnfinished, Attached
      <4>2. CASE h # k
        BY <1>5, <1>6, <2>2, <4>2 DEF IsUnfinished, Attached
      <4> QED BY <4>1, <4>2
    <3> QED BY <3>1, <3>2, <3>3
  <2> QED BY <1>9, <2>4, <2>5, <2>6, <2>7 DEF EventsInv
<1> QED BY <1>11, <1>12

\* An event is taken: the task's start makes it an unfinished one, its end a finished one.
LEMMA EventsOfPoll ==
    ASSUME TypeInv, TypeInv', EventsInv, events # <<>>, events' = Tail(events),
           UNCHANGED <<srv, tasks, attached>>,
           NEW e, e = Head(events)
    PROVE  /\ EventsInv'
           /\ e \in TransferEvents /\ e.task \in 1..Len(tasks) /\ Attached(e.task)
           /\ \A o \in Origins : o # e.origin => Unfinished(o)' = Unfinished(o)
           /\ IF e.done
              THEN /\ e.task \in Unfinished(e.origin)
                   /\ Unfinished(e.origin)' = Unfinished(e.origin) \ {e.task}
              ELSE /\ e.task \notin Unfinished(e.origin)
                   /\ Unfinished(e.origin)' = Unfinished(e.origin) \cup {e.task}
<1>1. /\ events \in Seq(TransferEvents) /\ Len(events) \in Nat
  BY Types DEF TypeInv
<1> DEFINE up(i) == i + 1
<1>2. /\ e \in TransferEvents /\ e = events[1] /\ 1 \in 1..Len(events)
      /\ Len(events') = Len(events) - 1
      /\ \A i \in 1..Len(events') : events'[i] = events[up(i)]
  BY <1>1, HeadTailProperties
<1>3. /\ \A i \in 1..Len(events') : up(i) \in 1..Len(events) /\ up(i) # 1
      /\ \A i \in 1..Len(events) : i # 1 => \E j \in 1..Len(events') : i = up(j)
      /\ \A i, j \in 1..Len(events') : up(i) = up(j) => i = j
      /\ \A i, j \in 1..Len(events') : up(i) < up(j) => i < j
      /\ \A i \in 1..Len(events') : ~(up(i) < 1)
  <2>1. ASSUME NEW i \in 1..Len(events), i # 1 PROVE \E j \in 1..Len(events') : i = up(j)
    <3>1. i - 1 \in 1..Len(events') /\ i = up(i - 1)
      BY <1>1, <1>2, <2>1
    <3> QED BY <3>1
  <2>2. \A i \in 1..Len(events') : up(i) \in 1..Len(events) /\ up(i) # 1 /\ ~(up(i) < 1)
    BY <1>1, <1>2
  <2>3. \A i, j \in 1..Len(events') : /\ up(i) = up(j) => i = j
                                      /\ up(i) < up(j) => i < j
    OBVIOUS
  <2> QED BY <2>1, <2>2, <2>3
<1> HIDE DEF up
<1> DEFINE k == e.task
<1>4. /\ k \in 1..Len(tasks) /\ Attached(k) /\ tasks[k].origin = e.origin
      /\ e.done => tasks[k].pc = "ended"
  BY <1>2 DEF EventsInv, EventsBelong
<1>5. ASSUME NEW h, NEW d PROVE Waits(h, d) <=> Waits(h, d)' \/ (h = k /\ d = e.done)
  <2>1. ASSUME Waits(h, d) PROVE Waits(h, d)' \/ (h = k /\ d = e.done)
    <3>1. PICK i \in 1..Len(events) : events[i].task = h /\ events[i].done = d
      BY <2>1 DEF Waits
    <3>2. CASE i = 1
      BY <1>2, <3>1, <3>2
    <3>3. CASE i # 1
      <4>1. PICK j \in 1..Len(events') : i = up(j)
        BY <1>3, <3>3
      <4> QED BY <1>2, <3>1, <4>1 DEF Waits
    <3> QED BY <3>2, <3>3
  <2>2. Waits(h, d)' => Waits(h, d)
    BY <1>2, <1>3 DEF Waits
  <2>3. Waits(k, e.done)
    BY <1>2 DEF Waits
  <2> QED BY <2>1, <2>2, <2>3
<1>6. \A i \in 1..Len(events') : events'[i].task = k => events'[i].done # e.done
  <2> SUFFICES ASSUME NEW i \in 1..Len(events'), events'[i].task = k, events'[i].done = e.done
               PROVE  FALSE
    OBVIOUS
  <2>1. events[up(i)].task = events[1].task /\ events[up(i)].done = events[1].done
        /\ up(i) \in 1..Len(events) /\ 1 \in 1..Len(events) /\ up(i) # 1
    BY <1>2, <1>3
  <2> QED BY <2>1 DEF EventsInv, EventsInOrder
<1>7. ASSUME NEW i \in 1..Len(events'), events'[i].task = k, e.done PROVE events'[i].done
  BY <1>2, <1>3, <1>7 DEF EventsInv, EventsInOrder
<1>8. /\ e.done => ~Waits(k, TRUE)' /\ ~Waits(k, FALSE) /\ ~Waits(k, FALSE)'
      /\ ~e.done => ~Waits(k, FALSE)'
  <2>0. e.done \in BOOLEAN
    BY <1>2 DEF TransferEvents
  <2>1. CASE e.done
    <3>1. ~\E i \in 1..Len(events') : events'[i].task = k
      <4> SUFFICES ASSUME NEW i \in 1..Len(events'), events'[i].task = k PROVE FALSE
        OBVIOUS
      <4>1. events'[i] \in TransferEvents
        BY <1>1, <1>2, <1>3, ElementOfSeq
      <4>2. events'[i].done \in BOOLEAN
        BY <4>1 DEF TransferEvents
      <4>3. events'[i].done = TRUE /\ e.done = TRUE
        BY <1>7, <2>0, <2>1, <4>2
      <4> QED BY <1>6, <4>3
    <3>2. ~Waits(k, TRUE)' /\ ~Waits(k, FALSE)'
      BY <3>1 DEF Waits
    <3>3. e.done # FALSE
      BY <2>1
    <3>4. ~Waits(k, FALSE)
      BY <1>5, <3>2, <3>3
    <3> QED BY <2>1, <3>2, <3>4
  <2>2. CASE ~e.done
    <3>1. e.done = FALSE
      BY <2>0, <2>2
    <3> QED BY <1>6, <2>2, <3>1 DEF Waits
  <2> QED BY <2>1, <2>2
<1> HIDE DEF k
<1>9. EventsBelong'
  BY <1>2, <1>3 DEF EventsInv, EventsBelong, Attached
<1>10. EventsInOrder'
  <2> SUFFICES ASSUME NEW i \in 1..Len(events'), NEW j \in 1..Len(events'),
                      events'[i].task = events'[j].task
               PROVE  /\ events'[i].done = events'[j].done => i = j
                      /\ ~events'[i].done /\ events'[j].done => i < j
    BY DEF EventsInOrder
  <2>1. /\ events'[i] = events[up(i)] /\ up(i) \in 1..Len(events)
        /\ events'[j] = events[up(j)] /\ up(j) \in 1..Len(events)
    BY <1>2, <1>3
  <2>2. /\ events'[i].done = events'[j].done => up(i) = up(j)
        /\ ~events'[i].done /\ events'[j].done => up(i) < up(j)
    BY <2>1 DEF EventsInv, EventsInOrder
  <2> QED BY <1>3, <2>2
<1>11. ~e.done => /\ \A h : Waits(h, TRUE)' <=> Waits(h, TRUE)
                  /\ \A h : h # k => (Waits(h, FALSE)' <=> Waits(h, FALSE))
                  /\ Waits(k, FALSE)
  <2> SUFFICES ASSUME e.done = FALSE
               PROVE  /\ \A h : Waits(h, TRUE)' <=> Waits(h, TRUE)
                      /\ \A h : h # k => (Waits(h, FALSE)' <=> Waits(h, FALSE))
                      /\ Waits(k, FALSE)
    BY <1>2 DEF TransferEvents
  <2>1. \A h, d : Waits(h, d) <=> Waits(h, d)' \/ (h = k /\ d = FALSE)
    BY <1>5 DEF k
  <2> QED BY <2>1
<1>12. e.done => /\ \A h : Waits(h, FALSE)' <=> Waits(h, FALSE)
                 /\ \A h : h # k => (Waits(h, TRUE)' <=> Waits(h, TRUE))
                 /\ Waits(k, TRUE)
  BY <1>5, <1>8 DEF k
<1>13. EndsFollow'
  <2> SUFFICES ASSUME NEW h \in 1..Len(tasks'), Waits(h, FALSE)', tasks'[h].pc = "ended"
               PROVE  Waits(h, TRUE)'
    BY DEF EndsFollow
  <2>1. Waits(h, FALSE)
    BY <1>5
  <2>2. Waits(h, TRUE)
    BY <2>1 DEF EventsInv, EndsFollow
  <2> QED BY <1>8, <1>11, <1>12, <2>2
<1>14. TasksBorn'
  BY DEF EventsInv, TasksBorn
<1>15. e.origin \in Origins
  BY <1>2 DEF TransferEvents
<1>16. ASSUME NEW o \in Origins
       PROVE  /\ \A h : h \in Unfinished(o) <=> IsUnfinished(h, o)
              /\ \A h : h \in Unfinished(o)' <=> IsUnfinished(h, o)'
  <2>1. \A h : h \in Unfinished(o) <=> IsUnfinished(h, o)
    BY UnfinishedIs
  <2>2. \A h : h \in Unfinished(o)' <=> IsUnfinished(h, o)'
    BY UnfinishedIsThen
  <2> QED BY <2>1, <2>2
<1>17. ASSUME NEW o \in Origins, NEW h, h # k PROVE IsUnfinished(h, o)' <=> IsUnfinished(h, o)
  <2>1. \A d \in {TRUE, FALSE} : Waits(h, d)' <=> Waits(h, d)
    BY <1>5, <1>17 DEF k
  <2> QED BY <2>1 DEF IsUnfinished, Attached
<1>18. ASSUME NEW o \in Origins, o # e.origin PROVE ~IsUnfinished(k, o)' /\ ~IsUnfinished(k, o)
  BY <1>4, <1>18 DEF IsUnfinished, k
<1>19. e.done => IsUnfinished(k, e.origin)
  BY <1>4, <1>8, <1>12 DEF IsUnfinished, k
<1>20. ASSUME NEW o \in Origins, o = e.origin
       PROVE  /\ e.done => ~IsUnfinished(k, o)'
              /\ ~e.done => ~IsUnfinished(k, o) /\ IsUnfinished(k, o)'
  <2>1. e.done => ~IsUnfinished(k, o)'
    BY <1>4, <1>8 DEF IsUnfinished, k
  <2>2. ASSUME ~e.done PROVE ~IsUnfinished(k, o) /\ IsUnfinished(k, o)'
    <3>1. ~IsUnfinished(k, o)
      BY <1>11, <2>2 DEF IsUnfinished
    <3>2. k \in 1..Len(tasks') /\ Attached(k)' /\ tasks'[k].origin = o
      BY <1>4, <1>20 DEF Attached, k
    <3>3. tasks'[k].pc = "ended" => Waits(k, TRUE)'
      BY <1>4, <1>11, <2>2 DEF EventsInv, EndsFollow, k
    <3>4. ~Waits(k, FALSE)'
      BY <1>8, <2>2 DEF k
    <3> QED BY <3>1, <3>2, <3>3, <3>4 DEF IsUnfinished
  <2> QED BY <2>1, <2>2
<1>21. \A o \in Origins : o # e.origin => Unfinished(o)' = Unfinished(o)
  BY <1>16, <1>17, <1>18
<1>22. ASSUME NEW o \in Origins, o = e.origin
       PROVE  IF e.done
              THEN k \in Unfinished(o) /\ Unfinished(o)' = Unfinished(o) \ {k}
              ELSE k \notin Unfinished(o) /\ Unfinished(o)' = Unfinished(o) \cup {k}
  BY <1>16, <1>17, <1>19, <1>20, <1>22
<1>23. EventsInv'
  BY <1>9, <1>10, <1>13, <1>14 DEF EventsInv
<1> QED BY <1>2, <1>4, <1>15, <1>21, <1>22, <1>23 DEF k

-----------------------------------------------------------------------------
(* Rows and tasks.  An event finds its row by the names of a peer and a file *)
(* only, so the row that a task's end closes need not be the one that its    *)
(* start made; but as the rows of the running server stand after those of    *)
(* earlier ones, an end whose names are found in its own rows alone closes   *)
(* one of the running server's as long as there is any, and an end whose     *)
(* names are found in other rows too takes nothing from those they are not   *)
(* found in.                                                                 *)

PlacedInv ==
    /\ \A i \in 1..Len(transfers) :
          IsServerRow(transfers[i]) => transfers[i].task \in 1..Len(tasks)
    /\ \A i, j \in 1..Len(transfers) :
          /\ i < j
          /\ IsServerRow(transfers[i]) /\ IsServerRow(transfers[j])
          /\ Attached(transfers[i].task)
          => Attached(transfers[j].task)

\* What the end of a task does to the rows of each origin, as their numbers tell.
Enough(o) == ClosedByOwn(o) => Cardinality(RowsOpen(o)) >= Cardinality(Unfinished(o))

NotTooMany(o) == ClosesOwn(o) => Cardinality(RowsOpen(o)) <= Cardinality(Unfinished(o))

Alike == \A o \in Origins : Enough(o) /\ NotTooMany(o)

\* A step that changes neither number keeps them alike.
LEMMA AlikeSame ==
    ASSUME Alike,
           \A o \in Origins : /\ Cardinality(RowsOpen(o)') = Cardinality(RowsOpen(o))
                             /\ Unfinished(o)' = Unfinished(o)
    PROVE  Alike'
BY DEF Alike, Enough, NotTooMany, ClosedByOwn, ClosesOwn

OpenOf(o) == {t \in Rows : OpenRow(t) /\ t.origin = o /\ Attached(t.task)}

LEMMA RowsOpenIs == TypeInv => \A o \in Origins : RowsOpen(o) = Places(transfers, OpenOf(o))
<1> SUFFICES ASSUME TypeInv, NEW o \in Origins PROVE RowsOpen(o) = Places(transfers, OpenOf(o))
  OBVIOUS
<1>1. DOMAIN transfers = 1..Len(transfers) /\ \A i \in 1..Len(transfers) : transfers[i] \in Rows
  BY Types, LenProperties, ElementOfSeq DEF TypeInv
<1> QED BY <1>1 DEF RowsOpen, Places, OpenOf

LEMMA RowsOpenIsThen ==
    TypeInv' => (\A o \in Origins : RowsOpen(o) = Places(transfers, OpenOf(o)))'
BY RowsOpenIs, PTL

\* What RowsOpen becomes when only the table changes.
LEMMA RowsOpenAfter ==
    ASSUME TypeInv', UNCHANGED <<tasks, attached>>, NEW o \in Origins
    PROVE  RowsOpen(o)' = Places(transfers', OpenOf(o))
<1>1. RowsOpen(o)' = Places(transfers', OpenOf(o)')
  BY RowsOpenIsThen DEF Places
<1>2. OpenOf(o)' = OpenOf(o)
  BY DEF OpenOf, Attached
<1> QED BY <1>1, <1>2

\* The table is as it was, and so are the tasks it knows.
LEMMA SameTable ==
    ASSUME TypeInv, TypeInv', PlacedInv, UNCHANGED <<transfers, attached>>,
           Len(tasks') >= Len(tasks),
           \A k \in 1..Len(tasks) : tasks'[k].server = tasks[k].server
    PROVE  PlacedInv' /\ \A o \in Origins : RowsOpen(o)' = RowsOpen(o)
<1>1. Len(tasks) \in Nat /\ DOMAIN transfers = 1..Len(transfers)
  BY Types, LenProperties DEF TypeInv
<1>2. Len(tasks') \in Nat
  <2>1. tasks' \in Seq(TaskRecords)
    BY DEF TypeInv, TypeOK, ServerOK, TaskRecords
  <2> QED BY <2>1, LenProperties
<1>3. \A k \in 1..Len(tasks) : k \in 1..Len(tasks') /\ (Attached(k)' <=> Attached(k))
  BY <1>1, <1>2 DEF Attached
<1>4. PlacedInv'
  <2>1. \A i \in 1..Len(transfers') :
           IsServerRow(transfers'[i]) => transfers'[i].task \in 1..Len(tasks')
    BY <1>3 DEF PlacedInv
  <2>2. ASSUME NEW i \in 1..Len(transfers'), NEW j \in 1..Len(transfers'), i < j,
               IsServerRow(transfers'[i]), IsServerRow(transfers'[j]),
               tasks'[transfers'[i].task].server = attached'
        PROVE  tasks'[transfers'[j].task].server = attached'
    BY <1>3, <2>2 DEF PlacedInv, Attached
  <2> QED BY <2>1, <2>2 DEF PlacedInv, Attached
<1>5. ASSUME NEW o \in Origins PROVE RowsOpen(o)' = RowsOpen(o)
  <2>1. ASSUME NEW i \in DOMAIN transfers
        PROVE  /\ OpenRow(transfers'[i]) /\ transfers'[i].origin = o
                  /\ tasks'[transfers'[i].task].server = attached'
               <=> /\ OpenRow(transfers[i]) /\ transfers[i].origin = o
                   /\ tasks[transfers[i].task].server = attached
    BY <1>1, <1>3 DEF PlacedInv, OpenRow, Attached
  <2> QED BY <2>1 DEF RowsOpen, Attached
<1> QED BY <1>4, <1>5

\* A row changes, but not its origin or its task.
LEMMA ChangedRow ==
    ASSUME TypeInv, TypeInv', PlacedInv, UNCHANGED <<tasks, attached>>,
           NEW i \in 1..Len(transfers), NEW t \in Rows,
           transfers' = [transfers EXCEPT ![i] = t], t.origin = transfers[i].origin,
           IsServerRow(transfers[i]) => t.task = transfers[i].task
    PROVE  /\ PlacedInv'
           /\ \A o \in Origins :
                 /\ (transfers[i] \in OpenOf(o) <=> t \in OpenOf(o)) => RowsOpen(o)' = RowsOpen(o)
                 /\ transfers[i] \in OpenOf(o) /\ t \notin OpenOf(o) =>
                        Cardinality(RowsOpen(o)') = Cardinality(RowsOpen(o)) - 1
<1>1. transfers \in Seq(Rows)
  BY Types DEF TypeInv
<1>2. /\ Len(transfers') = Len(transfers) /\ transfers'[i] = t
      /\ \A j \in 1..Len(transfers) : j # i => transfers'[j] = transfers[j]
  BY <1>1, ExceptSeq
<1>3. \A j \in 1..Len(transfers) :
          /\ IsServerRow(transfers'[j]) <=> IsServerRow(transfers[j])
          /\ IsServerRow(transfers[j]) => transfers'[j].task = transfers[j].task
  BY <1>2 DEF IsServerRow
<1>4. PlacedInv'
  BY <1>2, <1>3 DEF PlacedInv, Attached
<1>5. ASSUME NEW o \in Origins
      PROVE  RowsOpen(o)' = Places(transfers', OpenOf(o))
             /\ RowsOpen(o) = Places(transfers, OpenOf(o))
  BY RowsOpenAfter, RowsOpenIs
<1>6. ASSUME NEW o \in Origins
      PROVE  /\ (transfers[i] \in OpenOf(o) <=> t \in OpenOf(o)) => RowsOpen(o)' = RowsOpen(o)
             /\ transfers[i] \in OpenOf(o) /\ t \notin OpenOf(o) =>
                    Cardinality(RowsOpen(o)') = Cardinality(RowsOpen(o)) - 1
  <2> DEFINE S == OpenOf(o)
  <2>1. /\ (transfers[i] \in S <=> t \in S) => Places(transfers', S) = Places(transfers, S)
        /\ transfers[i] \in S /\ t \notin S =>
               Cardinality(Places(transfers', S)) = Cardinality(Places(transfers, S)) - 1
    <3> HIDE DEF S
    <3>1. PICK s, q : s = transfers /\ q = transfers'
      OBVIOUS
    <3>2. /\ s \in Seq(Rows) /\ i \in 1..Len(s) /\ Len(q) = Len(s)
          /\ \A j \in 1..Len(s) : j # i => q[j] = s[j]
      BY <1>1, <1>2, <3>1
    <3>3. /\ (s[i] \in S <=> q[i] \in S) => Places(q, S) = Places(s, S)
          /\ s[i] \in S /\ q[i] \notin S =>
                 Cardinality(Places(q, S)) = Cardinality(Places(s, S)) - 1
      BY <3>2, PlacesChanged
    <3> QED BY <1>2, <3>1, <3>3
  <2> QED BY <1>5, <2>1
<1> QED BY <1>4, <1>6

\* A row is appended: a client's, or one of a task of the running server.
LEMMA AppendedRow ==
    ASSUME TypeInv, TypeInv', PlacedInv, UNCHANGED <<tasks, attached>>,
           NEW r \in Rows, transfers' = Append(transfers, r),
           IsServerRow(r) => r.task \in 1..Len(tasks) /\ Attached(r.task)
    PROVE  /\ PlacedInv'
           /\ \A o \in Origins :
                 /\ r \in OpenOf(o) => Cardinality(RowsOpen(o)') = Cardinality(RowsOpen(o)) + 1
                 /\ r \notin OpenOf(o) => RowsOpen(o)' = RowsOpen(o)
<1> DEFINE n == Len(transfers) + 1
<1>1. transfers \in Seq(Rows) /\ Len(transfers) \in Nat
  BY Types DEF TypeInv
<1>2. /\ Len(transfers') = n /\ transfers'[n] = r
      /\ \A j \in 1..Len(transfers) : transfers'[j] = transfers[j] /\ j \in 1..n
      /\ \A j \in 1..n : j \in 1..Len(transfers) \/ j = n
      /\ \A i, j \in 1..n : i < j => i \in 1..Len(transfers)
  BY <1>1, AppendProperties
<1> HIDE DEF n
<1>3. PlacedInv'
  <2>1. \A i \in 1..Len(transfers') :
           IsServerRow(transfers'[i]) => transfers'[i].task \in 1..Len(tasks')
    BY <1>2 DEF PlacedInv
  <2>2. ASSUME NEW i \in 1..Len(transfers'), NEW j \in 1..Len(transfers'), i < j,
               IsServerRow(transfers'[i]), IsServerRow(transfers'[j]),
               tasks'[transfers'[i].task].server = attached'
        PROVE  tasks'[transfers'[j].task].server = attached'
    <3>1. CASE j = n
      BY <1>2, <2>2, <3>1 DEF Attached
    <3>2. CASE j # n
      BY <1>2, <2>2, <3>2 DEF PlacedInv, Attached
    <3> QED BY <3>1, <3>2
  <2> QED BY <2>1, <2>2 DEF PlacedInv, Attached
<1>4. ASSUME NEW o \in Origins
      PROVE  /\ r \in OpenOf(o) => Cardinality(RowsOpen(o)') = Cardinality(RowsOpen(o)) + 1
             /\ r \notin OpenOf(o) => RowsOpen(o)' = RowsOpen(o)
  <2> DEFINE S == OpenOf(o)
  <2>1. RowsOpen(o)' = Places(transfers', S) /\ RowsOpen(o) = Places(transfers, S)
    BY RowsOpenAfter, RowsOpenIs
  <2>2. /\ r \in S => Cardinality(Places(transfers', S)) = Cardinality(Places(transfers, S)) + 1
        /\ r \notin S => Places(transfers', S) = Places(transfers, S)
    BY <1>1, PlacesAppended
  <2> QED BY <2>1, <2>2
<1> QED BY <1>3, <1>4

\* A finished row is removed.
LEMMA RemovedRow ==
    ASSUME TypeInv, TypeInv', PlacedInv, UNCHANGED <<tasks, attached>>,
           NEW i \in 1..Len(transfers), transfers[i].done, transfers' = RemoveAt(transfers, i)
    PROVE  /\ PlacedInv'
           /\ \A o \in Origins : Cardinality(RowsOpen(o)') = Cardinality(RowsOpen(o))
<1>1. transfers \in Seq(Rows)
  BY Types DEF TypeInv
<1>2. /\ Len(transfers') = Len(transfers) - 1 /\ Len(transfers) \in Nat
      /\ \A j \in 1..Len(transfers') : transfers'[j] = transfers[IF j < i THEN j ELSE j + 1]
  BY <1>1, RemoveAtIndices
<1> DEFINE up(j) == IF j < i THEN j ELSE j + 1
<1>3. \A j \in 1..Len(transfers') : up(j) \in 1..Len(transfers) /\ transfers'[j] = transfers[up(j)]
  BY <1>2
<1>4. \A j, k \in 1..Len(transfers') : j < k => up(j) < up(k)
  BY <1>2
<1> HIDE DEF up
<1>5. PlacedInv'
  <2>1. \A j \in 1..Len(transfers') :
           IsServerRow(transfers'[j]) => transfers'[j].task \in 1..Len(tasks')
    BY <1>3 DEF PlacedInv
  <2>2. ASSUME NEW j \in 1..Len(transfers'), NEW k \in 1..Len(transfers'), j < k,
               IsServerRow(transfers'[j]), IsServerRow(transfers'[k]),
               tasks'[transfers'[j].task].server = attached'
        PROVE  tasks'[transfers'[k].task].server = attached'
    <3>1. /\ up(j) \in 1..Len(transfers) /\ up(k) \in 1..Len(transfers) /\ up(j) < up(k)
          /\ transfers'[j] = transfers[up(j)] /\ transfers'[k] = transfers[up(k)]
      BY <1>3, <1>4, <2>2
    <3> QED BY <2>2, <3>1 DEF PlacedInv, Attached
  <2> QED BY <2>1, <2>2 DEF PlacedInv, Attached
<1>6. ASSUME NEW o \in Origins PROVE Cardinality(RowsOpen(o)') = Cardinality(RowsOpen(o))
  <2> DEFINE S == OpenOf(o)
  <2>1. RowsOpen(o)' = Places(transfers', S) /\ RowsOpen(o) = Places(transfers, S)
    BY RowsOpenAfter, RowsOpenIs
  <2>2. transfers[i] \notin S
    BY DEF OpenOf, OpenRow
  <2> HIDE DEF S
  <2>3. Cardinality(Places(transfers', S)) = Cardinality(Places(transfers, S))
    BY <1>1, <2>2, PlacesRemoved
  <2> QED BY <2>1, <2>3
<1> QED BY <1>5, <1>6

\* An event is taken, and the table follows.
LEMMA AlikeAfterEvent ==
    ASSUME TypeInv, TypeInv', EventsInv, PlacedInv, Alike, PollEvents, events # <<>>
    PROVE  EventsInv' /\ PlacedInv' /\ Alike'
<1>1. /\ TransferEvent(Head(events)) /\ events' = Tail(events)
      /\ UNCHANGED <<srv, tasks, attached>>
  BY DEF PollEvents
<1>2. PICK e : e = Head(events)
  OBVIOUS
<1>3. /\ EventsInv'
      /\ e \in TransferEvents /\ e.task \in 1..Len(tasks) /\ Attached(e.task)
      /\ \A o \in Origins : o # e.origin => Unfinished(o)' = Unfinished(o)
      /\ IF e.done
         THEN /\ e.task \in Unfinished(e.origin)
              /\ Unfinished(e.origin)' = Unfinished(e.origin) \ {e.task}
         ELSE /\ e.task \notin Unfinished(e.origin)
              /\ Unfinished(e.origin)' = Unfinished(e.origin) \cup {e.task}
  BY <1>1, <1>2, EventsOfPoll
<1>4. e.origin \in Origins /\ e.origin # NoOrigin /\ <<e.origin, e.origin>> \in Inside
  BY <1>3, GuiRowsAssumption DEF TransferEvents
<1> DEFINE o == e.origin
           U == Unfinished(o)
<1>6. /\ transfers \in Seq(Rows) /\ Len(transfers) \in Nat
      /\ \A i \in 1..Len(transfers) : transfers[i] \in Rows
  BY Types, ElementOfSeq DEF TypeInv
<1>5. /\ IsFiniteSet(U) /\ Cardinality(U) \in Nat
      /\ \A a \in Origins :
            /\ RowsOpen(a) = Places(transfers, OpenOf(a))
            /\ Cardinality(RowsOpen(a)) \in Nat /\ Cardinality(Unfinished(a)) \in Nat
            /\ Enough(a) /\ NotTooMany(a)
  <2>1. \A a \in Origins : IsFiniteSet(Unfinished(a)) /\ Cardinality(Unfinished(a)) \in Nat
    BY UnfinishedIs, FS_CardinalityType
  <2>2. \A a \in Origins : RowsOpen(a) = Places(transfers, OpenOf(a))
    BY RowsOpenIs
  <2>3. \A a \in Origins : Cardinality(RowsOpen(a)) \in Nat
    BY <1>6, <2>2, PlacesFinite
  <2> QED BY <1>4, <2>1, <2>2, <2>3 DEF Alike
<1>7. CASE e.done
  <2>1. Unfinished(o)' = U \ {e.task} /\ e.task \in U
    BY <1>3, <1>7
  <2>2. Cardinality(U \ {e.task}) = Cardinality(U) - 1
    BY <1>5, <2>1, FS_RemoveElement
  <2>3. Cardinality(Unfinished(o)') = Cardinality(U) - 1 /\ Cardinality(U) - 1 \in Nat
    <3>1. U # {}
      BY <2>1
    <3> HIDE DEF U
    <3>2. Cardinality(U) # 0
      BY <1>5, <3>1, FS_EmptySet
    <3>3. Cardinality(Unfinished(o)') = Cardinality(U) - 1
      BY <2>1, <2>2
    <3> QED BY <1>5, <3>2, <3>3
  <2>4. TransferEvent(e)
    BY <1>1, <1>2
  <2>5. CASE /\ UNCHANGED transfers
             /\ \A k \in 1..Len(transfers) :
                   ~(OpenRow(transfers[k]) /\ <<o, transfers[k].origin>> \in Inside)
    <3>1. PlacedInv' /\ \A a \in Origins : RowsOpen(a)' = RowsOpen(a)
      BY <1>1, <2>5, SameTable
    <3>2. ASSUME NEW a \in Origins, a # o PROVE Enough(a)' /\ NotTooMany(a)'
      <4>1. RowsOpen(a)' = RowsOpen(a) /\ Unfinished(a)' = Unfinished(a)
        BY <1>3, <3>1, <3>2
      <4> QED BY <1>5, <4>1 DEF Enough, NotTooMany, ClosedByOwn, ClosesOwn
    <3>3. Cardinality(RowsOpen(o)) = 0
      <4>1. RowsOpen(o) = {}
        BY <1>4, <1>5, <2>5 DEF Places, OpenOf
      <4> QED BY <4>1, FS_EmptySet
    <3>4. Enough(o)' /\ NotTooMany(o)'
      BY <1>4, <1>5, <2>3, <3>1, <3>3 DEF Enough, NotTooMany, ClosedByOwn, ClosesOwn
    <3> QED BY <1>3, <3>1, <3>2, <3>4 DEF Alike
  <2>6. ASSUME NEW i \in 1..Len(transfers), NEW t \in Rows,
               /\ transfers' = [transfers EXCEPT ![i] = t]
               /\ OpenRow(transfers[i])
               /\ <<o, transfers[i].origin>> \in Inside
               /\ \A k \in 1..Len(transfers) :
                     OpenRow(transfers[k]) /\ <<o, transfers[k].origin>> \in Inside
                         => k <= i
               /\ t.done = TRUE
               /\ t.origin = transfers[i].origin
               /\ t.task = transfers[i].task
        PROVE  EventsInv' /\ PlacedInv' /\ Alike'
    <3>1. \A a \in Origins : t \notin OpenOf(a)
      BY <2>6 DEF OpenOf, OpenRow
    <3>2. /\ PlacedInv'
          /\ \A a \in Origins :
                /\ transfers[i] \notin OpenOf(a) => RowsOpen(a)' = RowsOpen(a)
                /\ transfers[i] \in OpenOf(a) =>
                      Cardinality(RowsOpen(a)') = Cardinality(RowsOpen(a)) - 1
      <4>1. /\ PlacedInv'
            /\ \A a \in Origins :
                  /\ (transfers[i] \in OpenOf(a) <=> t \in OpenOf(a)) =>
                        RowsOpen(a)' = RowsOpen(a)
                  /\ transfers[i] \in OpenOf(a) /\ t \notin OpenOf(a) =>
                        Cardinality(RowsOpen(a)') = Cardinality(RowsOpen(a)) - 1
        BY <1>1, <2>6, ChangedRow
      <4> QED BY <3>1, <4>1
    \* Others lose no row to `o` unless its names are found in theirs.
    <3>3. ASSUME NEW a \in Origins, a # o PROVE Enough(a)' /\ NotTooMany(a)'
      <4>1. Unfinished(a)' = Unfinished(a)
        BY <1>3, <3>3
      <4>2. ClosedByOwn(a) => transfers[i] \notin OpenOf(a)
        BY <1>4, <2>6, <3>3 DEF ClosedByOwn, OpenOf
      <4>3. Enough(a)'
        BY <1>5, <3>2, <4>1, <4>2 DEF Enough, ClosedByOwn
      <4>4. Cardinality(RowsOpen(a)') <= Cardinality(RowsOpen(a))
        BY <1>5, <3>2
      <4>5. NotTooMany(a)'
        <5>1. CASE transfers[i] \in OpenOf(a)
          BY <1>5, <3>2, <4>1, <5>1 DEF NotTooMany, ClosesOwn
        <5>2. CASE transfers[i] \notin OpenOf(a)
          BY <1>5, <3>2, <4>1, <5>2 DEF NotTooMany, ClosesOwn
        <5> QED BY <5>1, <5>2
      <4> QED BY <4>3, <4>5
    <3>4. Enough(o)'
      BY <1>4, <1>5, <2>3, <3>2 DEF Enough, ClosedByOwn
    \* If `o` has a row, the one that is closed is also one of the running server's.
    <3>5. ASSUME ClosesOwn(o), NEW j \in 1..Len(transfers), transfers[j] \in OpenOf(o)
          PROVE  transfers[i] \in OpenOf(o)
      <4>1. OpenRow(transfers[j]) /\ transfers[j].origin = o /\ Attached(transfers[j].task)
        BY <3>5 DEF OpenOf
      <4>2. j <= i
        BY <1>4, <2>6, <4>1
      <4>3. transfers[i].origin = o
        <5>1. transfers[i].origin \in Origins
          BY <1>6, <2>6 DEF Rows, OpenRow, IsServerRow
        <5> QED BY <2>6, <3>5, <5>1 DEF ClosesOwn
      <4>4. Attached(transfers[i].task)
        <5>1. CASE i = j
          BY <4>1, <5>1
        <5>2. CASE j < i
          BY <2>6, <4>1, <5>2 DEF PlacedInv, OpenRow
        <5> QED BY <4>2, <5>1, <5>2
      <4> QED BY <1>6, <2>6, <4>3, <4>4 DEF OpenOf
    <3>6. NotTooMany(o)'
      <4> SUFFICES ASSUME ClosesOwn(o)
                   PROVE  Cardinality(RowsOpen(o)') <= Cardinality(Unfinished(o)')
        BY DEF NotTooMany, ClosesOwn
      <4>1. CASE transfers[i] \in OpenOf(o)
        BY <1>4, <1>5, <2>3, <3>2, <4>1 DEF NotTooMany
      <4>2. CASE transfers[i] \notin OpenOf(o)
        <5>1. RowsOpen(o) = {}
          BY <1>4, <1>5, <3>5, <4>2 DEF Places
        <5>2. Cardinality(RowsOpen(o)') = 0
          BY <1>4, <3>2, <4>2, <5>1, FS_EmptySet
        <5> QED BY <2>3, <5>2
      <4> QED BY <4>1, <4>2
    <3> QED BY <1>3, <3>2, <3>3, <3>4, <3>6 DEF Alike
  <2>7. \/ /\ UNCHANGED transfers
           /\ \A k \in 1..Len(transfers) :
                 ~(OpenRow(transfers[k]) /\ <<o, transfers[k].origin>> \in Inside)
        \/ \E i \in 1..Len(transfers), t \in Rows :
              /\ transfers' = [transfers EXCEPT ![i] = t]
              /\ OpenRow(transfers[i])
              /\ <<o, transfers[i].origin>> \in Inside
              /\ \A k \in 1..Len(transfers) :
                    OpenRow(transfers[k]) /\ <<o, transfers[k].origin>> \in Inside
                        => k <= i
              /\ t.done = TRUE
              /\ t.origin = transfers[i].origin
              /\ t.task = transfers[i].task
    BY <1>3, <1>7, <2>4, ClosingEventChanges
  <2> QED BY <2>5, <2>6, <2>7
<1>8. CASE ~e.done
  <2>1. Unfinished(o)' = U \cup {e.task} /\ e.task \notin U
    BY <1>3, <1>8
  <2>2. Cardinality(U \cup {e.task}) = Cardinality(U) + 1
    BY <1>5, <2>1, FS_AddElement
  <2> DEFINE r == Row(next_id, o, e.task)
             q == Append(transfers, r)
  <2>3. transfers' = q
    BY <1>1, <1>2, <1>8 DEF TransferEvent
  <2>4. OpenRow(r) /\ r.origin = o /\ r.task = e.task
    BY <1>4 DEF Row, OpenRow, IsServerRow
  <2>5. r \in Rows
    <3>1. transfers' \in Seq(Rows)
      BY DEF TypeInv, TypeOK, RowsOK
    <3>2. Len(q) = Len(transfers) + 1 /\ q[Len(transfers) + 1] = r
      BY <1>6
    <3> HIDE DEF r, q
    <3>3. Len(transfers) + 1 \in 1..Len(q)
      BY <1>6, <3>2
    <3> QED BY <2>3, <3>1, <3>2, <3>3, ElementOfSeq
  <2> HIDE DEF r
  <2>6. r \in OpenOf(o) /\ \A a \in Origins : a # o => r \notin OpenOf(a)
    BY <1>3, <2>4, <2>5 DEF OpenOf
  <2>7. /\ PlacedInv'
        /\ \A a \in Origins :
              /\ r \in OpenOf(a) => Cardinality(RowsOpen(a)') = Cardinality(RowsOpen(a)) + 1
              /\ r \notin OpenOf(a) => RowsOpen(a)' = RowsOpen(a)
    BY <1>1, <1>3, <2>3, <2>4, <2>5, AppendedRow
  <2>8. ASSUME NEW a \in Origins PROVE Enough(a)' /\ NotTooMany(a)'
    <3>1. CASE a = o
      <4>1. /\ Cardinality(RowsOpen(o)') = Cardinality(RowsOpen(o)) + 1
            /\ Cardinality(Unfinished(o)') = Cardinality(Unfinished(o)) + 1
        BY <1>4, <2>1, <2>2, <2>6, <2>7
      <4> QED BY <1>4, <1>5, <3>1, <4>1 DEF Enough, NotTooMany, ClosedByOwn, ClosesOwn
    <3>2. CASE a # o
      <4>1. RowsOpen(a)' = RowsOpen(a) /\ Unfinished(a)' = Unfinished(a)
        BY <1>3, <2>6, <2>7, <3>2
      <4> QED BY <4>1 DEF Alike, Enough, NotTooMany, ClosedByOwn, ClosesOwn
    <3> QED BY <3>1, <3>2
  <2> QED BY <1>3, <2>7, <2>8 DEF Alike
<1> QED BY <1>7, <1>8

\* Start: neither a row nor a task of the new thread exists yet.
LEMMA AlikeAfterStart ==
    ASSUME TypeInv, TypeInv', EventsInv, PlacedInv, BornStay, NEW g \in Servers,
           NEW p \in Ports, Start(g, p)
    PROVE  EventsInv' /\ PlacedInv' /\ Alike'
<1>1. /\ srv[g].pc = "unborn" /\ attached' = g /\ events' = <<>>
      /\ UNCHANGED <<tasks, transfers>>
  BY DEF Start
<1>2. Len(events') = 0
  BY <1>1, EmptySeq
<1>3. \A k \in 1..Len(tasks) : tasks[k].server # g /\ tasks[k].server \in Servers
  <2>1. \A k \in 1..Len(tasks) : tasks[k] \in TaskRecords
    BY Types, ElementOfSeq DEF TypeInv
  <2>2. \A k \in 1..Len(tasks) : tasks[k].server \in Servers
    BY <2>1 DEF TaskRecords
  <2> QED BY <1>1, <2>2 DEF EventsInv, TasksBorn
<1>4. \A k \in 1..Len(tasks') : tasks'[k].server # attached'
  BY <1>1, <1>3
<1>5. EventsInv'
  <2>1. TasksBorn'
    BY <1>1, <1>3 DEF EventsInv, TasksBorn, BornStay
  <2>2. EventsBelong' /\ EventsInOrder'
    BY <1>2 DEF EventsBelong, EventsInOrder
  <2>3. EndsFollow'
    BY <1>2 DEF EndsFollow, Waits
  <2> QED BY <2>1, <2>2, <2>3 DEF EventsInv
<1>6. PlacedInv'
  <2>1. \A i \in 1..Len(transfers') :
           IsServerRow(transfers'[i]) => transfers'[i].task \in 1..Len(tasks')
    BY <1>1 DEF PlacedInv
  <2> QED BY <1>4, <2>1 DEF PlacedInv, Attached
<1>7. ASSUME NEW o \in Origins PROVE Enough(o)' /\ NotTooMany(o)'
  <2>1. \A k : k \in Unfinished(o)' <=> IsUnfinished(k, o)'
    BY UnfinishedIsThen
  <2>2. \A k : ~IsUnfinished(k, o)'
    BY <1>4 DEF IsUnfinished, Attached
  <2>3. Unfinished(o)' = {}
    BY <2>1, <2>2
  <2>4. DOMAIN transfers' = 1..Len(transfers')
    BY <1>1, Types, LenProperties DEF TypeInv
  <2>5. RowsOpen(o)' = {}
    BY <1>4, <1>6, <2>4 DEF RowsOpen, PlacedInv, OpenRow, Attached
  <2>6. Cardinality(RowsOpen(o)') = 0 /\ Cardinality(Unfinished(o)') = 0
    BY <2>3, <2>5, FS_EmptySet
  <2> QED BY <2>6 DEF Enough, NotTooMany
<1> QED BY <1>5, <1>6, <1>7 DEF Alike

\* Steps that no task begins or ends in, and that leave the channel and the table alone.
LEMMA AlikeFrame ==
    ASSUME TypeInv, TypeInv', EventsInv, PlacedInv, Alike, BornStay, TasksKept,
           UNCHANGED <<events, attached, transfers>>
    PROVE  EventsInv' /\ PlacedInv' /\ Alike'
<1>1. EventsInv' /\ \A o \in Origins : Unfinished(o)' = Unfinished(o)
  BY EventsFrame
<1>2. Len(tasks) \in Nat /\ Len(tasks') = Len(tasks)
  BY Types DEF TypeInv, TasksKept
<1>3. PlacedInv' /\ \A o \in Origins : RowsOpen(o)' = RowsOpen(o)
  BY <1>2, SameTable DEF TasksKept
<1> QED BY <1>1, <1>3, AlikeSame

\* Turns of the loops that follow, and the buttons: a server's row stays what it was,
\* unless it is finished and goes.
LEMMA AlikeAfterPoll ==
    ASSUME TypeInv, TypeInv', IdsInv, EventsInv, PlacedInv, Alike, BornStay,
           PollStatus \/ PollProgress \/ PollMessages
    PROVE  EventsInv' /\ PlacedInv' /\ Alike'
<1>1. UNCHANGED <<tasks, attached, events, srv>> /\ TasksKept
  BY DEF PollStatus, PollProgress, PollMessages, serverVars, channels, TasksKept
<1>2. EventsInv' /\ \A o \in Origins : Unfinished(o)' = Unfinished(o)
  BY <1>1, EventsFrame
<1>3. CASE UNCHANGED transfers
  BY <1>1, <1>3, AlikeFrame
<1>4. CASE ~UNCHANGED transfers
  <2>1. PICK i \in 1..Len(transfers), t \in Rows :
                 /\ transfers' = [transfers EXCEPT ![i] = t]
                 /\ t.origin = transfers[i].origin
                 /\ IsServerRow(transfers[i]) =>
                       t.task = transfers[i].task /\ t.done = transfers[i].done
    <3>1. CASE PollProgress
      <4>1. progress # <<>> /\ ServerProgress(Head(progress))
        BY <1>4, <3>1 DEF PollProgress
      <4>2. progress \in Seq(1..MaxReports) /\ MaxReports \in Nat
        BY Types DEF TypeInv
      <4>3. Head(progress) \in 1..MaxReports
        BY <4>1, <4>2, HeadTailProperties
      <4>4. Head(progress) \in 0..MaxReports
        BY <4>2, <4>3
      <4> QED BY <1>4, <4>1, <4>4, ServerProgressChanges
    <3>2. CASE PollMessages
      BY <1>4, <3>2, IdsOfMessage
    <3>3. ~PollStatus
      BY <1>4 DEF PollStatus
    <3> QED BY <3>1, <3>2, <3>3
  <2>2. \A o \in Origins : transfers[i] \in OpenOf(o) <=> t \in OpenOf(o)
    <3>1. transfers[i] \in Rows
      BY Types, ElementOfSeq DEF TypeInv
    <3> QED BY <2>1, <3>1 DEF OpenOf, OpenRow, IsServerRow
  <2>3. /\ PlacedInv'
        /\ \A o \in Origins :
              (transfers[i] \in OpenOf(o) <=> t \in OpenOf(o)) => RowsOpen(o)' = RowsOpen(o)
    BY <1>1, <2>1, ChangedRow
  <2> QED BY <1>2, <2>2, <2>3, AlikeSame
<1> QED BY <1>3, <1>4

LEMMA AlikeAfterFrame ==
    ASSUME TypeInv, TypeInv', EventsInv, PlacedInv, Alike, BornStay, Frame
    PROVE  EventsInv' /\ PlacedInv' /\ Alike'
<1>1. CASE \E g \in Servers, p \in Ports : Start(g, p)
  BY <1>1, AlikeAfterStart
<1>2. CASE Stop \/ NoClick
  <2>1. UNCHANGED <<events, attached, transfers, tasks>>
    BY <1>2 DEF Stop, NoClick, serverVars, channels
  <2>2. TasksKept
    BY <2>1 DEF TasksKept
  <2> QED BY <2>1, <2>2, AlikeFrame
<1>3. ASSUME UNCHANGED serverVars
      PROVE  /\ UNCHANGED <<tasks, attached>>
             /\ EventsInv' /\ \A o \in Origins : Unfinished(o)' = Unfinished(o)
  <2>1. UNCHANGED <<events, attached, tasks>> /\ TasksKept
    BY <1>3 DEF serverVars, channels, TasksKept
  <2> QED BY <2>1, EventsFrame
<1>4. CASE StartTransfer
  <2> DEFINE r == Row(next_id, NoOrigin, 0)
  <2>1. transfers' = Append(transfers, r) /\ UNCHANGED serverVars
    BY <1>4 DEF StartTransfer
  <2>2. ~IsServerRow(r)
    BY DEF Row, IsServerRow
  <2>3. r \in Rows
    <3> HIDE DEF r
    <3>1. /\ transfers' \in Seq(Rows)
          /\ transfers \in Seq(Rows) /\ Len(transfers) \in Nat
      BY Types DEF TypeInv, TypeOK, RowsOK
    <3>2. /\ Len(transfers') = Len(transfers) + 1 /\ transfers'[Len(transfers) + 1] = r
      BY <2>1, <3>1, AppendProperties
    <3>3. Len(transfers) + 1 \in 1..Len(transfers')
      BY <3>1, <3>2
    <3> QED BY <3>1, <3>2, <3>3, ElementOfSeq
  <2> HIDE DEF r
  <2>4. \A o \in Origins : r \notin OpenOf(o)
    BY <2>2 DEF OpenOf, OpenRow
  <2>5. /\ PlacedInv'
        /\ \A o \in Origins : r \notin OpenOf(o) => RowsOpen(o)' = RowsOpen(o)
    BY <1>3, <2>1, <2>2, <2>3, AppendedRow
  <2> QED BY <1>3, <2>1, <2>4, <2>5, AlikeSame
<1>5. ASSUME NEW i \in DOMAIN transfers, RemoveRow(i) PROVE EventsInv' /\ PlacedInv' /\ Alike'
  <2>1. i \in 1..Len(transfers)
    BY Types, LenProperties DEF TypeInv
  <2>2. transfers[i].done /\ transfers' = RemoveAt(transfers, i) /\ UNCHANGED serverVars
    BY <1>5 DEF RemoveRow
  <2>3. /\ PlacedInv'
        /\ \A o \in Origins : Cardinality(RowsOpen(o)') = Cardinality(RowsOpen(o))
    BY <1>3, <2>1, <2>2, RemovedRow
  <2> QED BY <1>3, <2>2, <2>3, AlikeSame
<1> QED BY <1>1, <1>2, <1>4, <1>5 DEF Frame

LEMMA AlikeAfterThread ==
    ASSUME TypeInv, TypeInv', EventsInv, PlacedInv, Alike, BornStay, UNCHANGED transfers,
           NEW g \in Servers, Thread(g) \/ ReceiveFails(g)
    PROVE  EventsInv' /\ PlacedInv' /\ Alike'
<1>1. /\ tasks \in Seq(TaskRecords) /\ Len(tasks) \in Nat /\ DOMAIN tasks = 1..Len(tasks)
      /\ \A k \in 1..Len(tasks) : tasks[k] \in TaskRecords
  BY Types, LenProperties, ElementOfSeq DEF TypeInv
<1>2. CASE DropRuntime(g)
  <2>1. tasks' = [k \in 1..Len(tasks) |->
                    IF tasks[k].server = g /\ tasks[k].pc = "run"
                    THEN [tasks[k] EXCEPT !.pc = "cancelled"] ELSE tasks[k]]
        /\ UNCHANGED <<events, attached>>
    BY <1>1, <1>2 DEF DropRuntime, channels
  <2>2. Len(tasks') = Len(tasks)
    BY <1>1, <2>1
  <2>3. ASSUME NEW k \in 1..Len(tasks)
        PROVE  /\ tasks'[k].server = tasks[k].server /\ tasks'[k].origin = tasks[k].origin
               /\ tasks'[k].pc = "ended" <=> tasks[k].pc = "ended"
    <3>1. tasks'[k] = IF tasks[k].server = g /\ tasks[k].pc = "run"
                      THEN [tasks[k] EXCEPT !.pc = "cancelled"] ELSE tasks[k]
      BY <2>1
    <3>2. tasks[k] \in TaskRecords
      BY <1>1
    <3> QED BY <3>1, <3>2 DEF TaskRecords
  <2> QED BY <2>1, <2>2, <2>3, AlikeFrame DEF TasksKept
<1>3. CASE Receive(g) /\ ~UNCHANGED <<tasks, events>>
  <2>1. EventsInv' /\ \A o \in Origins : Unfinished(o)' = Unfinished(o)
    BY <1>3, EventsOfRequest
  <2>2. UNCHANGED attached /\ \E t : tasks' = Append(tasks, t)
    BY <1>3 DEF Receive
  <2>3. /\ Len(tasks') >= Len(tasks)
        /\ \A k \in 1..Len(tasks) : tasks'[k].server = tasks[k].server
    BY <1>1, <2>2
  <2>4. PlacedInv' /\ \A o \in Origins : RowsOpen(o)' = RowsOpen(o)
    BY <2>2, <2>3, SameTable
  <2> QED BY <2>1, <2>4, AlikeSame
<1>4. CASE ~DropRuntime(g) /\ ~(Receive(g) /\ ~UNCHANGED <<tasks, events>>)
  <2>1. UNCHANGED <<tasks, events, attached>>
    BY <1>4 DEF Thread, Probe, DropProbe, Bind, TryBind, CheckStop, Leave, ReceiveFails,
                Receive, channels
  <2>2. TasksKept
    BY <2>1 DEF TasksKept
  <2> QED BY <2>1, <2>2, AlikeFrame
<1> QED BY <1>2, <1>3, <1>4

LEMMA AlikeAfterTask ==
    ASSUME TypeInv, TypeInv', EventsInv, PlacedInv, Alike, BornStay, UNCHANGED transfers,
           NEW k \in DOMAIN tasks, Task(k)
    PROVE  EventsInv' /\ PlacedInv' /\ Alike'
<1>1. /\ tasks \in Seq(TaskRecords) /\ Len(tasks) \in Nat /\ DOMAIN tasks = 1..Len(tasks)
      /\ tasks[k] \in TaskRecords
  BY Types, LenProperties, ElementOfSeq DEF TypeInv
<1>2. ASSUME NEW t, tasks' = [tasks EXCEPT ![k] = t], t.server = tasks[k].server
      PROVE  /\ Len(tasks') = Len(tasks)
             /\ \A h \in 1..Len(tasks) : tasks'[h].server = tasks[h].server
             /\ t.origin = tasks[k].origin /\ t.pc = tasks[k].pc => TasksKept
  BY <1>1, <1>2 DEF TasksKept
<1>3. CASE Report(k)
  <2> DEFINE t == [tasks[k] EXCEPT !.sent = @ + 1]
  <2>1. tasks' = [tasks EXCEPT ![k] = t] /\ UNCHANGED <<events, attached>>
    BY <1>3 DEF Report
  <2>2. t.server = tasks[k].server /\ t.origin = tasks[k].origin /\ t.pc = tasks[k].pc
    BY <1>1 DEF TaskRecords
  <2> HIDE DEF t
  <2>3. TasksKept
    BY <1>2, <2>1, <2>2
  <2> QED BY <2>1, <2>3, AlikeFrame
<1>4. CASE EndTask(k)
  <2> DEFINE t == [tasks[k] EXCEPT !.pc = "ended"]
  <2>1. EventsInv' /\ \A o \in Origins : Unfinished(o)' = Unfinished(o)
    BY <1>4, EventsOfEnd
  <2>2. tasks' = [tasks EXCEPT ![k] = t] /\ UNCHANGED attached
    BY <1>4 DEF EndTask
  <2>3. t.server = tasks[k].server
    BY <1>1 DEF TaskRecords
  <2> HIDE DEF t
  <2>4. /\ Len(tasks') >= Len(tasks)
        /\ \A h \in 1..Len(tasks) : tasks'[h].server = tasks[h].server
    BY <1>1, <1>2, <2>2, <2>3
  <2>5. PlacedInv' /\ \A o \in Origins : RowsOpen(o)' = RowsOpen(o)
    BY <2>2, <2>4, SameTable
  <2> QED BY <2>1, <2>5, AlikeSame
<1> QED BY <1>3, <1>4 DEF Task

LEMMA AlikeNext ==
    /\ TypeInv /\ TypeInv' /\ IdsInv
    /\ EventsInv /\ PlacedInv /\ Alike /\ [Next]_vars
    => EventsInv' /\ PlacedInv' /\ Alike'
<1> SUFFICES ASSUME TypeInv, TypeInv', IdsInv, EventsInv, PlacedInv, Alike,
                    [Next]_vars
             PROVE  EventsInv' /\ PlacedInv' /\ Alike'
  OBVIOUS
<1>1. BornStay
  BY ThreadsStayBorn
<1>2. ASSUME UNCHANGED <<tasks, events, attached, transfers>>
      PROVE  EventsInv' /\ PlacedInv' /\ Alike'
  <2>1. TasksKept
    BY <1>2 DEF TasksKept
  <2> QED BY <1>1, <1>2, <2>1, AlikeFrame
<1>3. CASE UI
  <2>1. CASE PollEvents
    <3>1. CASE events = <<>>
      BY <1>2, <2>1, <3>1 DEF PollEvents
    <3>2. CASE events # <<>>
      BY <2>1, <3>2, AlikeAfterEvent
    <3> QED BY <3>1, <3>2
  <2>2. CASE PollStatus \/ PollProgress \/ PollMessages
    BY <1>1, <2>2, AlikeAfterPoll
  <2>3. CASE Frame
    BY <1>1, <2>3, AlikeAfterFrame
  <2> QED BY <1>3, <2>1, <2>2, <2>3 DEF UI
<1>4. ASSUME NEW g \in Servers, ServerThread(g) \/ GiveUp(g)
      PROVE  EventsInv' /\ PlacedInv' /\ Alike'
  BY <1>1, <1>4, AlikeAfterThread DEF ServerThread, GiveUp, rowVars
<1>5. ASSUME NEW k \in 1..MaxTransfers, ServerTask(k) PROVE EventsInv' /\ PlacedInv' /\ Alike'
  BY <1>1, <1>5, AlikeAfterTask DEF ServerTask, rowVars
<1>6. CASE \/ \E c \in 1..MaxTransfers : Client(c)
           \/ OneMore /\ Arrive /\ UNCHANGED <<rowVars, appVars>>
           \/ UNCHANGED vars
  BY <1>2, <1>6 DEF Client, ClientEnds, Arrive, vars, rowVars, serverVars, channels
<1> QED BY <1>3, <1>4, <1>5, <1>6 DEF Next

LEMMA AlikeInit == Init => PlacedInv /\ Alike
<1> SUFFICES ASSUME Init PROVE PlacedInv /\ Alike
  OBVIOUS
<1>1. Len(transfers) = 0 /\ DOMAIN transfers = {} /\ DOMAIN tasks = {}
  BY EmptySeq DEF Init, RowsInit, ServerInit
<1>2. \A o \in Origins : RowsOpen(o) = {} /\ Unfinished(o) = {}
  BY <1>1 DEF RowsOpen, Unfinished
<1>3. Alike
  BY <1>2, FS_EmptySet DEF Alike, Enough, NotTooMany
<1> QED BY <1>1, <1>3 DEF PlacedInv

\* For each peer and file, the running server has as many open rows as tasks that the
\* table has heard to begin and not to end, whatever requests are repeated and whatever
\* rows are left of earlier servers: at least as many if no other names are found in
\* theirs, at most as many if theirs are found in no others (gui.rs:441).
THEOREM GuiOneRowPerTask == Spec => []OneRowPerTask
<1> DEFINE AllAlike == EventsInv /\ PlacedInv /\ Alike
<1>1. Init => AllAlike
  BY EventsInit, AlikeInit
<1>2. TypeInv /\ TypeInv' /\ IdsInv /\ AllAlike /\ [Next]_vars => AllAlike'
  BY AlikeNext
<1>3. AllAlike => OneRowPerTask
  BY DEF Alike, Enough, NotTooMany, OneRowPerTask
<1> HIDE DEF AllAlike
<1> QED BY <1>1, <1>2, <1>3, IdsHold, PTL DEF Spec
=============================================================================
