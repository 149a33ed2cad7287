------------------------------ MODULE Network ------------------------------
(***************************************************************************)
(* UDP between one client and one server, as the sockets of last-tftp use  *)
(* it.  A datagram sits in the queue of its destination port from the send *)
(* until it is received; the queue stands for the wire and for the socket  *)
(* buffer together.  Sending to a port nobody has bound drops the          *)
(* datagram.  The network may lose, duplicate and delay datagrams, within  *)
(* a budget of MaxFaults that timers firing early draw on too.             *)
(***************************************************************************)
EXTENDS Integers, SequencesExt

CONSTANTS
    MaxSessions,  \* how many session sockets the server can bind (a bound)
    FaultKinds,   \* which of "lose", "duplicate", "delay", "late" may happen
    FaultTypes,   \* the packet types that lose, duplicate and delay affect
    MaxFaults     \* how many faults may happen (a bound)

ASSUME NetworkAssumption ==
    /\ MaxSessions \in Nat \ {0}
    /\ MaxFaults \in Nat
    /\ FaultKinds \subseteq {"lose", "duplicate", "delay", "late"}

VARIABLES
    net,     \* net[p]: the datagrams under way to, or waiting at, port p
    open,    \* the ports a socket is bound to
    faults   \* how many faults have happened

netVars == <<net, open, faults>>

\* The TID of a session is its number: sessions are numbered from one.
Sessions == 1..MaxSessions
ListenPort == 0                  \* the well-known port 69
ClientPort == MaxSessions + 1    \* the TID the client's bind chose
Ports == 0..(MaxSessions + 1)

\* q after a datagram m is sent to port p.
Sent(q, p, m) == IF p \in open THEN [q EXCEPT ![p] = Append(@, m)] ELSE q

\* q after port p's first datagram is received.
Received(q, p) == [q EXCEPT ![p] = Tail(@)]

\* q after the socket of port p is dropped.
Closed(q, p) == [q EXCEPT ![p] = <<>>]

NetInit ==
    /\ net = [p \in Ports |-> <<>>]
    /\ open = {ListenPort, ClientPort}
    /\ faults = 0

Fault(kind) ==
    /\ kind \in FaultKinds
    /\ faults < MaxFaults
    /\ faults' = faults + 1

Lose(p, i) ==
    /\ Fault("lose")
    /\ net[p][i].type \in FaultTypes
    /\ net' = [net EXCEPT ![p] = RemoveAt(@, i)]
    /\ UNCHANGED open

\* The copy arrives after everything already under way.
Duplicate(p, i) ==
    /\ Fault("duplicate")
    /\ net[p][i].type \in FaultTypes
    /\ net' = [net EXCEPT ![p] = Append(@, @[i])]
    /\ UNCHANGED open

\* The datagram is overtaken by everything already under way.
Delay(p, i) ==
    /\ Fault("delay")
    /\ i < Len(net[p])
    /\ net[p][i].type \in FaultTypes
    /\ net' = [net EXCEPT ![p] = Append(RemoveAt(@, i), @[i])]
    /\ UNCHANGED open

NetworkFault ==
    \E p \in Ports : \E i \in 1..Len(net[p]) :
        Lose(p, i) \/ Duplicate(p, i) \/ Delay(p, i)
=============================================================================
