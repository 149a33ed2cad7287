------------------------------- MODULE MCWire -------------------------------
(* MCNegotiate's configurations, and datagrams of every kind, whole and cut    *)
(* short.  Names are shorter than the code's, in the same order.               *)
EXTENDS Wire, MCNegotiate

MCNameText ==
    [blksize |-> <<98>>, timeout |-> <<116, 105>>, tsize |-> <<116, 115>>,
     windowsize |-> <<119>>]

\* Nothing, a plus, zeros.
MCPads == {<<>>, <<43>>, <<48, 48>>}

Name(via, host, file) == [via |-> via, host |-> host, file |-> file]

IPv4 == <<49>>
IPv6 == <<49, 58, 58, 49>>

MCNames ==
    {Name("cli", IPv4, <<99, 58, 93, 58>>), Name("cli", IPv6, <<93, 58>>),
     Name("cli", <<>>, <<107>>), Name("gui", IPv6, <<107>>)}

Samples ==
    {[type |-> "DATA", block |-> n, data |-> <<0, 255>>] : n \in {0, 255, 65535}}
    \cup {[type |-> "ACK", block |-> n] : n \in {1, 256}}
    \cup {[type |-> "ERROR", code |-> n, message |-> <<107>>] : n \in 0..9}
    \cup {[type |-> "RRQ", filename |-> <<107>>, mode |-> Mode,
           options |-> [tsize |-> 0, windowsize |-> 10]]}

\* No opcode of TFTP's, no text, options without a value.
Raw ==
    {<<0, 0>>, <<0, 7>>, <<1, 0>>, <<0, 5, 0, 1, 255, 0>>, <<0, 1, 255, 0, 111, 0>>,
     <<0, 6, 98, 0>>, <<0, 6, 0>>, <<0, 6, 98, 0, 56>>}

MCGarbage == Raw \cup UNION {Prefixes(encode(p)) : p \in Samples}
=============================================================================
