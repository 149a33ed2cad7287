-------------------------------- MODULE Wire --------------------------------
(***************************************************************************)
(* Negotiate with what it leaves out: the HOST:FILE that the user names    *)
(* and parse_target takes apart, and the bytes of the datagrams.  The ends *)
(* see nothing of each other but bytes; a foreign server may spell its     *)
(* answer as it likes, and anyone may send the client anything.            *)
(***************************************************************************)
EXTENDS Negotiate, Codec

CONSTANTS
    Names,     \* what users name: a host and a file, in the GUI or as an argument
    Pads,      \* what a foreign server may write before the digits of a value
    Garbage    \* datagrams that strangers send

ASSUME WireAssumption ==
    /\ Names \subseteq [via : {"cli", "gui"}, host : Seq(1..127), file : Seq(1..127)]
    /\ \A pad \in Pads : IsNumber(pad \o <<48>>) /\ Number(pad \o <<48>>) = 0

VARIABLES
    named,   \* what the user has named
    called,  \* the host that the client sends its request to
    wire,    \* the datagram under way
    sent,    \* the packet it was made from; Malformed if it was not made by encode
    failed   \* the client has returned an error

wireVars == <<vars, named, called, wire, sent, failed>>

WireInit ==
    /\ Init
    /\ named \in Names
    /\ called = <<>> /\ wire = <<>> /\ sent = Malformed /\ failed = FALSE

-----------------------------------------------------------------------------
(* The target *)

Colon == 58
Open == 91
Close == 93
Position(text, byte) == SelectInSeq(text, LAMBDA b : b = byte)

\* gui.rs puts the two together as they are; a user of the command line has to put
\* brackets round an IPv6 address (transfer.rs:72).
Target(n) ==
    IF n.via = "cli" /\ Colon \in Range(n.host)
    THEN <<Open>> \o n.host \o <<Close, Colon>> \o n.file
    ELSE n.host \o <<Colon>> \o n.file

\* Mutant of HostEnd: the last colon counts.
LastColon(text) == SelectLastInSeq(text, LAMBDA b : b = Colon)

\* The place of the colon that ends the host, zero if there is none.
HostEnd(text) ==
    LET close == Position(text, Close)
    IN  IF Head(text) # Open THEN Position(text, Colon)
        ELSE IF close # 0 /\ close < Len(text) /\ text[close + 1] = Colon
             THEN close + 1 ELSE 0

\* The host without its brackets, and the file.
HostOf(text) ==
    IF Head(text) = Open THEN SubSeq(text, 2, HostEnd(text) - 2)
    ELSE SubSeq(text, 1, HostEnd(text) - 1)
FileOf(text) == From(text, HostEnd(text) + 1)
IsTarget(text) == HostEnd(text) # 0 /\ HostOf(text) # <<>>

-----------------------------------------------------------------------------
\* A packet of last-tftp's is put on the wire.
Send(p) == sent' = p /\ wire' = encode(p)

\* `octet`, as far as anyone looks at it.
Mode == <<111>>

WireRequest(size) ==
    LET target == Target(named)
    IN  /\ ~failed /\ IsTarget(target)
        /\ Request(size)
        /\ called' = HostOf(target)
        /\ Send([type |-> IF kind = "get" THEN "RRQ" ELSE "WRQ",
                 filename |-> FileOf(target), mode |-> Mode, options |-> request'])
        /\ UNCHANGED <<named, failed>>

BadTarget ==
    /\ stage = "start" /\ ~failed
    /\ ~IsTarget(Target(named))
    /\ failed' = TRUE
    /\ UNCHANGED <<vars, named, called, wire, sent>>

\* Something came before the answer: nothing else reaches the client.
Disturbed == stage = "requested" /\ sent = Malformed

\* serve, handle_one and the beginning of serve_read and serve_write.
WireAnswer(size) ==
    LET p == parse(wire)
    IN  /\ stage = "requested" /\ ~Disturbed
        /\ p.type \in {"RRQ", "WRQ"}
        /\ stage' = "answered"
        /\ granted' = Granted(p.options)
        /\ oack' = OackOptions(granted', IF p.type = "RRQ" THEN size ELSE NoSize)
        /\ Send([type |-> "OACK", options |-> oack'])
        /\ UNCHANGED <<cfg, kind, request, adopted, named, called, failed>>

\* The options of o in some order, with something before the digits, perhaps after
\* a list of the same options with another value.
ForeignList(o, order, pad) ==
    FlattenSeq([i \in DOMAIN order |->
        put_cstr(NameText[order[i]]) \o put_cstr(pad \o Decimal[o[order[i]]])])

ForeignOack(o) ==
    /\ ~Disturbed /\ ForeignAnswer(o)
    /\ \E order \in SetToSeqs(DOMAIN o), pad \in Pads :
         \E before \in {<<>>, ForeignList([n \in DOMAIN o |-> 9], order, pad)} :
            wire' = PutU16(Opcode("OACK")) \o before \o ForeignList(o, order, pad)
    /\ sent' = Malformed
    /\ UNCHANGED <<named, called, failed>>

\* A server that knows no options begins with its first block, or takes the
\* client's.
Plain == IF kind = "get" THEN [type |-> "DATA", block |-> 1, data |-> <<7>>]
         ELSE [type |-> "ACK", block |-> 0]

ForeignPlain ==
    /\ ~Disturbed /\ ForeignAnswer(NoOptions)
    /\ Send(Plain)
    /\ UNCHANGED <<named, called, failed>>

\* What negotiate_get and negotiate_put go on with.
IsAnswer(p) ==
    \/ p.type = "OACK"
    \/ kind = "get" /\ p.type = "DATA" /\ p.block = 1
    \/ kind = "put" /\ p.type = "ACK" /\ p.block = 0

\* A datagram from anyone, that is no answer, comes before the answer.
Stranger(b) ==
    /\ stage = "requested" /\ ~Disturbed
    /\ ~IsAnswer(parse(b))
    /\ wire' = b /\ sent' = Malformed
    /\ UNCHANGED <<vars, named, called, failed>>

\* The first datagram decides, whoever it comes from.
WireAdopt ==
    LET p == parse(wire)
    IN  /\ stage \in {"answered", "foreign"} /\ IsAnswer(p)
        /\ stage' = IF stage = "answered" THEN "done" ELSE "blind"
        /\ adopted' = IF p.type = "OACK" THEN apply_oack(InitialNegotiation(cfg), p.options)
                      ELSE InitialNegotiation(cfg)
        /\ UNCHANGED <<cfg, kind, request, granted, oack>>
        /\ UNCHANGED <<named, called, wire, sent, failed>>

\* One that does not parse is an error that with_retry does not retry.
GiveUp ==
    /\ Disturbed /\ ~failed
    /\ failed' = TRUE
    /\ UNCHANGED <<vars, named, called, wire, sent>>

WireNext ==
    \/ \E size \in FileSizes : WireRequest(size) \/ WireAnswer(size)
    \/ BadTarget
    \/ \E o \in ForeignOacks : ForeignOack(o)
    \/ ForeignPlain
    \/ \E b \in Garbage : Stranger(b)
    \/ WireAdopt
    \/ GiveUp

WireSpec == WireInit /\ [][WireNext]_wireVars

-----------------------------------------------------------------------------
\* Through the bytes both ends read the values that were written: whatever the order
\* of a foreign server's options, the spelling of its numbers and what it repeats,
\* the exchange is one that Negotiate describes, where options pass as they are.
ImplementsNegotiate == Spec

\* Parsing gives back the packet that was encoded, and whatever anyone sends, what
\* has been parsed can be encoded and parsed again without a change.
ReadsBack ==
    wire # <<>> =>
        LET p == parse(wire)
        IN  /\ sent # Malformed => p = sent
            /\ p # Malformed => parse(encode(p)) = p

\* The server is asked for the file that the user named, on the host that the user
\* named, even if there are colons in them: with one exception, an IPv6 address
\* typed into the GUI, whose first colon ends the host (gui.rs:390).
AsksForTheNamedFile ==
    called # <<>> /\ sent.type \in {"RRQ", "WRQ"} =>
        \/ called = named.host /\ parse(wire).filename = named.file
        \/ named.via = "gui" /\ Colon \in Range(named.host)
=============================================================================
