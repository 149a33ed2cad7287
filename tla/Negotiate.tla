----------------------------- MODULE Negotiate -----------------------------
(***************************************************************************)
(* One option negotiation end to end: the client of `get` or `put` sends   *)
(* its configuration, the server settles on values and answers with an     *)
(* OACK, the client adopts the answer.  The server may be last-tftp's own  *)
(* or any other: a foreign server answers with any OACK whose values are   *)
(* legal, leaving out what it does not understand.                         *)
(***************************************************************************)
EXTENDS Options, FiniteSets

CONSTANTS
    Configs,       \* client configurations: blksize, timeout, windowsize
    FileSizes,     \* lengths a file may have
    ForeignOacks   \* OACKs of servers other than last-tftp's

ASSUME NegotiateAssumption ==
    /\ Configs \subseteq [blksize : 0..(U16 - 1), timeout : 0..(U16 - 1),
                          windowsize : 0..(U16 - 1)]
    /\ FileSizes \subseteq Nat
    /\ \A o \in ForeignOacks : IsOptionSet(o)

VARIABLES
    cfg,      \* the ClientConfig
    kind,     \* "get" or "put"
    stage,    \* how far the exchange has come
    request,  \* the options of the RRQ or WRQ
    granted,  \* what the server works with
    oack,     \* the options of the OACK
    adopted   \* what the client works with

vars == <<cfg, kind, stage, request, granted, oack, adopted>>

NoOptions == [name \in {} |-> 0]

TypeOK ==
    /\ cfg \in Configs
    /\ kind \in {"get", "put"}
    /\ stage \in {"start", "requested", "answered", "foreign", "done", "blind"}
    /\ IsOptionSet(request) /\ IsOptionSet(oack)
    /\ granted \in Negotiations /\ adopted \in Negotiations

Init ==
    /\ cfg \in Configs
    /\ kind \in {"get", "put"}
    /\ stage = "start"
    /\ request = NoOptions /\ oack = NoOptions
    /\ granted = defaults
    /\ adopted = InitialNegotiation(cfg)

\* client.rs: the request carries the configuration, a WRQ also the file size.
Request(size) ==
    /\ stage = "start"
    /\ stage' = "requested"
    /\ request' = RequestOptions(cfg, IF kind = "put" THEN size ELSE NoSize)
    /\ UNCHANGED <<cfg, kind, granted, oack, adopted>>

\* server.rs: settle, and answer; only serve_read adds the file length.
Answer(size) ==
    /\ stage = "requested"
    /\ stage' = "answered"
    /\ granted' = Granted(request)
    /\ oack' = OackOptions(granted', IF kind = "get" THEN size ELSE NoSize)
    /\ UNCHANGED <<cfg, kind, request, adopted>>

\* A foreign server's OACK; it works with its answer, and where it answered
\* nothing with the protocol's defaults.
ForeignAnswer(o) ==
    /\ stage = "requested"
    /\ stage' = "foreign"
    /\ oack' = o
    /\ granted' = apply_oack(defaults, o)
    /\ UNCHANGED <<cfg, kind, request, adopted>>

\* client.rs: initial_neg.apply_oack(&options).
Adopt ==
    /\ stage \in {"answered", "foreign"}
    /\ stage' = IF stage = "answered" THEN "done" ELSE "blind"
    /\ adopted' = apply_oack(InitialNegotiation(cfg), oack)
    /\ UNCHANGED <<cfg, kind, request, granted, oack>>

Next ==
    \/ \E size \in FileSizes : Request(size) \/ Answer(size)
    \/ \E o \in ForeignOacks : ForeignAnswer(o)
    \/ Adopt

Spec == Init /\ [][Next]_vars

-----------------------------------------------------------------------------
\* Whatever a client is configured with, last-tftp's server works with legal
\* values: serve_read and serve_write divide by blksize and windowsize.
GrantedLegal == stage \in {"answered", "done"} => Legal(granted)

\* After the OACK of last-tftp's server both ends work with the same block size
\* and time-out.  The OACK leaves windowsize out when it is one, so a client
\* configured with zero keeps zero: both ends still acknowledge every block.
EndsAgree ==
    stage = "done" =>
        /\ adopted.blksize = granted.blksize
        /\ adopted.timeout = granted.timeout
        /\ \/ adopted.windowsize = granted.windowsize
           \/ adopted.windowsize = 0 /\ granted.windowsize = 1

\* The strict reading of a request (validate_request) and the lenient one that the
\* server uses (clamp_negotiation) have the same idea of what is legal: the strict
\* one rejects a request if and only if the lenient one works with another value
\* than one that was asked for, and where it accepts, both settle on the same.
StrictAndLenientAgree ==
    stage \in {"answered", "done"} =>
        /\ RequestRejected(request) <=> granted # apply_oack(defaults, request)
        /\ ~RequestRejected(request) => granted = validate_request(request)
=============================================================================
