------------------------------ MODULE Options ------------------------------
(***************************************************************************)
(* Option negotiation (RFC 2347/2348/2349/7440) as last-tftp computes it.  *)
(*                                                                         *)
(* An option set is a function from a subset of OptionNames to numbers:    *)
(* the typed getters of `Options` are the only readers, and they see a     *)
(* value that is not a decimal number, or that does not fit the field's    *)
(* integer type, exactly as they see an absent option.                     *)
(***************************************************************************)
EXTENDS Integers

CONSTANTS
    U16,             \* the size of the value range of a u16: 65536
    MinBlock,        \* the smallest legal blksize: 8
    MaxBlock,        \* MAX_BLOCK_SIZE: 65464
    DefaultBlock,    \* DEFAULT_BLOCK_SIZE: 512
    MaxTimeout,      \* the largest legal timeout: 255
    DefaultTimeout,  \* DEFAULT_TIMEOUT_SECS: 5
    MaxWindow,       \* MAX_WINDOW_SIZE: 65535
    DefaultWindow    \* DEFAULT_WINDOW_SIZE: 1

ASSUME OptionsAssumption ==
    /\ {U16, MinBlock, MaxBlock, DefaultBlock} \subseteq Nat
    /\ {MaxTimeout, DefaultTimeout, MaxWindow, DefaultWindow} \subseteq Nat
    /\ 0 < MinBlock /\ MinBlock <= DefaultBlock /\ DefaultBlock <= MaxBlock
    /\ 0 < DefaultTimeout /\ DefaultTimeout <= MaxTimeout
    /\ 0 < DefaultWindow /\ DefaultWindow <= MaxWindow
    /\ MaxBlock < U16 /\ MaxTimeout < U16 /\ MaxWindow < U16

OptionNames == {"blksize", "timeout", "windowsize", "tsize"}

\* The option sets a packet can carry (names outside OptionNames have no reader).
IsOptionSet(o) == DOMAIN o \subseteq OptionNames /\ o \in [DOMAIN o -> Nat]

\* `tsize: None` of a Negotiation.
NoSize == -1

Negotiations ==
    [blksize : Nat, timeout : Nat, windowsize : Nat, tsize : Nat \cup {NoSize}]

\* Options::blksize, ::timeout, ::windowsize: the u16 option, or what held before.
U16Option(o, name, before) ==
    IF name \in DOMAIN o /\ o[name] < U16 THEN o[name] ELSE before

defaults ==
    [blksize |-> DefaultBlock, timeout |-> DefaultTimeout,
     windowsize |-> DefaultWindow, tsize |-> NoSize]

\* The option values replace those of n: how the client adopts an OACK, and
\* how the server reads a request.
apply_oack(n, o) ==
    [blksize    |-> U16Option(o, "blksize", n.blksize),
     timeout    |-> U16Option(o, "timeout", n.timeout),
     windowsize |-> U16Option(o, "windowsize", n.windowsize),
     tsize      |-> IF "tsize" \in DOMAIN o THEN o["tsize"] ELSE n.tsize]

\* Mutant of clamp_negotiation: a time-out of zero passes.
ClampWithoutZeroTimeout(n) ==
    [blksize    |-> IF n.blksize \in MinBlock..MaxBlock
                    THEN n.blksize ELSE DefaultBlock,
     timeout    |-> IF n.timeout <= MaxTimeout THEN n.timeout ELSE DefaultTimeout,
     windowsize |-> IF n.windowsize = 0 THEN DefaultWindow ELSE n.windowsize,
     tsize      |-> n.tsize]

\* An illegal value falls back to the default rather than to the nearest bound.
clamp_negotiation(n) ==
    [blksize    |-> IF n.blksize \in MinBlock..MaxBlock
                    THEN n.blksize ELSE DefaultBlock,
     timeout    |-> IF n.timeout \in 1..MaxTimeout
                    THEN n.timeout ELSE DefaultTimeout,
     windowsize |-> IF n.windowsize = 0 THEN DefaultWindow ELSE n.windowsize,
     tsize      |-> n.tsize]

\* What serve_read and serve_write settle on for a request.
Granted(o) == clamp_negotiation(apply_oack(defaults, o))

\* Mutant of OackOptions: a block size that is the default goes without saying.
OackWithoutDefaults(n, size) ==
    [name \in {"timeout"}
              \cup (IF n.blksize # DefaultBlock THEN {"blksize"} ELSE {})
              \cup (IF n.windowsize > 1 THEN {"windowsize"} ELSE {}) |-> n[name]]

\* The OACK for a settled negotiation: windowsize only when it is above one,
\* tsize (the file length) only from serve_read.
OackOptions(n, size) ==
    [name \in {"blksize", "timeout"}
              \cup (IF n.windowsize > 1 THEN {"windowsize"} ELSE {})
              \cup (IF size = NoSize THEN {} ELSE {"tsize"}) |->
        CASE name = "blksize" -> n.blksize
          [] name = "timeout" -> n.timeout
          [] name = "windowsize" -> n.windowsize
          [] name = "tsize" -> size]

\* The options of a request: `get` sends no tsize, `put` sends the file length.
RequestOptions(cfg, size) ==
    [name \in {"blksize", "timeout", "windowsize"}
              \cup (IF size = NoSize THEN {} ELSE {"tsize"}) |->
        IF name = "tsize" THEN size ELSE cfg[name]]

\* initial_neg of negotiate_get and negotiate_put.
InitialNegotiation(cfg) ==
    [blksize |-> cfg.blksize, timeout |-> cfg.timeout,
     windowsize |-> cfg.windowsize, tsize |-> NoSize]

\* Mutant of RequestRejected: the upper bound of the range is left out of it.
RejectsGreatestBlock(o) ==
    LET carries(name) == name \in DOMAIN o /\ o[name] < U16
    IN  \/ carries("blksize") /\ o["blksize"] \notin MinBlock..(MaxBlock - 1)
        \/ carries("timeout") /\ o["timeout"] \notin 1..MaxTimeout
        \/ carries("windowsize") /\ o["windowsize"] = 0

\* validate_request, the strict reading of a request: rejected, or settled.
RequestRejected(o) ==
    LET carries(name) == name \in DOMAIN o /\ o[name] < U16
    IN  \/ carries("blksize") /\ o["blksize"] \notin MinBlock..MaxBlock
        \/ carries("timeout") /\ o["timeout"] \notin 1..MaxTimeout
        \/ carries("windowsize") /\ o["windowsize"] = 0

validate_request(o) ==
    LET n == apply_oack(defaults, o)
    IN  [n EXCEPT !.windowsize = IF @ > MaxWindow THEN MaxWindow ELSE @]

\* What the protocol allows the ends to work with.
Legal(n) ==
    /\ n.blksize \in MinBlock..MaxBlock
    /\ n.timeout \in 1..MaxTimeout
    /\ n.windowsize \in 1..(U16 - 1)
=============================================================================
