-------------------------- MODULE NegotiateProofs --------------------------
(***************************************************************************)
(* Proofs about option negotiation, for every configuration, every file    *)
(* length and every value of the crate's constants that satisfies          *)
(* OptionsAssumption.                                                      *)
(***************************************************************************)
EXTENDS Negotiate, OptionsProofs

\* A configuration that NegotiateAssumption admits.
LEMMA ConfigIsNatural ==
    ASSUME NEW c \in Configs
    PROVE  /\ c.blksize \in 0..(U16 - 1) /\ c.timeout \in 0..(U16 - 1)
           /\ c.windowsize \in 0..(U16 - 1)
           /\ c.blksize \in Nat /\ c.timeout \in Nat /\ c.windowsize \in Nat
BY NegotiateAssumption, OptionsAssumption

-----------------------------------------------------------------------------
\* What both properties follow from: the request stands for the configuration,
\* the settled values are legal, and the OACK is the one made from them.
Agreement ==
    /\ cfg \in Configs
    /\ stage \in {"start", "requested", "answered", "foreign", "done", "blind"}
    /\ stage \in {"requested", "answered", "done"} =>
           /\ IsOptionSet(request)
           /\ \E size \in Nat \cup {NoSize} : request = RequestOptions(cfg, size)
    /\ stage \in {"answered", "done"} =>
           /\ granted = Granted(request)
           /\ \E size \in Nat \cup {NoSize} : oack = OackOptions(granted, size)
    /\ stage = "done" => adopted = apply_oack(InitialNegotiation(cfg), oack)

LEMMA AgreementInit == Init => Agreement
BY DEF Init, Agreement

LEMMA AgreementNext == Agreement /\ [Next]_vars => Agreement'
<1> SUFFICES ASSUME Agreement, [Next]_vars
             PROVE  Agreement'
  OBVIOUS
<1>1. ASSUME NEW size \in FileSizes, Request(size)
      PROVE  Agreement'
  <2>1. request' = RequestOptions(cfg, IF kind = "put" THEN size ELSE NoSize)
    BY <1>1 DEF Request
  <2>2. size \in Nat \cup {NoSize} /\ NoSize \in Nat \cup {NoSize}
    BY NegotiateAssumption
  <2>3. IsOptionSet(request')
    BY <2>1, <2>2, ConfigIsNatural, RequestCarriesConfig DEF Agreement
  <2>4. \E sz \in Nat \cup {NoSize} : request' = RequestOptions(cfg, sz)
    BY <2>1, <2>2
  <2> QED BY <1>1, <2>3, <2>4 DEF Request, Agreement
<1>2. ASSUME NEW size \in FileSizes, Answer(size)
      PROVE  Agreement'
  <2>1. \E sz \in Nat \cup {NoSize} : oack' = OackOptions(granted', sz)
    BY <1>2, NegotiateAssumption DEF Answer
  <2> QED BY <1>2, <2>1 DEF Answer, Agreement
<1>3. ASSUME NEW o \in ForeignOacks, ForeignAnswer(o)
      PROVE  Agreement'
  BY <1>3 DEF ForeignAnswer, Agreement
<1>4. CASE Adopt
  BY <1>4 DEF Adopt, Agreement
<1>5. CASE UNCHANGED vars
  BY <1>5 DEF vars, Agreement
<1> QED BY <1>1, <1>2, <1>3, <1>4, <1>5 DEF Next

LEMMA AgreementHolds == Spec => []Agreement
BY AgreementInit, AgreementNext, PTL DEF Spec

\* serve_read and serve_write always work with a legal block size, time-out and
\* windowsize.
THEOREM NegotiationIsLegal == Spec => []GrantedLegal
<1>1. Agreement => GrantedLegal
  BY GrantedIsLegal DEF Agreement, GrantedLegal
<1> QED BY <1>1, AgreementHolds, PTL

\* Client and server work with the same block size and time-out, and with the
\* same windowsize save for the client's zero.
THEOREM NegotiationAgrees == Spec => []EndsAgree
<1>1. Agreement => EndsAgree
  <2> SUFFICES ASSUME Agreement, stage = "done"
               PROVE  EndsAgree
    BY DEF EndsAgree
  <2>1. PICK reqSize \in Nat \cup {NoSize} : request = RequestOptions(cfg, reqSize)
    BY DEF Agreement
  <2>2. PICK size \in Nat \cup {NoSize} : oack = OackOptions(granted, size)
    BY DEF Agreement
  <2>3. /\ granted = Granted(request)
        /\ adopted = apply_oack(InitialNegotiation(cfg), oack)
    BY DEF Agreement
  <2>4. /\ cfg.blksize \in 0..(U16 - 1) /\ cfg.timeout \in 0..(U16 - 1)
        /\ cfg.windowsize \in 0..(U16 - 1)
    BY ConfigIsNatural DEF Agreement
  <2> QED BY <2>1, <2>2, <2>3, <2>4, AdoptedAgrees DEF EndsAgree
<1> QED BY <1>1, AgreementHolds, PTL

\* The strict reading rejects exactly the requests of which the server's lenient
\* reading changes a value, and settles on the same values for all others,
\* MAX_WINDOW_SIZE being the greatest u16.
THEOREM ReadingsAgree ==
    ASSUME MaxWindow = U16 - 1
    PROVE  Spec => []StrictAndLenientAgree
<1>1. ASSUME NEW o, IsOptionSet(o), ~RequestRejected(o)
      PROVE  Granted(o) = validate_request(o) /\ Granted(o) = apply_oack(defaults, o)
  <2> DEFINE n == apply_oack(defaults, o)
  <2>1. /\ n.blksize = U16Option(o, "blksize", DefaultBlock)
        /\ n.timeout = U16Option(o, "timeout", DefaultTimeout)
        /\ n.windowsize = U16Option(o, "windowsize", DefaultWindow)
    BY DEF apply_oack, defaults
  <2>2. n.blksize \in MinBlock..MaxBlock
    BY <1>1, <2>1, OptionsAssumption DEF U16Option, RequestRejected
  <2>3. n.timeout \in 1..MaxTimeout
    BY <1>1, <2>1, OptionsAssumption DEF U16Option, RequestRejected
  <2>4. n.windowsize \in 1..MaxWindow
    BY <1>1, <2>1, OptionsAssumption
    DEF U16Option, RequestRejected, IsOptionSet
  <2>5. n = [blksize |-> n.blksize, timeout |-> n.timeout,
             windowsize |-> n.windowsize, tsize |-> n.tsize]
    BY DEF apply_oack
  <2> HIDE DEF n
  <2>6. clamp_negotiation(n) = n
    BY <2>2, <2>3, <2>4, <2>5, OptionsAssumption DEF clamp_negotiation
  <2>7. [n EXCEPT !.windowsize = IF @ > MaxWindow THEN MaxWindow ELSE @] = n
    BY <2>4, <2>5, OptionsAssumption
  <2> QED BY <2>6, <2>7 DEF Granted, validate_request, n
<1>2. ASSUME NEW o, IsOptionSet(o), RequestRejected(o)
      PROVE  Granted(o) # apply_oack(defaults, o)
  <2> DEFINE n == apply_oack(defaults, o)
  <2>1. CASE "blksize" \in DOMAIN o /\ o["blksize"] < U16
                /\ o["blksize"] \notin MinBlock..MaxBlock
    <3>1. n.blksize \notin MinBlock..MaxBlock
      BY <2>1 DEF apply_oack, defaults, U16Option
    <3>2. Granted(o).blksize = DefaultBlock
      BY <3>1 DEF Granted, clamp_negotiation
    <3> QED BY <3>1, <3>2, OptionsAssumption
  <2>2. CASE "timeout" \in DOMAIN o /\ o["timeout"] < U16
                /\ o["timeout"] \notin 1..MaxTimeout
    <3>1. n.timeout \notin 1..MaxTimeout
      BY <2>2 DEF apply_oack, defaults, U16Option
    <3>2. Granted(o).timeout = DefaultTimeout
      BY <3>1 DEF Granted, clamp_negotiation
    <3> QED BY <3>1, <3>2, OptionsAssumption
  <2>3. CASE "windowsize" \in DOMAIN o /\ o["windowsize"] < U16 /\ o["windowsize"] = 0
    <3>1. n.windowsize = 0
      BY <2>3 DEF apply_oack, defaults, U16Option
    <3>2. Granted(o).windowsize = DefaultWindow
      BY <3>1 DEF Granted, clamp_negotiation
    <3> QED BY <3>1, <3>2, OptionsAssumption
  <2> QED BY <1>2, <2>1, <2>2, <2>3 DEF RequestRejected
<1>3. Agreement => StrictAndLenientAgree
  BY <1>1, <1>2 DEF Agreement, StrictAndLenientAgree
<1> QED BY <1>3, AgreementHolds, PTL
=============================================================================
