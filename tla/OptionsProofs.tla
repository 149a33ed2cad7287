--------------------------- MODULE OptionsProofs ---------------------------
(***************************************************************************)
(* Lemmas about the option sets that Options builds and reads.             *)
(***************************************************************************)
EXTENDS Options, TLAPS

\* Clamping always yields legal values, whatever a request asked for: the values
\* serve_read and serve_write settle on.
LEMMA GrantedIsLegal ==
    ASSUME NEW o, IsOptionSet(o)
    PROVE  Legal(Granted(o)) /\ Granted(o) \in Negotiations
<1> DEFINE n == apply_oack(defaults, o)
<1>1. /\ defaults.blksize \in 0..(U16 - 1) /\ defaults.timeout \in 0..(U16 - 1)
      /\ defaults.windowsize \in 1..(U16 - 1) /\ defaults.tsize = NoSize
  BY OptionsAssumption DEF defaults
<1>2. ASSUME NEW name, NEW before \in 0..(U16 - 1)
      PROVE  U16Option(o, name, before) \in 0..(U16 - 1)
  BY OptionsAssumption DEF U16Option, IsOptionSet
<1>3. /\ n.blksize \in 0..(U16 - 1) /\ n.timeout \in 0..(U16 - 1)
      /\ n.windowsize \in 0..(U16 - 1) /\ n.tsize \in Nat \cup {NoSize}
  <2>1. /\ n.blksize = U16Option(o, "blksize", defaults.blksize)
        /\ n.timeout = U16Option(o, "timeout", defaults.timeout)
        /\ n.windowsize = U16Option(o, "windowsize", defaults.windowsize)
    BY DEF apply_oack
  <2>2. n.tsize \in Nat \cup {NoSize}
    BY <1>1 DEF apply_oack, IsOptionSet
  <2> QED BY <1>1, <1>2, <2>1, <2>2, OptionsAssumption
<1> HIDE DEF n
<1>4. Granted(o) = clamp_negotiation(n)
  BY DEF Granted, n
<1> QED
  BY <1>3, <1>4, OptionsAssumption DEF clamp_negotiation, Legal, Negotiations

\* A request carries the three configured values, and a WRQ the file length.
LEMMA RequestCarriesConfig ==
    ASSUME NEW c, NEW size \in Nat \cup {NoSize},
           c.blksize \in Nat, c.timeout \in Nat, c.windowsize \in Nat
    PROVE  LET r == RequestOptions(c, size)
           IN  /\ IsOptionSet(r)
               /\ {"blksize", "timeout", "windowsize"} \subseteq DOMAIN r
               /\ r["blksize"] = c.blksize
               /\ r["timeout"] = c.timeout
               /\ r["windowsize"] = c.windowsize
               /\ size = NoSize =>
                      r \in [{"blksize", "timeout", "windowsize"} -> Nat]
               /\ size # NoSize => r \in [OptionNames -> Nat]
<1> DEFINE r == RequestOptions(c, size)
           names == {"blksize", "timeout", "windowsize"}
<1>3. DOMAIN r = names \cup (IF size = NoSize THEN {} ELSE {"tsize"})
  BY DEF RequestOptions
<1>4. \A name \in DOMAIN r : r[name] = IF name = "tsize" THEN size ELSE c[name]
  BY DEF RequestOptions
<1>5. r = [name \in DOMAIN r |-> r[name]]
  BY DEF RequestOptions
<1> HIDE DEF r
<1>6. \A name \in DOMAIN r : r[name] \in Nat
  <2> TAKE name \in DOMAIN r
  <2>1. CASE name = "tsize"
    BY <1>3, <1>4, <2>1
  <2>2. CASE name # "tsize"
    BY <1>3, <1>4, <2>2
  <2> QED BY <2>1, <2>2
<1> QED
  BY <1>3, <1>4, <1>5, <1>6 DEF IsOptionSet, OptionNames, r

\* The OACK carries the settled block size and time-out, and the settled
\* windowsize when that is above one.
LEMMA OackCarriesSettled ==
    ASSUME NEW n \in Negotiations, NEW size \in Nat \cup {NoSize}
    PROVE  LET o == OackOptions(n, size)
           IN  /\ IsOptionSet(o)
               /\ {"blksize", "timeout"} \subseteq DOMAIN o
               /\ o["blksize"] = n.blksize /\ o["timeout"] = n.timeout
               /\ "windowsize" \in DOMAIN o <=> n.windowsize > 1
               /\ n.windowsize > 1 => o["windowsize"] = n.windowsize
               /\ size # NoSize =>
                      o \in [{"blksize", "timeout", "tsize"} -> Nat]
                                \cup [OptionNames -> Nat]
               /\ size = NoSize =>
                      o \in [{"blksize", "timeout"} -> Nat]
                                \cup [{"blksize", "timeout", "windowsize"} -> Nat]
<1> DEFINE o == OackOptions(n, size)
<1>1. DOMAIN o = {"blksize", "timeout"}
                   \cup (IF n.windowsize > 1 THEN {"windowsize"} ELSE {})
                   \cup (IF size = NoSize THEN {} ELSE {"tsize"})
  BY DEF OackOptions
<1>2. \A name \in DOMAIN o :
          o[name] = CASE name = "blksize" -> n.blksize
                      [] name = "timeout" -> n.timeout
                      [] name = "windowsize" -> n.windowsize
                      [] name = "tsize" -> size
  BY DEF OackOptions
<1>3. o = [name \in DOMAIN o |-> o[name]]
  BY DEF OackOptions
<1> HIDE DEF o
<1>4. n.blksize \in Nat /\ n.timeout \in Nat /\ n.windowsize \in Nat
  BY DEF Negotiations
<1>5. /\ o["blksize"] = n.blksize /\ o["timeout"] = n.timeout
      /\ "windowsize" \in DOMAIN o => o["windowsize"] = n.windowsize
      /\ "tsize" \in DOMAIN o => o["tsize"] = size /\ size \in Nat
  BY <1>1, <1>2
<1>6. \A name \in DOMAIN o : o[name] \in Nat
  BY <1>1, <1>4, <1>5
<1> QED
  BY <1>1, <1>3, <1>5, <1>6 DEF IsOptionSet, OptionNames, o

LEMMA AdoptedIsNatural ==
    ASSUME NEW n, NEW o, IsOptionSet(o),
           n.blksize \in Nat, n.timeout \in Nat, n.windowsize \in Nat
    PROVE  LET a == apply_oack(n, o)
           IN  a.blksize \in Nat /\ a.timeout \in Nat /\ a.windowsize \in Nat
<1>1. ASSUME NEW name, NEW before \in Nat
      PROVE  U16Option(o, name, before) \in Nat
  BY DEF U16Option, IsOptionSet
<1> QED BY <1>1 DEF apply_oack

\* Once the client has applied the OACK made for its request, both ends work with
\* the same values, save for a client's windowsize of zero.
LEMMA AdoptedAgrees ==
    ASSUME NEW c, NEW reqSize \in Nat \cup {NoSize}, NEW size \in Nat \cup {NoSize},
           c.blksize \in 0..(U16 - 1), c.timeout \in 0..(U16 - 1),
           c.windowsize \in 0..(U16 - 1)
    PROVE  LET n == Granted(RequestOptions(c, reqSize))
               a == apply_oack(InitialNegotiation(c), OackOptions(n, size))
           IN  /\ a.blksize = n.blksize
               /\ a.timeout = n.timeout
               /\ \/ a.windowsize = n.windowsize
                  \/ a.windowsize = 0 /\ n.windowsize = 1
<1> DEFINE r == RequestOptions(c, reqSize)
           n == Granted(r)
           o == OackOptions(n, size)
           a == apply_oack(InitialNegotiation(c), o)
<1>1. /\ IsOptionSet(r) /\ "windowsize" \in DOMAIN r
      /\ r["windowsize"] = c.windowsize
  BY RequestCarriesConfig, OptionsAssumption
<1>2. n.windowsize = IF c.windowsize = 0 THEN DefaultWindow ELSE c.windowsize
  <2>1. apply_oack(defaults, r).windowsize = c.windowsize
    BY <1>1, OptionsAssumption DEF apply_oack, U16Option
  <2> QED BY <2>1 DEF Granted, clamp_negotiation
<1>3. n \in Negotiations /\ Legal(n)
  BY <1>1, GrantedIsLegal
<1> HIDE DEF r, n
<1>4. /\ {"blksize", "timeout"} \subseteq DOMAIN o
      /\ o["blksize"] = n.blksize /\ o["timeout"] = n.timeout
      /\ "windowsize" \in DOMAIN o <=> n.windowsize > 1
      /\ n.windowsize > 1 => o["windowsize"] = n.windowsize
  BY <1>3, OackCarriesSettled
<1>5. /\ n.blksize < U16 /\ n.timeout < U16 /\ n.windowsize \in 1..(U16 - 1)
  BY <1>3, OptionsAssumption DEF Legal
<1>6. /\ a.blksize = U16Option(o, "blksize", c.blksize)
      /\ a.timeout = U16Option(o, "timeout", c.timeout)
      /\ a.windowsize = U16Option(o, "windowsize", c.windowsize)
  BY DEF apply_oack, InitialNegotiation
<1> HIDE DEF o, a
<1>7. a.blksize = n.blksize /\ a.timeout = n.timeout
  BY <1>4, <1>5, <1>6 DEF U16Option
<1>8. a.windowsize = IF n.windowsize > 1 THEN n.windowsize ELSE c.windowsize
  <2>1. CASE n.windowsize > 1
    BY <1>4, <1>5, <1>6, <2>1, OptionsAssumption DEF U16Option
  <2>2. CASE ~(n.windowsize > 1)
    BY <1>4, <1>6, <2>2 DEF U16Option
  <2> QED BY <2>1, <2>2
<1>9. a.windowsize = n.windowsize \/ (a.windowsize = 0 /\ n.windowsize = 1)
  BY <1>2, <1>5, <1>8, OptionsAssumption
<1> QED BY <1>7, <1>9 DEF a, o, n, r
=============================================================================
