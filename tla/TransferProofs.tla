--------------------------- MODULE TransferProofs ---------------------------
(***************************************************************************)
(* Lemmas about what every transfer is made of: the queues of Network, the *)
(* files and the writes to them, and the positions of blocks in a file.    *)
(***************************************************************************)
EXTENDS Network, Files, SequenceLemmas

-----------------------------------------------------------------------------
(* Queues.  Whatever the network does, and whatever is received, a queue of  *)
(* packets from a set G stays one.  G may depend on the state, so that an    *)
(* invariant about every datagram under way is the statement that net is in  *)
(* [Ports -> Seq(G)].                                                        *)

\* A network fault delivers nothing that was not sent.
LEMMA FaultKeepsPackets ==
    ASSUME NEW G, net \in [Ports -> Seq(G)], NetworkFault
    PROVE  /\ net' \in [Ports -> Seq(G)]
           /\ UNCHANGED open
           /\ faults' = faults + 1 /\ faults < MaxFaults
<1>0. PICK p \in Ports :
          \E i \in 1..Len(net[p]) : Lose(p, i) \/ Duplicate(p, i) \/ Delay(p, i)
  BY DEF NetworkFault
<1>1. PICK i \in 1..Len(net[p]) : Lose(p, i) \/ Duplicate(p, i) \/ Delay(p, i)
  BY <1>0
<1>2. net[p] \in Seq(G) /\ net[p][i] \in G
  BY ElementOfSeq
<1>3. RemoveAt(net[p], i) \in Seq(G)
  BY <1>2, RemoveAtInSeq
<1>4. CASE Lose(p, i)
  BY <1>3, <1>4 DEF Lose, Fault
<1>5. CASE Duplicate(p, i)
  BY <1>2, <1>5, AppendProperties DEF Duplicate, Fault
<1>6. CASE Delay(p, i)
  BY <1>2, <1>3, <1>6, AppendProperties DEF Delay, Fault
<1> QED BY <1>1, <1>4, <1>5, <1>6

LEMMA SentKeepsPackets ==
    ASSUME NEW G, NEW q \in [Ports -> Seq(G)], NEW p \in Ports, NEW m \in G
    PROVE  Sent(q, p, m) \in [Ports -> Seq(G)]
<1>1. Append(q[p], m) \in Seq(G)
  BY AppendProperties
<1> QED BY <1>1 DEF Sent

LEMMA ReceivedKeepsPackets ==
    ASSUME NEW G, NEW q \in [Ports -> Seq(G)], NEW p \in Ports, q[p] # <<>>
    PROVE  Received(q, p) \in [Ports -> Seq(G)] /\ Head(q[p]) \in G
<1>1. Head(q[p]) \in G /\ Tail(q[p]) \in Seq(G)
  BY HeadTailProperties
<1> QED BY <1>1 DEF Received

LEMMA ClosedKeepsPackets ==
    ASSUME NEW G, NEW q \in [Ports -> Seq(G)], NEW p \in Ports
    PROVE  Closed(q, p) \in [Ports -> Seq(G)]
<1>1. <<>> \in Seq(G)
  OBVIOUS
<1> QED BY <1>1 DEF Closed

\* A packet that was good stays good when the set only grows.
LEMMA QueuesMonotonic ==
    ASSUME NEW G, NEW H, G \subseteq H, NEW q \in [Ports -> Seq(G)]
    PROVE  q \in [Ports -> Seq(H)]
<1>1. \A p \in Ports : q[p] \in Seq(H)
  BY SeqMonotonic
<1> QED BY <1>1

LEMMA PortsAreDistinct ==
    /\ Sessions \subseteq Ports /\ ListenPort \in Ports /\ ClientPort \in Ports
    /\ ListenPort \notin Sessions /\ ClientPort \notin Sessions
    /\ ListenPort # ClientPort
BY NetworkAssumption DEF Sessions, Ports, ListenPort, ClientPort

\* Where net is.  As a name of its own it is easier for the provers to match.
Queues(G) == [Ports -> Seq(G)]

\* What is sent joins what is under way, and disturbs none of it.
LEMMA SentQueue ==
    ASSUME NEW G, NEW q \in Queues(G), NEW p \in Ports, NEW m \in G, p \in open
    PROVE  /\ Sent(q, p, m)[p] = Append(q[p], m)
           /\ \A t \in Ports : t # p => Sent(q, p, m)[t] = q[t]
BY DEF Queues, Sent

LEMMA SentKeepsMembers ==
    ASSUME NEW G, NEW q \in Queues(G), NEW p \in Ports, NEW m \in G, NEW t \in Ports
    PROVE  ToSet(q[t]) \subseteq ToSet(Sent(q, p, m)[t])
<1>1. CASE p \notin open
  BY <1>1 DEF Sent
<1>2. CASE p \in open
  <2>1. q[p] \in Seq(G)
    BY DEF Queues
  <2>2. ToSet(Append(q[p], m)) = ToSet(q[p]) \cup {m}
    BY <2>1, MembersAppended
  <2>3. /\ Sent(q, p, m)[p] = Append(q[p], m)
        /\ t # p => Sent(q, p, m)[t] = q[t]
    BY <1>2, SentQueue
  <2> QED BY <2>2, <2>3
<1> QED BY <1>1, <1>2

LEMMA SentIsMember ==
    ASSUME NEW G, NEW q \in Queues(G), NEW p \in Ports, NEW m \in G, p \in open
    PROVE  m \in ToSet(Sent(q, p, m)[p])
<1>1. q[p] \in Seq(G)
  BY DEF Queues
<1>2. m \in ToSet(Append(q[p], m))
  BY <1>1, MembersAppended
<1>3. Sent(q, p, m)[p] = Append(q[p], m)
  BY SentQueue
<1> QED BY <1>2, <1>3

\* A network that loses nothing delivers all that was sent.
LEMMA FaultMembers ==
    ASSUME NEW G, net \in Queues(G), "lose" \notin FaultKinds, NetworkFault
    PROVE  \A t \in Ports : ToSet(net'[t]) = ToSet(net[t])
<1>1. PICK p \in Ports : \E i \in 1..Len(net[p]) : Duplicate(p, i) \/ Delay(p, i)
  BY DEF NetworkFault, Lose, Fault
<1>2. PICK i \in 1..Len(net[p]) : Duplicate(p, i) \/ Delay(p, i)
  BY <1>1
<1>3. net \in [Ports -> Seq(G)]
  BY DEF Queues
<1> DEFINE q == net[p]
           m == net[p][i]
           r == RemoveAt(q, i)
<1>4. q \in Seq(G) /\ m \in G
  BY <1>3, ElementOfSeq
<1>5. r \in Seq(G) /\ ToSet(q) = ToSet(r) \cup {m}
  BY <1>4, RemoveAtIndices, MembersRemoved
<1>6. ToSet(Append(q, m)) = ToSet(q) /\ ToSet(Append(r, m)) = ToSet(q)
  BY <1>4, <1>5, MembersAppended
<1>7. net' = [net EXCEPT ![p] = Append(q, m)] \/ net' = [net EXCEPT ![p] = Append(r, m)]
  BY <1>2 DEF Duplicate, Delay
<1> HIDE DEF q, m, r
<1> QED BY <1>3, <1>6, <1>7 DEF q

-----------------------------------------------------------------------------
(* Files *)

\* A write makes a file of a file, as long as it has to be.
LEMMA WrittenIsFile ==
    ASSUME NEW f \in Seq(Nat), NEW pos \in Nat, NEW off \in Nat, NEW n \in Nat
    PROVE  Written(f, pos, off, n) \in Seq(Nat)
<1>1. CASE n = 0
  BY <1>1 DEF Written
<1>2. CASE n # 0
  <2> DEFINE len == Greater(Len(f), pos + n)
             byte(i) == IF i > pos /\ i <= pos + n THEN off + (i - pos)
                        ELSE IF i <= Len(f) THEN f[i] ELSE 0
  <2>1. len \in Nat
    BY DEF Greater
  <2>2. \A i \in 1..len : byte(i) \in Nat
    <3> TAKE i \in 1..len
    <3>1. CASE i > pos /\ i <= pos + n
      BY <2>1, <3>1
    <3>2. CASE ~(i > pos /\ i <= pos + n) /\ i <= Len(f)
      BY <2>1, <3>2, ElementOfSeq
    <3> QED BY <3>1, <3>2
  <2>3. Written(f, pos, off, n) = [i \in 1..len |-> byte(i)]
    BY <1>2 DEF Written
  <2> HIDE DEF len, byte
  <2> QED BY <2>1, <2>2, <2>3, IsASeq
<1> QED BY <1>1, <1>2

LEMMA SourceIsFile ==
    ASSUME NEW n \in Nat
    PROVE  SourceFile(n) \in Seq(Nat) /\ Len(SourceFile(n)) = n
BY IsASeq DEF SourceFile

LEMMA OldIsFile ==
    ASSUME NEW n \in Nat
    PROVE  OldFile(n) \in Seq(Nat) /\ Len(OldFile(n)) = n
BY IsASeq DEF OldFile

\* A file of bytes where they belong and holes stays one when bytes that belong
\* there are written.
LEMMA WrittenStaysPlaced ==
    ASSUME NEW f \in Seq(Nat), NEW len \in Nat, NEW pos \in Nat, NEW n \in Nat,
           pos + n <= len, Len(f) <= len, \A i \in 1..Len(f) : f[i] \in {i, 0}
    PROVE  LET g == Written(f, pos, pos, n)
           IN  Len(g) <= len /\ \A i \in 1..Len(g) : g[i] \in {i, 0}
<1>1. CASE n = 0
  BY <1>1 DEF Written
<1>2. CASE n # 0
  <2> DEFINE size == Greater(Len(f), pos + n)
             g == Written(f, pos, pos, n)
  <2>1. size \in Nat /\ size <= len
    BY DEF Greater
  <2>2. g = [i \in 1..size |->
                IF i > pos /\ i <= pos + n THEN pos + (i - pos)
                ELSE IF i <= Len(f) THEN f[i] ELSE 0]
    BY <1>2 DEF Written
  <2> HIDE DEF size, g
  <2>3. Len(g) = size
    BY <2>1, <2>2
  <2>4. ASSUME NEW i \in 1..size PROVE g[i] \in {i, 0}
    <3>1. CASE i > pos /\ i <= pos + n
      BY <2>1, <2>2, <3>1
    <3>2. CASE ~(i > pos /\ i <= pos + n) /\ i <= Len(f)
      BY <2>1, <2>2, <3>2
    <3>3. CASE ~(i > pos /\ i <= pos + n) /\ ~(i <= Len(f))
      BY <2>1, <2>2, <3>3
    <3> QED BY <3>1, <3>2, <3>3
  <2> QED BY <2>1, <2>3, <2>4 DEF g
<1> QED BY <1>1, <1>2

\* The bytes that follow the first pos ones, written at pos behind those, make
\* the longer beginning of the file.
LEMMA WrittenExtends ==
    ASSUME NEW pos \in Nat, NEW n \in Nat
    PROVE  Written(SourceFile(pos), pos, pos, n) = SourceFile(pos + n)
<1>1. CASE n = 0
  BY <1>1 DEF Written
<1>2. CASE n # 0
  <2>1. Len(SourceFile(pos)) = pos
    BY SourceIsFile
  <2>2. Greater(pos, pos + n) = pos + n
    BY DEF Greater
  <2>3. \A i \in 1..(pos + n) :
            (IF i > pos /\ i <= pos + n THEN pos + (i - pos)
             ELSE IF i <= pos THEN SourceFile(pos)[i] ELSE 0) = i
    BY DEF SourceFile
  <2> QED BY <1>2, <2>1, <2>2, <2>3 DEF Written, SourceFile
<1> QED BY <1>1, <1>2

\* The beginnings of a file, the longer and the shorter.
LEMMA SourcePrefix ==
    ASSUME NEW d \in Nat, NEW e \in Nat, d <= e
    PROVE  IsPrefix(SourceFile(d), SourceFile(e))
<1>1. Len(SourceFile(d)) = d /\ Len(SourceFile(e)) = e
  BY SourceIsFile
<1>2. \A n \in Nat : \A i \in 1..n : SourceFile(n)[i] = i
  BY DEF SourceFile
<1>3. \A n \in Nat : d <= n => SubSeq(SourceFile(n), 1, d) = SourceFile(d)
  <2> SUFFICES ASSUME NEW n \in Nat, d <= n
               PROVE  SubSeq(SourceFile(n), 1, d) = SourceFile(d)
    OBVIOUS
  <2>1. \A i \in 1..d : SourceFile(n)[i] = i /\ SourceFile(n)[i] \in Nat
    BY <1>2
  <2>2. SubSeq(SourceFile(n), 1, d) = [i \in 1..d |-> SourceFile(n)[i]]
    BY DEF SourceFile
  <2> QED BY <2>1, <2>2 DEF SourceFile
<1> QED BY <1>1, <1>3 DEF IsPrefix

\* The bytes of a file behind the first d ones, up to the first e ones.
Segment(d, e) == [i \in 1..(e - d) |-> d + i]

LEMMA SegmentIsFile ==
    ASSUME NEW d \in Nat, NEW e \in Nat, d <= e
    PROVE  /\ Segment(d, e) \in Seq(Nat) /\ Len(Segment(d, e)) = e - d
           /\ \A i \in 1..(e - d) : Segment(d, e)[i] = d + i
           /\ Segment(d, e) = <<>> <=> d = e
<1>1. e - d \in Nat
  OBVIOUS
<1>2. \A i \in 1..(e - d) : d + i \in Nat
  BY <1>1
<1>3. Segment(d, e) \in Seq(Nat) /\ Len(Segment(d, e)) = e - d
  BY <1>1, <1>2 DEF Segment
<1>4. \A i \in 1..(e - d) : Segment(d, e)[i] = d + i
  BY DEF Segment
<1>5. Segment(d, e) = <<>> <=> Len(Segment(d, e)) = 0
  BY <1>3, EmptySeq
<1> QED BY <1>1, <1>3, <1>4, <1>5

\* A segment is what its name says, and goes where it came from.
LEMMA SegmentOfFile ==
    ASSUME NEW d \in Nat, NEW e \in Nat, d <= e
    PROVE  /\ \A n \in Nat : e <= n => SubSeq(SourceFile(n), d + 1, e) = Segment(d, e)
           /\ SourceFile(d) \o Segment(d, e) = SourceFile(e)
<1>1. \A n \in Nat : /\ SourceFile(n) \in Seq(Nat) /\ Len(SourceFile(n)) = n
                     /\ \A i \in 1..n : SourceFile(n)[i] = i
  BY SourceIsFile DEF SourceFile
<1>2. /\ Segment(d, e) \in Seq(Nat) /\ Len(Segment(d, e)) = e - d
      /\ \A i \in 1..(e - d) : Segment(d, e)[i] = d + i
  BY SegmentIsFile
<1>3. ASSUME NEW n \in Nat, e <= n
      PROVE  SubSeq(SourceFile(n), d + 1, e) = Segment(d, e)
  <2> DEFINE t == SubSeq(SourceFile(n), d + 1, e)
  <2>1. \A i \in (d + 1)..e : SourceFile(n)[i] \in Nat /\ SourceFile(n)[i] = i
    BY <1>1, <1>3
  <2>2. d + 1 \in Int /\ e \in Int
    OBVIOUS
  <2>3. /\ t \in Seq(Nat) /\ Len(t) = (IF d + 1 <= e THEN e - (d + 1) + 1 ELSE 0)
        /\ \A i \in 1..(e - (d + 1) + 1) : t[i] = SourceFile(n)[(d + 1) + i - 1]
    BY <2>1, <2>2, SubSeqProperties
  <2> HIDE DEF t
  <2>4. Len(t) = e - d
    BY <2>3
  <2>5. ASSUME NEW i \in 1..(e - d) PROVE t[i] = d + i
    <3>1. i \in 1..(e - (d + 1) + 1) /\ (d + 1) + i - 1 = d + i /\ d + i \in (d + 1)..e
      OBVIOUS
    <3> QED BY <2>1, <2>3, <3>1
  <2>6. t = Segment(d, e)
    BY <1>2, <2>3, <2>4, <2>5, SeqEqual
  <2> QED BY <2>6 DEF t
<1>4. SourceFile(d) \o Segment(d, e) = SourceFile(e)
  <2> DEFINE x == SourceFile(d)
             y == Segment(d, e)
             t == x \o y
  <2>1. x \in Seq(Nat) /\ Len(x) = d /\ \A i \in 1..d : x[i] = i
    BY <1>1
  <2>2. y \in Seq(Nat) /\ Len(y) = e - d /\ \A i \in 1..(e - d) : y[i] = d + i
    BY <1>2
  <2> HIDE DEF x, y
  <2>3. /\ t \in Seq(Nat) /\ Len(t) = Len(x) + Len(y)
        /\ \A i \in 1..Len(x) + Len(y) : t[i] = IF i <= Len(x) THEN x[i] ELSE y[i - Len(x)]
    BY <2>1, <2>2, ConcatProperties
  <2> HIDE DEF t
  <2>4. Len(x) + Len(y) = e
    BY <2>1, <2>2
  <2>5. ASSUME NEW i \in 1..e PROVE t[i] = i
    <3>1. t[i] = IF i <= d THEN x[i] ELSE y[i - d]
      BY <2>1, <2>3, <2>4
    <3>2. CASE i <= d
      BY <2>1, <3>1, <3>2
    <3>3. CASE ~(i <= d)
      <4>1. i - d \in 1..(e - d) /\ d + (i - d) = i
        BY <3>3
      <4> QED BY <2>2, <3>1, <3>3, <4>1
    <3> QED BY <3>2, <3>3
  <2>6. t = SourceFile(e)
    BY <1>1, <2>3, <2>4, <2>5, SeqEqual
  <2> QED BY <2>6 DEF t, x, y
<1> QED BY <1>3, <1>4

\* A segment splits into two.
LEMMA SegmentSplits ==
    ASSUME NEW d \in Nat, NEW e \in Nat, NEW n \in Nat, d + n <= e
    PROVE  /\ SubSeq(Segment(d, e), 1, n) = Segment(d, d + n)
           /\ SubSeq(Segment(d, e), n + 1, e - d) = Segment(d + n, e)
<1> DEFINE s == Segment(d, e)
<1>0. d + n \in Nat /\ d <= d + n /\ d <= e
  OBVIOUS
<1>1. /\ s \in Seq(Nat) /\ Len(s) = e - d
      /\ \A i \in 1..(e - d) : s[i] = d + i /\ s[i] \in Nat
  <2>1. /\ s \in Seq(Nat) /\ Len(s) = e - d
        /\ \A i \in 1..(e - d) : s[i] = d + i
    BY <1>0, SegmentIsFile
  <2> QED BY <2>1
<1> DEFINE c == d + n
<1>2. /\ Segment(d, c) \in Seq(Nat) /\ Len(Segment(d, c)) = c - d
      /\ \A i \in 1..(c - d) : Segment(d, c)[i] = d + i
  <2> HIDE DEF c
  <2> QED BY <1>0, SegmentIsFile DEF c
<1>3. /\ Segment(c, e) \in Seq(Nat) /\ Len(Segment(c, e)) = e - c
      /\ \A i \in 1..(e - c) : Segment(c, e)[i] = c + i
  <2>1. c \in Nat /\ c <= e
    BY <1>0
  <2> HIDE DEF c
  <2> QED BY <2>1, SegmentIsFile
<1> HIDE DEF s
<1>4. SubSeq(s, 1, n) = Segment(d, d + n)
  <2> DEFINE t == SubSeq(s, 1, n)
  <2>1. \A i \in 1..n : s[i] = d + i /\ s[i] \in Nat
    BY <1>1
  <2>2. /\ t \in Seq(Nat) /\ Len(t) = (IF 1 <= n THEN n - 1 + 1 ELSE 0)
        /\ \A i \in 1..(n - 1 + 1) : t[i] = s[1 + i - 1]
    BY <2>1, SubSeqProperties
  <2> HIDE DEF t
  <2>3. Len(t) = (d + n) - d /\ \A i \in 1..((d + n) - d) : t[i] = d + i
    BY <2>1, <2>2
  <2>4. t = Segment(d, d + n)
    BY <1>2, <2>2, <2>3, SeqEqual
  <2> QED BY <2>4 DEF t
<1>5. SubSeq(s, n + 1, e - d) = Segment(d + n, e)
  <2> DEFINE t == SubSeq(s, n + 1, e - d)
  <2>1. \A i \in (n + 1)..(e - d) : s[i] = d + i /\ s[i] \in Nat
    BY <1>1
  <2>2. n + 1 \in Int /\ e - d \in Int
    OBVIOUS
  <2>3. /\ t \in Seq(Nat)
        /\ Len(t) = (IF n + 1 <= e - d THEN (e - d) - (n + 1) + 1 ELSE 0)
        /\ \A i \in 1..((e - d) - (n + 1) + 1) : t[i] = s[(n + 1) + i - 1]
    BY <2>1, <2>2, SubSeqProperties
  <2> HIDE DEF t
  <2>4. Len(t) = e - (d + n)
    BY <2>3
  <2>5. ASSUME NEW i \in 1..(e - (d + n)) PROVE t[i] = (d + n) + i
    <3>1. /\ i \in 1..((e - d) - (n + 1) + 1) /\ (n + 1) + i - 1 = n + i
          /\ n + i \in (n + 1)..(e - d) /\ d + (n + i) = (d + n) + i
      OBVIOUS
    <3> QED BY <2>1, <2>3, <3>1
  <2>6. t = Segment(d + n, e)
    BY <1>3, <2>3, <2>4, <2>5, SeqEqual
  <2> QED BY <2>6 DEF t
<1> QED BY <1>4, <1>5 DEF s

-----------------------------------------------------------------------------
(* Numbers *)

\* A remainder lies below the divisor, and not above the dividend.
LEMMA ModFacts ==
    ASSUME NEW a \in Nat, NEW b \in Nat, b > 0
    PROVE  a % b \in 0..(b - 1) /\ a % b <= a
OBVIOUS

LEMMA ProductIsNat == ASSUME NEW d \in Nat, NEW b \in Nat PROVE d * b \in Nat
OBVIOUS

LEMMA ProductStep ==
    ASSUME NEW e \in Nat, NEW b \in Nat, e > 0
    PROVE  e * b = (e - 1) * b + b
OBVIOUS

LEMMA ProductMonotonic ==
    ASSUME NEW d \in Nat, NEW e \in Nat, NEW b \in Nat, d <= e
    PROVE  d * b <= e * b
<1>1. PICK k \in Nat : e = d + k
  <2>1. e - d \in Nat /\ e = d + (e - d)
    OBVIOUS
  <2> QED BY <2>1
<1>2. e * b = d * b + k * b /\ k * b \in Nat /\ d * b \in Nat
  BY <1>1
<1> QED BY <1>2

LEMMA ProductCancels ==
    ASSUME NEW d \in Nat, NEW e \in Nat, NEW b \in Nat, d * b < e * b
    PROVE  d < e
<1>1. SUFFICES ASSUME e <= d PROVE FALSE
  OBVIOUS
<1>2. e * b <= d * b
  BY <1>1, ProductMonotonic
<1> QED BY <1>2, ProductIsNat

LEMMA SmallHasNoQuotient ==
    ASSUME NEW a \in Nat, NEW b \in Nat, a < b
    PROVE  a % b = a
OBVIOUS

LEMMA MultipleHasNoRest ==
    ASSUME NEW d \in Nat, NEW b \in Nat, b > 0
    PROVE  (d * b) % b = 0
OBVIOUS

LEMMA QuotientBelow ==
    ASSUME NEW d \in Nat, NEW b \in Nat, b > 0, NEW a \in Nat, d * b < a, a <= d * b + b
    PROVE  (a - 1) \div b = d
OBVIOUS
=============================================================================
