------------------------------- MODULE Codec -------------------------------
(***************************************************************************)
(* Packets as bytes: packet.rs, opcode.rs, error.rs, the byte form of      *)
(* options.rs.  Texts and datagrams are sequences of bytes.  Of UTF-8 only *)
(* this is kept: bytes below 128 are text, the others are not.  The        *)
(* options of a packet are the option set its typed getters see.           *)
(***************************************************************************)
EXTENDS Options, SequencesExt

CONSTANT NameText   \* the bytes of each option's name

NUL == 0
Plus == 43
Digits == 48..57
Byte == 0..255

ASSUME CodecAssumption ==
    /\ U16 = 256 * 256
    /\ DOMAIN NameText = OptionNames
    /\ \A n \in OptionNames : NameText[n] \in Seq(1..127) /\ NameText[n] # <<>>
    /\ \A m, n \in OptionNames : NameText[m] = NameText[n] => m = n

-----------------------------------------------------------------------------
(* Numbers and texts *)

\* Mutant of PutU16: the low byte first.
LittleEndian(n) == <<n % 256, n \div 256>>

\* put_u16, as_u16.
PutU16(n) == <<n \div 256, n % 256>>

\* u16::from_be_bytes of the first two bytes.
TakeU16(b) == 256 * b[1] + b[2]

From(b, i) == SubSeq(b, i, Len(b))

put_cstr(text) == Append(text, NUL)

\* The NUL-terminated texts that b begins with: what repeated take_cstr yields.
CStrings(b) ==
    LET nul == SelectSeq([i \in DOMAIN b |-> i], LAMBDA i : b[i] = NUL)
    IN  [k \in DOMAIN nul |->
            SubSeq(b, IF k = 1 THEN 1 ELSE nul[k - 1] + 1, nul[k] - 1)]

IsUtf8(text) == \A i \in DOMAIN text : text[i] < 128

\* to_string of a number.
Decimal[n \in Nat] ==
    IF n < 10 THEN <<48 + n>> ELSE Append(Decimal[n \div 10], 48 + (n % 10))

\* What str::parse accepts as an unsigned number: digits, perhaps after a plus.
DigitsOf(text) ==
    IF text # <<>> /\ Head(text) = Plus THEN Tail(text) ELSE text
IsNumber(text) == DigitsOf(text) # <<>> /\ Range(DigitsOf(text)) \subseteq Digits
Number(text) == FoldLeft(LAMBDA n, d : 10 * n + (d - 48), 0, DigitsOf(text))

-----------------------------------------------------------------------------
(* Options *)

\* The order in which the BTreeMap of Options yields the names.
NamesInOrder == <<"blksize", "timeout", "tsize", "windowsize">>

encode_into(o) ==
    LET names == SelectSeq(NamesInOrder, LAMBDA n : n \in DOMAIN o)
    IN  FlattenSeq([i \in DOMAIN names |->
            put_cstr(NameText[names[i]]) \o put_cstr(Decimal[o[names[i]]])])

\* decode_from accepts pairs of terminated texts, and nothing after them.
IsOptionList(b) ==
    /\ b = <<>> \/ Last(b) = NUL
    /\ Len(CStrings(b)) % 2 = 0
    /\ \A k \in DOMAIN CStrings(b) : IsUtf8(CStrings(b)[k])

\* The values the list gives an option, in its order.
ValuesOf(b, name) ==
    LET s == CStrings(b)
        pairs == [k \in 1..(Len(s) \div 2) |-> <<s[2 * k - 1], s[2 * k]>>]
        its == SelectSeq(pairs, LAMBDA p : p[1] = NameText[name])
    IN  [k \in DOMAIN its |-> its[k][2]]

\* Mutant of ValueOf: the first of several values counts.
FirstValueOf(b, name) == Head(ValuesOf(b, name))

\* A later value of the same option replaces an earlier one.
ValueOf(b, name) == Last(ValuesOf(b, name))

decode_from(b) ==
    [name \in {n \in OptionNames :
                 ValuesOf(b, n) # <<>> /\ IsNumber(ValueOf(b, n))} |->
        Number(ValueOf(b, name))]

-----------------------------------------------------------------------------
(* Packets *)

Opcodes == <<"RRQ", "WRQ", "DATA", "ACK", "ERROR", "OACK">>
Opcode(type) == CHOOSE op \in DOMAIN Opcodes : Opcodes[op] = type

\* A ParseError, whatever it says.
Malformed == [type |-> "malformed"]

\* TftpErrorCode::from_u16: an unknown code is NotDefined.
ErrorCode(n) == IF n \in 1..8 THEN n ELSE 0

encode(p) ==
    PutU16(Opcode(p.type)) \o
    CASE p.type \in {"RRQ", "WRQ"} ->
            put_cstr(p.filename) \o put_cstr(p.mode) \o encode_into(p.options)
      [] p.type = "DATA"  -> PutU16(p.block) \o p.data
      [] p.type = "ACK"   -> PutU16(p.block)
      [] p.type = "ERROR" -> PutU16(p.code) \o put_cstr(p.message)
      [] p.type = "OACK"  -> encode_into(p.options)

\* What follows the opcode of each kind of packet.
ParseRequest(type, rest) ==
    LET s == CStrings(rest)
        list == From(rest, Len(s[1]) + Len(s[2]) + 3)
    IN  IF Len(s) >= 2 /\ IsUtf8(s[1]) /\ IsUtf8(s[2]) /\ IsOptionList(list)
        THEN [type |-> type, filename |-> s[1], mode |-> s[2],
              options |-> decode_from(list)]
        ELSE Malformed

ParseData(rest) ==
    IF Len(rest) < 2 THEN Malformed
    ELSE [type |-> "DATA", block |-> TakeU16(rest), data |-> From(rest, 3)]

ParseAck(rest) ==
    IF Len(rest) < 2 THEN Malformed ELSE [type |-> "ACK", block |-> TakeU16(rest)]

ParseError(rest) ==
    LET s == CStrings(From(rest, 3))
    IN  IF Len(rest) >= 2 /\ s # <<>> /\ IsUtf8(s[1])
        THEN [type |-> "ERROR", code |-> ErrorCode(TakeU16(rest)), message |-> s[1]]
        ELSE Malformed

ParseOack(rest) ==
    IF IsOptionList(rest) THEN [type |-> "OACK", options |-> decode_from(rest)]
    ELSE Malformed

parse(b) ==
    LET op == IF Len(b) < 2 THEN 0 ELSE TakeU16(b)
        rest == From(b, 3)
    IN  CASE op = 1 -> ParseRequest("RRQ", rest)
          [] op = 2 -> ParseRequest("WRQ", rest)
          [] op = 3 -> ParseData(rest)
          [] op = 4 -> ParseAck(rest)
          [] op = 5 -> ParseError(rest)
          [] op = 6 -> ParseOack(rest)
          [] OTHER -> Malformed
=============================================================================
