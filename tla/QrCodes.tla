-------------------------------- MODULE QrCodes --------------------------------
(***************************************************************************)
(* Merchant-presented payment codes of the banking API: fields packed as   *)
(* tag, length and value, closed by a checksum, and read back by decode.   *)
(* Nothing is stored. A text is a sequence of character codes; an absent   *)
(* text is the empty one.                                                  *)
(***************************************************************************)
EXTENDS Integers, Sequences, Bitwise, TLC

CONSTANTS
  Sheets,              \* what may be asked for: [name, city, id, amount, reference, currency]
  Numeric,             \* ISO4217_NUMERIC: the text of each currency it knows
  MaxName, MaxCity, MaxReference,
  Guid, Country,       \* texts that every code carries
  Symbols,             \* characters that damage may put in place of another
  Refused

VARIABLES
  sheet,               \* what the last code was asked for
  payload,             \* the code as it is scanned
  touched              \* it was damaged on its way

qrVars == <<sheet, payload, touched>>

NoText == <<>>

QrInit == sheet = Refused /\ payload = NoText /\ touched = FALSE

Digit(n) == 48 + n
IsDigit(c) == c \in 48 .. 57
Tag(n) == <<Digit(n \div 10), Digit(n % 10)>>
Hex(n) == IF n < 10 THEN Digit(n) ELSE 55 + n
Upper(c) == IF c \in 97 .. 122 THEN c - 32 ELSE c

-----------------------------------------------------------------------------
(* CRC-16 over the polynomial 0x1021, from 0xFFFF, high bit first. The     *)
(* sets have one member.                                                   *)
Shifted(crc) == IF crc >= 2^15 THEN ((crc * 2) % 2^16) ^^ 4129 ELSE crc * 2

AddedUp(crc, c) == (crc + c) % 2^16           \* mutant: a sum of the characters
WithByte(crc, c) ==
  LET after[j \in 0 .. 8] ==
        IF j = 0 THEN {crc ^^ ((c % 256) * 2^8)} ELSE {Shifted(n) : n \in after[j - 1]}
  IN CHOOSE n \in after[8] : TRUE

Crc(text) ==
  LET after[i \in 0 .. Len(text)] ==
        IF i = 0 THEN {2^16 - 1} ELSE {WithByte(n, text[i]) : n \in after[i - 1]}
  IN CHOOSE n \in after[Len(text)] : TRUE
CrcHex(text) ==
  LET crc == Crc(text) IN
  <<Hex(crc \div 2^12), Hex((crc \div 2^8) % 16), Hex((crc \div 16) % 16), Hex(crc % 16)>>

-----------------------------------------------------------------------------
(* Two digits say how long a value is; a longer one is written with three. *)
LengthOf(n) == IF n < 100 THEN Tag(n) ELSE <<Digit(n \div 100)>> \o Tag(n % 100)
Tlv(id, value) == Tag(id) \o LengthOf(Len(value)) \o value
Present(id, value) == IF value = NoText THEN <<>> ELSE Tlv(id, value)

(* Fields of a text, from position i on; of two with one tag the last      *)
(* counts.                                                                 *)
Parse(s) ==
  LET parse[i \in 1 .. Len(s) + 1] ==
        IF i = Len(s) + 1 THEN [t \in {} |-> NoText]
        ELSE IF i + 3 > Len(s) \/ ~IsDigit(s[i + 2]) \/ ~IsDigit(s[i + 3]) THEN Refused
        ELSE LET end == i + 3 + 10 * (s[i + 2] - 48) + (s[i + 3] - 48) IN
             IF end > Len(s) THEN Refused
             ELSE LET rest == parse[end + 1] IN
                  IF rest = Refused THEN Refused
                  ELSE rest @@ (SubSeq(s, i, i + 1) :> SubSeq(s, i + 4, end))
  IN parse[1]

Field(fields, id) == IF Tag(id) \in DOMAIN fields THEN fields[Tag(id)] ELSE NoText

-----------------------------------------------------------------------------
(* The longest value is the merchant's template, whose id has no maximum:  *)
(* from some length on it takes three digits, of which a reader takes two. *)
Template(x) == Tlv(0, Guid) \o Tlv(1, x.id)
FitsTwoDigits(x) == Len(Template(x)) < 100 /\ Len(x.amount) < 100

Body(x) ==
  Tlv(0, Tag(1)) \o Tlv(1, Tag(IF x.amount # NoText THEN 12 ELSE 11))
    \o Tlv(26, Template(x)) \o Tlv(52, Tag(0) \o Tag(0))
    \o Tlv(53, Numeric[x.currency]) \o Present(54, x.amount) \o Tlv(58, Country)
    \o Tlv(59, x.name) \o Tlv(60, x.city)
    \o (IF x.reference = NoText THEN <<>> ELSE Tlv(62, Tlv(5, x.reference)))
    \o Tag(63) \o Tag(4)

Accepted(x) ==
  /\ x.currency \in DOMAIN Numeric
  /\ Len(x.name) <= MaxName /\ Len(x.city) <= MaxCity /\ Len(x.reference) <= MaxReference

GenerateQr(x) ==
  /\ payload = NoText /\ Accepted(x)
  /\ sheet' = x /\ payload' = Body(x) \o CrcHex(Body(x)) /\ touched' = FALSE

(* On its way one character becomes another, or two neighbours change      *)
(* places.                                                                 *)
Damage(i) ==
  /\ ~touched /\ i \in DOMAIN payload
  /\ \/ \E c \in Symbols \ {payload[i]} : payload' = [payload EXCEPT ![i] = c]
     \/ /\ i > 1 /\ payload[i] # payload[i - 1]
        /\ payload' = [payload EXCEPT ![i] = payload[i - 1], ![i - 1] = payload[i]]
  /\ touched' = TRUE
  /\ UNCHANGED sheet

QrNext == (\E x \in Sheets : GenerateQr(x)) \/ (\E i \in DOMAIN payload : Damage(i))

-----------------------------------------------------------------------------
(* Decoding: the checksum, in either case, then the fields and, inside     *)
(* two of them, theirs.                                                    *)
Sealed(text) ==
  LET n == Len(text) IN
  /\ n >= 8 /\ SubSeq(text, n - 7, n - 4) = Tag(63) \o Tag(4)
  /\ CrcHex(SubSeq(text, 1, n - 4)) = [i \in 1 .. 4 |-> Upper(text[n - 4 + i])]

Decoded(text) ==
  IF ~Sealed(text) THEN Refused
  ELSE LET fields == Parse(text) IN
       IF fields = Refused THEN Refused
       ELSE LET merchant == Parse(Field(fields, 26))
                more == Parse(Field(fields, 62)) IN
            IF Refused \in {merchant, more} THEN Refused
            ELSE [name |-> Field(fields, 59), city |-> Field(fields, 60),
                  id |-> Field(merchant, 1), amount |-> Field(fields, 54),
                  reference |-> Field(more, 5), currency |-> Field(fields, 53)]

AsAsked(x) == [x EXCEPT !.currency = Numeric[@]]

(* A code whose lengths fit reads back as what it was made for, whatever   *)
(* digits, tags or checksums its texts imitate; a damaged one is refused,  *)
(* unless all that changed is the case of its checksum (payments.js qr).   *)
ReadsBack ==
  payload # NoText /\ FitsTwoDigits(sheet) =>
    Decoded(payload) \in {AsAsked(sheet)} \cup (IF touched THEN {Refused} ELSE {})

(* "build a real EMVCo merchant-presented QR payload" and "parse TLV back  *)
(* to structured fields" (payments.js:120, :232): every code that was made *)
(* and not touched reads back.                                             *)
EveryCodeReadsBack == payload # NoText /\ ~touched => Decoded(payload) = AsAsked(sheet)
=============================================================================
