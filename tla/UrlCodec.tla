------------------------------ MODULE UrlCodec -----------------------------
(***************************************************************************)
(* beast/http_server: UrlEncode, UrlDecode and PreParseGetParam of         *)
(* http_connection.cpp, as operators on strings of bytes 0..255.  char is  *)
(* signed, as it is on x86.  A variable holds the input: it is grown byte  *)
(* by byte, so that the operators are evaluated on every short string.     *)
(***************************************************************************)
EXTENDS Integers, Sequences, SequencesExt

CONSTANTS
  Alphabet,    (* the bytes inputs of more than one byte are made of       *)
  MaxLen       (* bound on the length of an input                          *)

Byte == 0..255

ASSUME InputsAssumption == Alphabet \subseteq Byte /\ MaxLen \in Nat

Percent == 37
Plus == 43
Space == 32
Ampersand == 38
Equals == 61
Question == 63

Digit == 48..57
Upper == 65..90
Lower == 97..122
-----------------------------------------------------------------------------
(* The digits are '0' + num and 'A' + num - 10, in an unsigned char. *)
ToHexOffByOne(num) == (IF num > 10 THEN num + 55 ELSE num + 48) % 256
ToHex(num) == (IF num > 9 THEN num + 55 ELSE num + 48) % 256

(* FromHex asserts that ch is in one of the three ranges. *)
FromHex(ch) ==
  CASE ch \in Upper -> ch - 65 + 10
    [] ch \in Lower -> ch - 97 + 10
    [] ch \in Digit -> ch - 48
IsHexArg(ch) == ch \in Upper \union Lower \union Digit

(* ch >> 4 of a signed char, converted to the unsigned char ToHex takes:   *)
(* for bytes from 128 on, ones are shifted in.                             *)
ShiftRight4(b) == IF b < 128 THEN b \div 16 ELSE 240 + b \div 16

Unreserved == Digit \union Upper \union Lower \union {45, 95, 46, 126}

(* One turn of the loop of UrlEncode. *)
EncodeByte(b) ==
  CASE b \in Unreserved -> <<b>>
    [] b = Space -> <<Plus>>
    [] OTHER -> <<Percent, ToHex(ShiftRight4(b)), ToHex(b % 16)>>

UrlEncode(s) == FlattenSeq([i \in DOMAIN s |-> EncodeByte(s[i])])

(* One of the asserts of UrlDecode and FromHex fails: the process aborts.  *)
(* No digit is a %, so every % that is reached is the start of an escape.  *)
DecodeAborts(s) ==
  \E i \in DOMAIN s :
     /\ s[i] = Percent
     /\ i + 2 > Len(s) \/ ~IsHexArg(s[i + 1]) \/ ~IsHexArg(s[i + 2])

(* FromHex lets letters after F pass, so a byte is taken modulo 256. *)
UrlDecodeKeepsPlus(s) ==
  LET rest[i \in 1..(Len(s) + 1)] ==
        CASE i > Len(s) -> <<>>
          [] i <= Len(s) /\ s[i] = Percent ->
               <<(FromHex(s[i + 1]) * 16 + FromHex(s[i + 2])) % 256>> \o rest[i + 3]
          [] OTHER -> <<s[i]>> \o rest[i + 1]
  IN  rest[1]
UrlDecode(s) ==
  LET rest[i \in 1..(Len(s) + 1)] ==
        CASE i > Len(s) -> <<>>
          [] i <= Len(s) /\ s[i] = Plus -> <<Space>> \o rest[i + 1]
          [] i <= Len(s) /\ s[i] = Percent ->
               <<(FromHex(s[i + 1]) * 16 + FromHex(s[i + 2])) % 256>> \o rest[i + 3]
          [] OTHER -> <<s[i]>> \o rest[i + 1]
  IN  rest[1]
-----------------------------------------------------------------------------
(* string::find of one byte from a position on; past the end if not found. *)
FindFrom(s, b, from) ==
  LET hit == SelectInSubSeq(s, from, Len(s), LAMBDA x : x = b)
  IN  IF hit = 0 THEN Len(s) + 1 ELSE hit

(* get_url_: the target up to the first question mark. *)
GetUrl(target) == SubSeq(target, 1, FindFrom(target, Question, 1) - 1)
QueryString(target) ==
  SubSeq(target, FindFrom(target, Question, 1) + 1, Len(target))

(* What one segment adds to get_params_: nothing if it has no `='. *)
SegmentParams(segment) ==
  LET eq == FindFrom(segment, Equals, 1)
      key == UrlDecode(SubSeq(segment, 1, eq - 1))
      value == UrlDecode(SubSeq(segment, eq + 1, Len(segment)))
  IN  [k \in IF eq > Len(segment) THEN {} ELSE {key} |-> value]

(* A map after what later holds was assigned on top of earlier. *)
Over(later, earlier) ==
  [k \in DOMAIN later \union DOMAIN earlier |->
     IF k \in DOMAIN later THEN later[k] ELSE earlier[k]]

(* get_params_ after the loop over the segments between ampersands: of a   *)
(* key that comes twice, the later value stays.                            *)
GetParamsFirstWins(target) ==
  LET q == QueryString(target)
      params[i \in 1..(Len(q) + 2)] ==
        IF i > Len(q) THEN <<>>
        ELSE LET amp == FindFrom(q, Ampersand, i)
             IN  Over(SegmentParams(SubSeq(q, i, amp - 1)), params[amp + 1])
  IN  params[1]
GetParamsNoLast(target) ==
  LET q == QueryString(target)
      params[i \in 1..(Len(q) + 2)] ==
        LET amp == FindFrom(q, Ampersand, i)
        IN  IF i > Len(q) \/ amp > Len(q) THEN <<>>
            ELSE Over(params[amp + 1], SegmentParams(SubSeq(q, i, amp - 1)))
  IN  params[1]
GetParams(target) ==
  LET q == QueryString(target)
      params[i \in 1..(Len(q) + 2)] ==
        IF i > Len(q) THEN <<>>
        ELSE LET amp == FindFrom(q, Ampersand, i)
             IN  Over(params[amp + 1], SegmentParams(SubSeq(q, i, amp - 1)))
  IN  params[1]
-----------------------------------------------------------------------------
VARIABLE
  str          (* the input                                                *)

Init == str = <<>>

(* Every string of one byte, and every string over Alphabet. *)
Next ==
  /\ Len(str) < MaxLen
  /\ \E b \in Byte :
       /\ str = <<>> \/ ToSet(str) \union {b} \subseteq Alphabet
       /\ str' = Append(str, b)

Spec == Init /\ [][Next]_str
-----------------------------------------------------------------------------
Ascii(s) == ToSet(s) \subseteq 0..127

(* UrlDecode undoes UrlEncode on every ASCII string, and no assert fails.  *)
DecodeUndoesEncode ==
  Ascii(str) => /\ ~DecodeAborts(UrlEncode(str))
                /\ UrlDecode(UrlEncode(str)) = str

(* http_connection.cpp:61: every other byte becomes a %, its high four and *)
(* its low four bits, each in hex.                                         *)
EncodesBothNibbles ==
  \A i \in DOMAIN str :
     str[i] \notin Unreserved \union {Space} =>
        LET code == EncodeByte(str[i])
        IN  /\ Len(code) = 3
            /\ IsHexArg(code[2]) /\ IsHexArg(code[3])
            /\ FromHex(code[2]) = str[i] \div 16
            /\ FromHex(code[3]) = str[i] % 16

(* However two keys and two values, the input cut in four, are made of the *)
(* bytes that have a meaning in a url: encoded, sent as a query and parsed *)
(* by PreParseGetParam, they come back, and the url before them too.       *)
PairsSurvive ==
  Ascii(str) =>
    \A i \in 0..Len(str) : \A j \in i..Len(str) : \A k \in j..Len(str) :
       LET k1 == SubSeq(str, 1, i)
           v1 == SubSeq(str, i + 1, j)
           k2 == SubSeq(str, j + 1, k)
           v2 == SubSeq(str, k + 1, Len(str))
           url == <<47, 97>>
           target == url \o <<Question>>
                       \o UrlEncode(k1) \o <<Equals>> \o UrlEncode(v1)
                       \o <<Ampersand>>
                       \o UrlEncode(k2) \o <<Equals>> \o UrlEncode(v2)
       IN  /\ GetUrl(target) = url
           /\ GetParams(target) = [x \in {k1, k2} |-> IF x = k2 THEN v2 ELSE v1]

(* Any query in which UrlDecode accepts every escape (of any other the     *)
(* program aborts): the segments are the stretches without an ampersand    *)
(* that cannot be made longer; get_params_ has a key for each with an      *)
(* equals sign, and the value of the last segment with that key.           *)
Segments(q) ==
  {seg \in (1..Len(q) + 1) \X (0..Len(q)) :
     LET a == seg[1]
         b == seg[2]
     IN  /\ a <= b + 1
         /\ \A i \in a..b : q[i] # Ampersand
         /\ a = 1 \/ q[a - 1] = Ampersand
         /\ b = Len(q) \/ q[b + 1] = Ampersand}

ParsesSegments ==
  ~DecodeAborts(str) =>
    LET Eq(seg) == FindFrom(SubSeq(str, seg[1], seg[2]), Equals, 1) + seg[1] - 1
        Pairs == {seg \in Segments(str) : Eq(seg) <= seg[2]}
        Key(seg) == UrlDecode(SubSeq(str, seg[1], Eq(seg) - 1))
        Value(seg) == UrlDecode(SubSeq(str, Eq(seg) + 1, seg[2]))
        params == GetParams(<<Question>> \o str)
    IN  /\ DOMAIN params = {Key(seg) : seg \in Pairs}
        /\ \A seg \in Pairs :
             (\A other \in Pairs : Key(other) = Key(seg) => other[1] <= seg[1])
                => params[Key(seg)] = Value(seg)
=============================================================================
