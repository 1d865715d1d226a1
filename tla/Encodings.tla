------------------------------ MODULE Encodings ------------------------------
(***************************************************************************)
(* The string encodings (talk/base/stringencode.cc): escaping, percent     *)
(* encoding, XML and HTML references, UTF-8, hexadecimal and the splitting *)
(* of lists; and Base64 (talk/base/base64.cc).                             *)
(*                                                                         *)
(* Characters are bytes.  An encoder works piece by piece into a buffer    *)
(* that may be too short, and leaves room for the terminator.  One action  *)
(* is one call, with what the inverse makes of its result.                 *)
(***************************************************************************)
EXTENDS Integers, Sequences, FiniteSets, FiniteSetsExt, SequencesExt, Bitwise

CONSTANTS
    Alphabet,       \* [Codec -> sets of bytes]
    MaxLength,      \* bound: of a source
    MaxRoom,        \* bound: of a buffer
    Value,          \* code points for UTF-8
    Byte, MaxBytes, \* bytes that Base64 encodes, and a bound of how many
    Char, MaxChars  \* characters that it decodes: entries of its DecodeTable

Codec == {"escape", "encode", "url", "xml", "html"}

(* The values of characters that are none of 0 .. 63, and the flags.       *)
pd == 253
sp == 254
il == 255

Parse == {"STRICT", "WHITE", "ANY"}
Pad == {"YES", "NO", "ANY"}
Term == {"BUFFER", "CHAR", "ANY"}
Flags == [parse : Parse, pad : Pad, term : Term]

Strict == [parse |-> "STRICT", pad |-> "YES", term |-> "BUFFER"]

VARIABLES
    call, source, room,
    coded, decoded,     \* [pos, out, stop, ahead]: what became of source, and of that
    fields,             \* what a list was split into
    flags, used         \* of Base64: how it decodes, and how far it came

vars == <<call, source, room, coded, decoded, fields, flags, used>>

Nothing == [pos |-> 0, out |-> <<>>, stop |-> FALSE, ahead |-> FALSE]
Out(bytes) == [Nothing EXCEPT !.out = bytes]
Texts(chars, n) == UNION {[1 .. k -> chars] : k \in 0 .. n}

Init ==
    /\ call = "none" /\ source = <<>> /\ room = 0
    /\ coded = Nothing /\ decoded = Nothing /\ fields = <<>>
    /\ flags = Strict /\ used = -1

-----------------------------------------------------------------------------
(* Single characters.                                                      *)

HexDigit(v) == IF v < 10 THEN 48 + v ELSE 87 + v
HexPair(ch) == <<HexDigit(ch \div 16), HexDigit(ch % 16)>>

\* hex_decode takes every letter for a digit.
HexValue(ch) ==
    IF ch \in 48 .. 57 THEN ch - 48
    ELSE IF ch \in 65 .. 90 THEN ch - 55
    ELSE IF ch \in 97 .. 122 THEN ch - 87
    ELSE -1
IsHex(ch) == HexValue(ch) >= 0
HexByte(h1, h2) == ((HexValue(h1) * 16) | HexValue(h2)) % 256

\* utf8_encode into n bytes, <<>> when it does not fit.
Utf8Encode(v, n) ==
    LET Trail(k) == 128 + ((v \div 64 ^ k) % 64) IN
    IF v <= 127 /\ n >= 1 THEN <<v>>
    ELSE IF v <= 2047 /\ n >= 2 THEN <<192 + v \div 64, Trail(0)>>
    ELSE IF v <= 65535 /\ n >= 3 THEN <<224 + v \div 4096, Trail(1), Trail(0)>>
    ELSE IF v <= 2097151 /\ n >= 4
         THEN <<240 + v \div 262144, Trail(2), Trail(1), Trail(0)>>
    ELSE <<>>

\* utf8_decode of the first character of s.
Utf8Decode(s) ==
    LET Bits(k) == s[k] % 64
        Trails(n) == Len(s) >= n /\ \A k \in 2 .. n : s[k] \div 64 = 2
    IN  IF s[1] < 128 THEN [take |-> 1, value |-> s[1]]
        ELSE IF s[1] \div 32 = 6 /\ Trails(2)
        THEN [take |-> 2, value |-> ((s[1] % 32) * 64) + Bits(2)]
        ELSE IF s[1] \div 16 = 14 /\ Trails(3)
        THEN [take |-> 3, value |-> ((s[1] % 16) * 4096) + (Bits(2) * 64) + Bits(3)]
        ELSE IF s[1] \div 8 = 30 /\ Trails(4)
        THEN [take |-> 4, value |-> ((s[1] % 8) * 262144) + (Bits(2) * 4096)
                                    + (Bits(3) * 64) + Bits(4)]
        ELSE [take |-> 0, value |-> 0]

Decimal(n) == LET width == Min({w \in 1 .. 7 : 10 ^ w > n})
              IN  [i \in 1 .. width |-> 48 + ((n \div 10 ^ (width - i)) % 10)]

-----------------------------------------------------------------------------
(* The encoders and decoders, piece by piece.                              *)

Take(n, bytes) == [take |-> n, give |-> bytes]
At(s, at, bytes) ==
    at + Len(bytes) - 1 <= Len(s) /\ SubSeq(s, at, at + Len(bytes) - 1) = bytes

\* What is escaped: the escape character of escape is \, of encode %.
Illegal == [escape |-> {92, 44}, encode |-> {37, 44},
            url |-> {32, 37, 43, 44, 58, 59, 60, 62, 35, 38}, xml |-> {34, 38, 39, 60, 62},
            html |-> {34, 38, 39, 60, 62}]

\* The names of references, with the semicolon.
Reference(codec, ch) ==
    CASE ch = 60 -> <<108, 116, 59>>
      [] ch = 62 -> <<103, 116, 59>>
      [] ch = 38 -> <<97, 109, 112, 59>>
      [] ch = 34 -> <<113, 117, 111, 116, 59>>
      [] ch = 39 -> IF codec = "html" THEN <<35, 51, 57, 59>>
                    ELSE <<97, 112, 111, 115, 59>>

\* One turn of the loops of escape, encode, url_encode, xml_encode and
\* html_encode, at a place in s.
EncodePiece(codec, s, at) ==
    LET ch == s[at]
        utf8 == Utf8Decode(SubSeq(s, at, Len(s)))
    IN  IF codec = "html" /\ ch >= 128
        THEN Take(Max({utf8.take, 1}),
                  <<38, 35>> \o Decimal(IF utf8.take > 0 THEN utf8.value ELSE ch) \o <<59>>)
        ELSE Take(1, IF ch \notin Illegal[codec] THEN <<ch>>
                     ELSE CASE codec = "escape" -> <<92, ch>>
                            [] codec \in {"encode", "url"} -> <<37>> \o HexPair(ch)
                            [] codec \in {"xml", "html"} ->
                                   <<38>> \o Reference(codec, ch))

\* The number at a place: strtoul, as far as the digits go.
DigitsAt(s, at, base) ==
    CHOOSE n \in 0 .. Len(s) :
        /\ \A i \in at .. at + n - 1 : i <= Len(s) /\ HexValue(s[i]) \in 0 .. base - 1
        /\ ~(at + n <= Len(s) /\ HexValue(s[at + n]) \in 0 .. base - 1)
Number(digits, base) == FoldLeft(LAMBDA v, d : v * base + HexValue(d), 0, digits)

\* A reference of xml_decode, behind its &, into n bytes: nothing is taken
\* when it is not one or does not fit.
DecodeReference(s, at, n) ==
    LET named == {ch \in {60, 62, 39, 34, 38} : At(s, at, Reference("xml", ch))}
        base == IF at < Len(s) /\ s[at + 1] = 120 THEN 16 ELSE 10
        from == IF base = 16 THEN at + 2 ELSE at + 1
        digits == DigitsAt(s, from, base)
        utf8 == Utf8Encode(Number(SubSeq(s, from, from + digits - 1), base), n)
    IN  IF named # {}
        THEN LET ch == CHOOSE ch \in named : TRUE
             IN  Take(Len(Reference("xml", ch)), <<ch>>)
        ELSE IF at <= Len(s) /\ s[at] = 35 /\ At(s, from + digits, <<59>>) /\ utf8 # <<>>
        THEN Take(from + digits + 1 - at, utf8)
        ELSE Take(0, <<>>)

\* One turn of the loops of unescape, decode, url_decode and xml_decode.
DecodePiece(codec, s, at, n) ==
    LET ch == s[at]
        hex == ch = 37 /\ at + 2 <= Len(s) /\ IsHex(s[at + 1]) /\ IsHex(s[at + 2])
    IN  CASE codec = "escape" /\ ch = 92 /\ at < Len(s) -> Take(2, <<s[at + 1]>>)
          [] codec \in {"encode", "url"} /\ hex -> Take(3, <<HexByte(s[at + 1], s[at + 2])>>)
          [] codec = "url" /\ ch = 43 -> Take(1, <<32>>)
          [] codec \in {"xml", "html"} /\ ch = 38 ->
                 LET reference == DecodeReference(s, at + 1, n)
                 IN  IF reference.take = 0 THEN Take(0, <<>>)
                     ELSE Take(reference.take + 1, reference.give)
          [] OTHER -> Take(1, <<ch>>)

\* A piece is cut where the buffer ends.
CutPiece(r, piece, n) ==
    [r EXCEPT !.pos = @ + piece.take,
              !.out = @ \o SubSeq(piece.give, 1, n - 1 - Len(r.out)),
              !.stop = Len(r.out) + Len(piece.give) >= n]
\* An encoder stops before a piece that does not fit with the terminator.
WholePiece(r, piece, n) ==
    IF Len(r.out) + Len(piece.give) >= n THEN [r EXCEPT !.stop = TRUE]
    ELSE [r EXCEPT !.pos = @ + piece.take, !.out = @ \o piece.give]

\* The loops: while there is source and room for a character.
Goes(r, s, n) == ~r.stop /\ r.pos < Len(s) /\ Len(r.out) + 1 < n

EncodeInto(codec, s, n) ==
    FoldLeft(LAMBDA r, i : IF Goes(r, s, n)
                           THEN WholePiece(r, EncodePiece(codec, s, r.pos + 1), n)
                           ELSE r,
             Nothing, [i \in DOMAIN s |-> i])

\* A decoder may work in place: it is ahead when it writes what it has not read.
DecodeInto(codec, s, n) ==
    FoldLeft(LAMBDA r, i :
                 LET piece == DecodePiece(codec, s, r.pos + 1, n - Len(r.out))
                     out == r.out \o piece.give
                 IN  IF ~Goes(r, s, n) THEN r
                     ELSE IF piece.take = 0 THEN [r EXCEPT !.stop = TRUE]
                     ELSE [r EXCEPT !.pos = @ + piece.take, !.out = out,
                                    !.ahead = @ \/ Len(out) > r.pos + piece.take],
             Nothing, [i \in DOMAIN s |-> i])

\* An encoder, and the decoder for all that it made.
Encode ==
    /\ \E codec \in Codec, n \in 1 .. MaxRoom : \E s \in Texts(Alphabet[codec], MaxLength) :
           /\ call' = codec /\ source' = s /\ room' = n
           /\ coded' = EncodeInto(codec, s, n)
           /\ decoded' = DecodeInto(codec, coded'.out, Len(coded'.out) + 1)
    /\ UNCHANGED fields

\* A decoder for any text.
Decode ==
    /\ \E codec \in Codec \ {"html"}, n \in 1 .. MaxRoom :
       \E s \in Texts(Alphabet[codec], MaxLength) \cup {<<38, 35, 50, 51, 51, 59>>} :
           /\ call' = "decode" /\ source' = s /\ room' = n
           /\ decoded' = DecodeInto(codec, s, n)
    /\ coded' = Nothing
    /\ UNCHANGED fields

-----------------------------------------------------------------------------
(* Hexadecimal, UTF-8 and lists.                                           *)

\* hex_encode_with_delimiter, 0 for none: all or nothing.
HexEncode(s, delimiter, n) ==
    LET needed == IF delimiter # 0 THEN Len(s) * 3 ELSE Len(s) * 2 + 1
    IN  IF n < Max({needed, 1}) THEN <<>>
        ELSE FlattenSeq([i \in DOMAIN s |->
                 HexPair(s[i]) \o IF delimiter # 0 /\ i < Len(s) THEN <<delimiter>> ELSE <<>>])

\* hex_decode_with_delimiter: nothing when the text is not valid.
HexDecode(s, delimiter, n) ==
    LET width == IF delimiter # 0 THEN 3 ELSE 2
        count == IF delimiter # 0 THEN (Len(s) + 1) \div 3 ELSE Len(s) \div 2
        start(i) == (i - 1) * width + 1
    IN  IF n < Max({count, 1}) \/ Len(s) # count * width - (width - 2)
           \/ \E i \in 1 .. count :
                  \/ ~IsHex(s[start(i)]) \/ ~IsHex(s[start(i) + 1])
                  \/ delimiter # 0 /\ i < count /\ s[start(i) + 2] # delimiter
        THEN <<>>
        ELSE [i \in 1 .. count |-> HexByte(s[start(i)], s[start(i) + 1])]

Hex ==
    /\ \E delimiter \in {0, 58}, n \in 0 .. MaxRoom :
       \E s \in Texts({0, 97, 255}, 3) :
           /\ call' = "hex" /\ source' = s /\ room' = n
           /\ coded' = Out(HexEncode(s, delimiter, n))
           /\ decoded' = Out(HexDecode(coded'.out, delimiter, Len(s)))
    /\ UNCHANGED fields

Utf8 ==
    /\ \E v \in Value, n \in 0 .. 4 :
           /\ call' = "utf8" /\ source' = <<v>> /\ room' = n
           /\ coded' = Out(Utf8Encode(v, n))
           /\ decoded' = IF coded'.out = <<>> THEN Nothing
                         ELSE Out(<<Utf8Decode(coded'.out).value>>)
    /\ UNCHANGED fields

\* split: a delimiter ends a field, and there is always a last one.
Splitted(s, delimiter) ==
    LET ends == SetToSortSeq({i \in DOMAIN s : s[i] = delimiter}, <)
        from(i) == IF i = 1 THEN 1 ELSE ends[i - 1] + 1
        to(i) == IF i > Len(ends) THEN Len(s) ELSE ends[i] - 1
    IN  [i \in 1 .. Len(ends) + 1 |-> SubSeq(s, from(i), to(i))]

\* tokenize: the fields that are not empty.
Tokenized(s, delimiter) == SelectSeq(Splitted(s, delimiter), LAMBDA f : f # <<>>)

\* The place of a character at or behind a place, 0 for none.
Find(s, ch, from) ==
    LET places == {i \in from .. Len(s) : s[i] = ch}
    IN  IF places = {} THEN 0 ELSE Min(places)

\* tokenize with marks: what is between two marks is one field.  What is before
\* the first mark loses its last character, which should be a delimiter.
Marked(s, delimiter, mark) ==
    LET Turn(r) ==
            LET start == Find(r.rest, mark, 1)
                end == IF start = 0 THEN 0 ELSE Find(r.rest, mark, start + 1)
            IN  IF end = 0 THEN r
                ELSE [rest |-> SubSeq(r.rest, end + 1, Len(r.rest)),
                      fields |-> r.fields
                                 \o Tokenized(SubSeq(r.rest, 1, start - 2), delimiter)
                                 \o <<SubSeq(r.rest, start + 1, end - 1)>>]
        done == FoldLeft(LAMBDA r, i : Turn(r), [rest |-> s, fields |-> <<>>],
                         [i \in DOMAIN s |-> i])
    IN  done.fields \o Tokenized(done.rest, delimiter)

Split ==
    /\ \E s \in Texts({44, 34, 97, 98}, 5) :
       \E how \in {"split", "tokenize", "marks"} :
           /\ call' = how /\ source' = s
           /\ fields' = CASE how = "split" -> Splitted(s, 44)
                          [] how = "tokenize" -> Tokenized(s, 44)
                          [] how = "marks" -> Marked(s, 44, 34)
    /\ room' = 0 /\ coded' = Nothing /\ decoded' = Nothing

-----------------------------------------------------------------------------
(* Base64: a character is its entry of DecodeTable, the value of its six   *)
(* bits or what else it is.                                                *)

\* Up to three bytes are four characters.
Quantum(b) ==
    LET byte(i) == IF i <= Len(b) THEN b[i] ELSE 0 IN
    <<byte(1) \div 4,
      ((byte(1) % 4) * 16) + (byte(2) \div 16),
      IF Len(b) >= 2 THEN ((byte(2) % 16) * 4) + (byte(3) \div 64) ELSE pd,
      IF Len(b) >= 3 THEN byte(3) % 64 ELSE pd>>

\* EncodeFromArray
Encoded(b) ==
    FlattenSeq([i \in 1 .. (Len(b) + 2) \div 3 |->
                   Quantum(SubSeq(b, 3 * i - 2, IF 3 * i < Len(b) THEN 3 * i ELSE Len(b)))])

\* One character of GetNextQuantum: q is [buf, pads, start, pos, stop].  What
\* ANY ignores stops the others.
OneChar(f, q, ch) ==
    LET Ignore(yes) == IF yes THEN [q EXCEPT !.pos = @ + 1] ELSE [q EXCEPT !.stop = TRUE]
        any == f.parse = "ANY"
    IN  IF ch = il \/ (f.pad = "NO" /\ ch = pd) THEN Ignore(any)
        ELSE IF ch = sp THEN Ignore(f.parse # "STRICT")
        ELSE IF ch = pd
        THEN IF Len(q.buf) < 2 \/ Len(q.buf) + q.pads >= 4 THEN Ignore(any)
             ELSE [q EXCEPT !.pads = @ + 1, !.pos = @ + 1,
                            !.start = IF q.pads = 0 THEN q.pos ELSE @]
        ELSE IF q.pads > 0 /\ ~any THEN Ignore(FALSE)
        ELSE [q EXCEPT !.buf = Append(@, ch), !.pads = 0, !.pos = @ + 1]

\* It is rolled back.
Rollback(q) == IF Len(q.buf) + q.pads # 4 /\ q.pads > 0 THEN q.start ELSE q.pos

\* GetNextQuantum: up to four values, from a place on.
NextQuantum(f, t, pos) ==
    FoldLeft(LAMBDA q, ch : IF q.stop \/ Len(q.buf) = 4 THEN q ELSE OneChar(f, q, ch),
             [buf |-> <<>>, pads |-> 0, start |-> pos, pos |-> pos, stop |-> FALSE],
             SubSeq(t, pos + 1, Len(t)))

\* The bytes of a quantum, and the bits that are left over.
Bytes(buf) ==
    LET value(i) == IF i <= Len(buf) THEN buf[i] ELSE 0
        all == <<(value(1) * 4) + (value(2) \div 16),
                 ((value(2) % 16) * 16) + (value(3) \div 4),
                 ((value(3) % 4) * 64) + value(4)>>
        n == IF Len(buf) < 2 THEN 0 ELSE Len(buf) - 1
    IN  [bytes |-> SubSeq(all, 1, n),
         left |-> IF n = 3 THEN 0 ELSE all[n + 1]]

\* DecodeFromArrayTemplate: quantum by quantum, to the first that is short.
WithQuantum(f, r, q, b) ==
    LET short == Len(q.buf) < 4 IN
    [used |-> Rollback(q), out |-> r.out \o b.bytes, done |-> short,
     ok |-> /\ r.ok
            /\ short /\ f.term # "ANY" => b.left = 0
            /\ short /\ f.pad = "YES" => Len(q.buf) + q.pads = 4]
NextQuanta(f, r, q) == WithQuantum(f, r, q, Bytes(q.buf))
Quanta(f, t) ==
    FoldLeft(LAMBDA r, ch : IF r.done \/ r.used = Len(t) THEN r
                            ELSE NextQuanta(f, r, NextQuantum(f, t, r.used)),
             [used |-> 0, out |-> <<>>, done |-> FALSE, ok |-> TRUE], t)
Decoded(f, t) ==
    LET r == Quanta(f, t)
    IN  [r EXCEPT !.ok = @ /\ (f.term = "BUFFER" => r.used = Len(t))]

\* What was encoded is decoded, as it is or without its padding.
Encode64 ==
    /\ call' = "base64" /\ source' \in Texts(Byte, MaxBytes)
    /\ flags' \in Flags
    /\ coded' = Out(IF flags'.pad = "NO"
                    THEN SelectSeq(Encoded(source'), LAMBDA ch : ch # pd)
                    ELSE Encoded(source'))
    /\ LET d == Decoded(flags', coded'.out) IN
       /\ decoded' = [Nothing EXCEPT !.out = d.out, !.stop = ~d.ok]
       /\ used' = d.used
    /\ UNCHANGED <<room, fields>>

\* Any text is decoded; source is then its result, for encoding it again.
Decode64 ==
    /\ call' = "base64" /\ \E t \in Texts(Char, MaxChars) : coded' = Out(t)
    /\ flags' \in {Strict, [Strict EXCEPT !.parse = "WHITE"],
                    [parse |-> "ANY", pad |-> "ANY", term |-> "ANY"]}
    /\ LET d == Decoded(flags', coded'.out) IN
       /\ decoded' = [Nothing EXCEPT !.out = d.out, !.stop = ~d.ok]
       /\ used' = d.used /\ source' = d.out
    /\ UNCHANGED <<room, fields>>

Next ==
    /\ call = "none"
    /\ \/ Encode64 \/ Decode64
       \/ (Encode \/ Decode \/ Hex \/ Utf8 \/ Split) /\ UNCHANGED <<flags, used>>

Spec == Init /\ [][Next]_vars

-----------------------------------------------------------------------------

TypeOK ==
    /\ call \in Codec \cup {"none", "decode", "hex", "utf8", "split", "tokenize", "marks",
                          "base64"}
    /\ coded.pos <= Len(source) /\ decoded.stop \in BOOLEAN
    /\ flags \in Flags /\ used \in -1 .. Len(coded.out)
    /\ call = "base64" => \A i \in DOMAIN decoded.out : decoded.out[i] \in 0 .. 255

\* What an encoder puts into a buffer, however short, decodes to the part of
\* the source that it encoded: no piece is cut in two, and nothing that was
\* not escaped reads as an escape.  For html the source must be UTF-8.
Whole(s) == FoldLeft(LAMBDA r, i :
                         IF r < 0 \/ r >= Len(s) THEN r
                         ELSE LET take == Utf8Decode(SubSeq(s, r + 1, Len(s))).take
                              IN  IF take = 0 THEN -1 ELSE r + take,
                     0, [i \in DOMAIN s |-> i]) = Len(s)
DecodesWhatItEncoded ==
    call \in Codec =>
        /\ Len(coded.out) < room
        /\ (call = "html" => Whole(source)) =>
               decoded.out = SubSeq(source, 1, coded.pos) /\ ~decoded.stop
        /\ coded.stop \/ Len(coded.out) + 1 >= room \/ coded.pos = Len(source)

\* A decoder can work in place: it never writes what it has yet to read.
InPlace == ~decoded.ahead

\* Hexadecimal and UTF-8 are read back.
HexAndUtf8Back ==
    call \in {"hex", "utf8"} /\ coded.out # <<>> =>
        decoded.out = source /\ Len(coded.out) <= room

\* The delimiters of a list and nothing else are taken out, and so are the
\* marks.  An opening mark must follow a delimiter.
Joined(fs) == FlattenSeq([i \in DOMAIN fs |-> IF i = 1 THEN fs[i] ELSE <<44>> \o fs[i]])
Text(s) == SelectSeq(s, LAMBDA ch : ch # 44 /\ ch # 34)
Opening(s) == {i \in DOMAIN s : s[i] = 34 /\ Cardinality({j \in 1 .. i : s[j] = 34}) % 2 = 1}
ListsKept ==
    /\ call = "split" => Joined(fields) = source
    /\ call = "tokenize" =>
           FlattenSeq(fields) = SelectSeq(source, LAMBDA ch : ch # 44)
    /\ call = "marks" /\ (\A i \in Opening(source) : i > 1 => source[i - 1] \in {34, 44})
           => Text(FlattenSeq(fields)) = Text(source)

\* What Base64 encoded decodes to itself under all flags, and nothing else does
\* under the strict ones: a strict decoder accepts a text only if it is the
\* encoding of its result, but for white space when that is allowed.
DecodesOwn ==
    call = "base64" =>
        /\ coded.out = Encoded(source) \/ flags.pad = "NO" =>
               ~decoded.stop /\ decoded.out = source /\ used = Len(coded.out)
        /\ flags.pad = "YES" /\ flags.term = "BUFFER" /\ flags.parse # "ANY" /\ ~decoded.stop
               => SelectSeq(coded.out, LAMBDA ch : ch # sp) = Encoded(decoded.out)

\* A decoder leaves room for the terminator.  It does not hold: a reference to
\* a character of several bytes may fill the buffer.
TerminatorFits == call = "decode" => Len(decoded.out) < room
=============================================================================
