-------------------------------- MODULE ByteText --------------------------------
(***************************************************************************)
(* parse_code_text of bme_core.cpp: the bytes that a text in one of three  *)
(* notations stands for - hex pairs, \x escapes, or a braced array of      *)
(* 0x-prefixed values.  One action per iteration of the notation's loop.   *)
(* Characters are those the parser tells apart; positions count from 0.    *)
(***************************************************************************)
EXTENDS Integers, Sequences, FiniteSets, SequencesExt

Digits == {"0", "1", "F"}
Value(digit) == CASE digit = "0" -> 0 [] digit = "1" -> 1 [] digit = "F" -> 15

Space      == " "
Comma      == ","
OpenBrace  == "{"
CloseBrace == "}"
Backslash  == "\\"

Chars == Digits \cup {"x", OpenBrace, CloseBrace, Comma, Backslash, Space, "?"}

VARIABLES
    text,
    position,
    notation,  \* "start", then the loop the parser is in, then "parsed" or "invalid"
    parsed     \* result

textvars == <<text, position, notation, parsed>>

TextInit(t) ==
    /\ text = t
    /\ position = 0
    /\ notation = "start"
    /\ parsed = <<>>

Size    == Len(text)
Char(p) == text[p + 1]

\* The first position from p on that is not of the class, or the end.
SkipWhile(class, p) ==
    CHOOSE q \in p .. Size :
        /\ \A r \in p .. q - 1 : Char(r) \in class
        /\ q = Size \/ Char(q) \notin class

skip_whitespace(p) == SkipWhile({Space}, p)

\* parse_byte: two hex digits at p.
parse_byte_ok(p) == p + 1 < Size /\ Char(p) \in Digits /\ Char(p + 1) \in Digits
parse_byte(p)    == 16 * Value(Char(p)) + Value(Char(p + 1))

Invalid ==
    /\ notation' = "invalid"
    /\ UNCHANGED <<text, position, parsed>>

Parsed(bytes) ==
    /\ notation' = "parsed"
    /\ parsed' = bytes
    /\ UNCHANGED <<text, position>>

Continue(loop, p, bytes) ==
    /\ notation' = loop
    /\ position' = p
    /\ parsed' = bytes
    /\ UNCHANGED text

StartParse ==
    LET p == skip_whitespace(0)
    IN  /\ notation = "start"
        /\ CASE p = Size       -> Invalid
             [] p < Size /\ Char(p) = OpenBrace  -> Continue("braces", p + 1, <<>>)
             [] p < Size /\ Char(p) = Backslash -> Continue("escapes", p, <<>>)
             [] OTHER                      -> Continue("pairs", p, <<>>)

\* Wrong: an array may end right after a value whose comma was forgotten.
ParseBraces_lenient ==
    LET p     == skip_whitespace(position)
        start == p + 2
        end   == SkipWhile(Digits, start)
        next  == skip_whitespace(end)
    IN  /\ notation = "braces"
        /\ CASE p = Size -> Invalid
             [] p < Size /\ Char(p) = CloseBrace ->
                    IF skip_whitespace(p + 1) = Size /\ parsed # <<>> THEN Parsed(parsed) ELSE Invalid
             [] p < Size /\ Char(p) # CloseBrace ->
                    IF Size - p < 3 \/ Char(p) # "0" \/ Char(p + 1) # "x" THEN Invalid
                    ELSE IF end = start \/ end - start > 2 THEN Invalid
                    ELSE Continue("braces", IF next < Size /\ Char(next) = Comma THEN next + 1 ELSE next,
                                  Append(parsed, Value(Char(end - 1))
                                      + (IF end - start = 2 THEN 16 * Value(Char(start)) ELSE 0)))

\* Wrong: a value that has a comma after it is looked at and not passed.
ParseBraces_stuck ==
    LET p     == skip_whitespace(position)
        start == p + 2
        end   == SkipWhile(Digits, start)
        next  == skip_whitespace(end)
        byte  == Value(Char(end - 1)) + (IF end - start = 2 THEN 16 * Value(Char(start)) ELSE 0)
    IN  /\ notation = "braces"
        /\ CASE p = Size -> Invalid
             [] p < Size /\ Char(p) = CloseBrace ->
                    IF skip_whitespace(p + 1) = Size /\ parsed # <<>> THEN Parsed(parsed) ELSE Invalid
             [] p < Size /\ Char(p) # CloseBrace ->
                    IF Size - p < 3 \/ Char(p) # "0" \/ Char(p + 1) # "x" THEN Invalid
                    ELSE IF end = start \/ end - start > 2 THEN Invalid
                    ELSE IF next < Size /\ Char(next) = CloseBrace
                         THEN Continue("braces", next, Append(parsed, byte))
                    ELSE IF next < Size /\ Char(next) = Comma
                         THEN Continue("braces", p, parsed)
                    ELSE Invalid

\* One value of the array and the comma after it, or the closing brace.  A comma
\* before the brace is accepted.
ParseBraces ==
    LET p     == skip_whitespace(position)
        start == p + 2
        end   == SkipWhile(Digits, start)
        next  == skip_whitespace(end)
        byte  == Value(Char(end - 1)) + (IF end - start = 2 THEN 16 * Value(Char(start)) ELSE 0)
    IN  /\ notation = "braces"
        /\ CASE p = Size -> Invalid
             [] p < Size /\ Char(p) = CloseBrace ->
                    IF skip_whitespace(p + 1) = Size /\ parsed # <<>> THEN Parsed(parsed) ELSE Invalid
             [] p < Size /\ Char(p) # CloseBrace ->
                    IF Size - p < 3 \/ Char(p) # "0" \/ Char(p + 1) # "x" THEN Invalid
                    ELSE IF end = start \/ end - start > 2 THEN Invalid
                    ELSE IF next < Size /\ Char(next) = CloseBrace
                         THEN Continue("braces", next, Append(parsed, byte))
                    ELSE IF next < Size /\ Char(next) = Comma
                         THEN Continue("braces", next + 1, Append(parsed, byte))
                    ELSE Invalid

ParseEscapes ==
    LET p == skip_whitespace(position)
    IN  /\ notation = "escapes"
        /\ IF p = Size THEN Parsed(parsed)
           ELSE IF Size - p < 4 \/ Char(p) # Backslash \/ Char(p + 1) # "x" THEN Invalid
           ELSE IF ~parse_byte_ok(p + 2) THEN Invalid
           ELSE Continue("escapes", p + 4, Append(parsed, parse_byte(p + 2)))

\* Whitespace may separate pairs but not the digits of one.
ParsePairs ==
    /\ notation = "pairs"
    /\ IF position = Size THEN Parsed(parsed)
       ELSE IF Char(position) = Space THEN Continue("pairs", position + 1, parsed)
       ELSE IF parse_byte_ok(position)
            THEN Continue("pairs", position + 2, Append(parsed, parse_byte(position)))
       ELSE Invalid

ParseStep == StartParse \/ ParseBraces \/ ParseEscapes \/ ParsePairs

\* format_code_text, which the UI uses to put the bytes of a file in its field: two
\* digits for each byte, and a space between two bytes.
format_code_text(bytes) ==
    LET Digit(v) == CHOOSE d \in Digits : Value(d) = v
        Of(i)    == bytes[(i + 2) \div 3]
    IN  [ i \in 1 .. 3 * Len(bytes) - 1 |->
            CASE i % 3 = 1 -> Digit(Of(i) \div 16)
              [] i % 3 = 2 -> Digit(Of(i) % 16)
              [] i % 3 = 0 -> Space ]

-----------------------------------------------------------------------------
(* What the notations mean, said of the places of a text (from 1 on) and   *)
(* not of a scan: which places begin a byte, and whether each of them      *)
(* does so properly.                                                       *)

\* The places of what is not whitespace.
Ink(s) == { i \in 1 .. Len(s) : s[i] # Space }

\* Where the word of place i begins.
WordStart(s, i) == Max({0} \cup { j \in 1 .. i - 1 : s[j] = Space }) + 1

\* Every word is made of groups of n characters: a prefix and two digits.
WholeGroupsBefore(s, i, n) == (i - WordStart(s, i)) % n = 0
GroupStarts(s, n) == { i \in Ink(s) : WholeGroupsBefore(s, i, n) }

IsGroup(s, i, n) ==
    /\ i + n - 1 <= Len(s)
    /\ n = 4 => s[i] = Backslash /\ s[i + 1] = "x"
    /\ s[i + n - 2] \in Digits /\ s[i + n - 1] \in Digits

\* In an array a value begins after the opening brace or after a comma, unless
\* the array ends there.
ItemStarts(s) ==
    { i \in Ink(s) :
        /\ \E j \in Ink(s) : i < j
        /\ \E j \in Ink(s) :
             /\ j < i /\ \A k \in Ink(s) : k <= j \/ i <= k
             /\ s[j] = Comma \/ \A k \in Ink(s) : j <= k }

LastDigit(s, i) == IF i + 3 <= Len(s) /\ s[i + 3] \in Digits THEN i + 3 ELSE i + 2

\* A value is 0x and one or two digits; a comma comes next, or the end.
IsItem(s, i) ==
    /\ i + 2 <= Len(s)
    /\ s[i] = "0" /\ s[i + 1] = "x" /\ s[i + 2] \in Digits
    /\ \E j \in Ink(s) :
         /\ LastDigit(s, i) < j /\ \A k \in Ink(s) : k <= LastDigit(s, i) \/ j <= k
         /\ s[j] = Comma \/ \A k \in Ink(s) : k <= j

Notation(s) ==
    LET first == Min(Ink(s))
    IN  CASE s[first] = OpenBrace  -> "braces"
          [] s[first] = Backslash -> "escapes"
          [] OTHER           -> "pairs"

\* A text that means something.
Readable(s) ==
    /\ Ink(s) # {}
    /\ CASE Notation(s) = "braces"  -> /\ s[Max(Ink(s))] = CloseBrace
                                       /\ ItemStarts(s) # {}
                                       /\ \A i \in ItemStarts(s) : IsItem(s, i)
         [] Notation(s) = "escapes" -> \A i \in GroupStarts(s, 4) : IsGroup(s, i, 4)
         [] Notation(s) = "pairs"   -> \A i \in GroupStarts(s, 2) : IsGroup(s, i, 2)

\* The byte that begins at each place.
GroupBytes(s, n) ==
    [ i \in GroupStarts(s, n) |-> 16 * Value(s[i + n - 2]) + Value(s[i + n - 1]) ]
ItemBytes(s) ==
    [ i \in ItemStarts(s) |->
        IF LastDigit(s, i) = i + 2 THEN Value(s[i + 2])
        ELSE 16 * Value(s[i + 2]) + Value(s[i + 3]) ]

BytesAt(s) == CASE Notation(s) = "braces"  -> ItemBytes(s)
                [] Notation(s) = "escapes" -> GroupBytes(s, 4)
                [] Notation(s) = "pairs"   -> GroupBytes(s, 2)

\* bytes are those that begin at the places up to p, in their order.
Rank(at, i) == Cardinality({ j \in DOMAIN at : j <= i })
InOrderTo(bytes, at, p) ==
    /\ Len(bytes) = Rank(at, p)
    /\ \A i \in DOMAIN at : i <= p => bytes[Rank(at, i)] = at[i]

Means(s, bytes) == Readable(s) /\ InOrderTo(bytes, BytesAt(s), Len(s))

\* The parser accepts exactly the texts that mean something, with the bytes they
\* mean, and reads back what format_code_text writes.
ParseAgrees ==
    /\ notation = "parsed" => Means(text, parsed) /\ parsed # <<>>
    /\ notation = "invalid" => ~Readable(text)
    /\ notation = "parsed" => Means(format_code_text(parsed), parsed)
===============================================================================
