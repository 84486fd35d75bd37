------------------------------- MODULE Parser -------------------------------
(***************************************************************************)
(* Parser: from the text of a message to its code and arguments.  A text   *)
(* is a sequence of characters.  The checks of the constructor are here in *)
(* their order; the last one is the search of module FindMsgCode.          *)
(***************************************************************************)
EXTENDS FindMsgCode, Texts

CONSTANT
    Invalid   \* what stoi returns where it throws

Digits == <<"0", "1", "2", "3", "4", "5", "6", "7", "8", "9">>

DigitValue(c) == CHOOSE d \in 0 .. 9 : Digits[d + 1] = c

Value(digits) ==
    LET upTo[k \in 0 .. Len(digits)] ==
            IF k = 0 THEN 0 ELSE 10 * upTo[k - 1] + DigitValue(digits[k])
    IN  upTo[Len(digits)]

\* The longest prefix of digits.
DigitPrefix(text) ==
    LET stops == {k \in DOMAIN text : ~Contains(Digits, text[k])}
    IN  IF stops = {} THEN text ELSE SubSeq(text, 1, Min(stops) - 1)

\* A sign and digits; what follows them is ignored.  (Leading blanks and a plus
\* sign are left out.)
stoi(text) ==
    LET negative == text # <<>> /\ Head(text) = "-"
        digits   == DigitPrefix(IF negative THEN Tail(text) ELSE text)
    IN  CASE digits = <<>> -> Invalid
          [] digits # <<>> /\ negative -> -Value(digits)
          [] OTHER -> Value(digits)

same_char_in_a_row(text, ch) ==
    \E k \in 1 .. Len(text) - 1 : text[k] = ch /\ text[k + 1] = ch

\* getline finds nothing after a separator at the end.
split(text, ch) == IF Last(Pieces(text, ch)) = <<>> THEN Front(Pieces(text, ch))
                                                    ELSE Pieces(text, ch)

\* The text of the code, and the arguments: the first piece without its @, and
\* the pieces after it but the last one, which is empty.
CodeText(text) == Tail(split(text, "|")[1])
ArgumentsAll(text) == Tail(split(text, "|"))
Arguments(text) == Front(Tail(split(text, "|")))

TooShort(text) == Len(text) < 4

HasQuoteOrDashes(text) == Contains(text, "'") \/ same_char_in_a_row(text, "-")

UnframedStart(text) == text[1] # "@"
Unframed(text) == text[1] # "@" \/ text[Len(text)] # "|" \/ text[Len(text) - 1] # "|"

EmptyArgumentUnchecked(text) == FALSE
EmptyArgument(text) == same_char_in_a_row(Front(text), "|")

\* The exception the constructor throws before it looks up the code, or "none".
Verdict(text) ==
    CASE TooShort(text) -> "SyntaxErrorException"
      [] ~TooShort(text) /\ HasQuoteOrDashes(text) -> "SqlInjectionException"
      [] ~TooShort(text) /\ ~HasQuoteOrDashes(text) /\ (Unframed(text) \/ EmptyArgument(text))
            -> "SyntaxErrorException"
      [] OTHER -> IF stoi(CodeText(text)) = Invalid THEN "InvalidCodeNumberException" ELSE "none"
=============================================================================
