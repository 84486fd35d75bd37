------------------------------- MODULE Texts -------------------------------
(***************************************************************************)
(* Texts as sequences of characters, for the modules that take messages    *)
(* apart.                                                                  *)
(***************************************************************************)
EXTENDS Integers, SequencesExt

\* A separator begins a new piece, any other character goes to the last one.
Extended(pieces, ch, separator) ==
    IF ch = separator THEN Append(pieces, <<>>)
                      ELSE Append(Front(pieces), Append(Last(pieces), ch))

\* The pieces of a text between separators: one more than there are separators.
Pieces(text, separator) ==
    LET upTo[k \in 0 .. Len(text)] ==
            IF k = 0 THEN << <<>> >> ELSE Extended(upTo[k - 1], text[k], separator)
    IN  upTo[Len(text)]

\* Pieces, each of them followed by a separator, as one text.
Terminated(pieces, separator) ==
    FlattenSeq([k \in DOMAIN pieces |-> pieces[k] \o <<separator>>])
=============================================================================
