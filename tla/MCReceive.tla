----------------------------- MODULE MCReceive -----------------------------
(***************************************************************************)
(* Receive for TLC, with the table of Config.h: every code from below its  *)
(* first to above its last entry, every short text over the characters     *)
(* that matter, and requests whose pieces and sums are hard to tell apart. *)
(***************************************************************************)
EXTENDS Receive

Entries == <<1, 2, 3, 10, 11, 12, 13, 14, 15, 16, 20, 21, 22, 23, 24, 30, 40,
             101, 102, 103, 104, 105, 110, 111, 112, 113, 114, 120, 121, 122,
             123, 124, 125, 130, 131, 200, 201, 202, 203, 220, 221, 300, 301, 400, 500>>

Table == [i \in 0 .. Len(Entries) - 1 |-> Entries[i + 1]]

TableLength == Len(Entries)

LookedUp == -1 .. 502

Request(c, args) ==
    LET request == [code |-> c, args |-> args] IN [text |-> Encode(request), request |-> request]

Other(chars) == [text |-> chars, request |-> Invalid]

Short == [1 .. 4 -> {"@", "|", "1", "a", "-"}] \cup [1 .. 5 -> {"@", "|", "1", "a", "-"}]
         \cup [1 .. 6 -> {"@", "|", "1", "-"}]

MCAlone == {Other(chars) : chars \in Short} \cup {Request(c, <<>>) : c \in LookedUp}

MCMixed ==
    {Request(3, <<>>), Request(11, << <<"@", "3">> >>), Request(11, << <<>> >>),
     Request(11, << <<"a">>, <<"a">> >>),
     Other(<<"@", "3", "|", "|", NUL>>), Other(<<"@", "3", "|", "'", "|", "|">>)}
=============================================================================
