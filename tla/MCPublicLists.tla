--------------------------- MODULE MCPublicLists ---------------------------
(***************************************************************************)
(* PublicLists and Restore for TLC.  An int has two bits, so that sums     *)
(* overflow; the texts are the ones the code treats differently.           *)
(***************************************************************************)
EXTENDS Restore

MCItems == {<<"milk">>, <<"soy", "-", "milk">>}

MCRemarks == {<<"cold">>}

Word       == [stoi |-> Invalid, isNumber |-> FALSE, sql |-> Invalid]
NullText   == [stoi |-> Invalid, isNumber |-> FALSE, sql |-> Null]
OneAndWord == [stoi |-> 1, isNumber |-> FALSE, sql |-> Invalid]

MCQuantityTexts ==
    {Numeral(-1), Numeral(0), Numeral(1), Numeral(2), Word, NullText, OneAndWord}

\* Usernames are only compared for equality.
Symmetry == Permutations(Usernames)

MCGroupName == [g \in Codes |-> "name"]
=============================================================================
