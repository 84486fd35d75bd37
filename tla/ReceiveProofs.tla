---------------------------- MODULE ReceiveProofs ----------------------------
(***************************************************************************)
(* FIND_MSG_CODE is right for every sorted table and every code, and, when *)
(* it is part of the server, never reads outside the table.  A message is  *)
(* what recv returned, for every size of the buffer and all texts that     *)
(* clients send, but for the two exceptions that TextIsReceived names.     *)
(* What Parser accepts was sent, loses nothing between the separators, and *)
(* a request that arrives alone is understood as the client meant it.      *)
(***************************************************************************)
EXTENDS Receive, TextsProofs

(***************************************************************************)
(* The search by itself.  The inductive invariant is the one of every      *)
(* binary search: if the code is in the table at all, it is between left   *)
(* and right.                                                              *)
(***************************************************************************)
Bounds ==
    /\ code \in Int
    /\ left \in 0 .. N
    /\ right \in -1 .. N - 1
    /\ pc \in {"loop", "true", "false"}

Narrowed ==
    \A i \in 0 .. N - 1 : ALL_MESSAGES_CODES[i] = code => left <= i /\ i <= right

SearchInv == Bounds /\ Narrowed /\ SearchCorrect

\* The middle of a range that is not empty lies in the range.
LEMMA MiddleInRange ==
    ASSUME NEW l \in Int, NEW r \in Int, l <= r
    PROVE  /\ (l + r) \div 2 \in Int
           /\ l <= (l + r) \div 2 /\ (l + r) \div 2 <= r
  OBVIOUS

\* Every round of the loop keeps the code, if it is there, within the range.
LEMMA SearchStep == SearchInv /\ [FIND_MSG_CODE]_vars => SearchInv'
<1> USE SortedAssumption
<1> SUFFICES ASSUME SearchInv, [FIND_MSG_CODE]_vars PROVE SearchInv'
  OBVIOUS
<1> USE DEF SearchInv, Bounds
<1>1. CASE UNCHANGED vars
  BY <1>1 DEF vars, Narrowed, SearchCorrect
<1>2. CASE FIND_MSG_CODE
  <2>1. CASE ~Loops /\ pc' = "false" /\ UNCHANGED <<code, left, right>>
    <3>1. \A i \in 0 .. N - 1 : ALL_MESSAGES_CODES[i] # code
      BY <2>1 DEF Narrowed, Loops
    <3>2. QED
      BY <2>1, <3>1 DEF Narrowed, SearchCorrect
  <2>2. CASE /\ Loops /\ pc = "loop" /\ ALL_MESSAGES_CODES[middle] > code
             /\ right' = middle - 1 /\ UNCHANGED <<code, left, pc>>
    <3>1. middle \in 0 .. N - 1 /\ left <= middle
      BY <2>2, MiddleInRange DEF Loops, middle
    <3>2. ASSUME NEW i \in 0 .. N - 1, ALL_MESSAGES_CODES[i] = code
          PROVE  left <= i /\ i <= middle - 1
      <4>1. i < middle
        BY <2>2, <3>1, <3>2
      <4>2. QED
        BY <4>1, <3>1, <3>2 DEF Narrowed
    <3>3. QED
      BY <2>2, <3>1, <3>2 DEF Narrowed, SearchCorrect
  <2>3. CASE /\ Loops /\ pc = "loop" /\ ALL_MESSAGES_CODES[middle] < code
             /\ left' = AboveMiddle /\ UNCHANGED <<code, right, pc>>
    <3>1. middle \in 0 .. N - 1 /\ middle <= right
      BY <2>3, MiddleInRange DEF Loops, middle
    <3>2. ASSUME NEW i \in 0 .. N - 1, ALL_MESSAGES_CODES[i] = code
          PROVE  middle + 1 <= i /\ i <= right
      <4>1. middle < i
        BY <2>3, <3>1, <3>2
      <4>2. QED
        BY <4>1, <3>1, <3>2 DEF Narrowed
    <3>3. QED
      BY <2>3, <3>1, <3>2 DEF Narrowed, SearchCorrect, AboveMiddle
  <2>4. CASE /\ Loops /\ ALL_MESSAGES_CODES[middle] = code
             /\ pc' = "true" /\ UNCHANGED <<code, left, right>>
    <3>1. middle \in 0 .. N - 1
      BY <2>4, MiddleInRange DEF Loops, middle
    <3>2. QED
      BY <2>4, <3>1 DEF Narrowed, SearchCorrect
  <2>5. QED
    BY <1>2, <2>1, <2>2, <2>3, <2>4 DEF FIND_MSG_CODE
<1>3. QED
  BY <1>1, <1>2

\* At the start the whole table is the range.
LEMMA SearchInit == Init => SearchInv
  BY SortedAssumption
  DEF Init, LastIndex, SearchInv, Bounds, Narrowed, SearchCorrect

\* FIND_MSG_CODE returns true exactly for the codes of the table.
THEOREM SearchIsCorrect == Spec => []SearchCorrect
<1>1. SearchInv => SearchCorrect
  BY DEF SearchInv
<1>2. QED
  BY SearchInit, SearchStep, <1>1, PTL DEF Spec

\* FIND_MSG_CODE never reads outside the table.
THEOREM SearchIsInBounds == Spec => []InBounds
<1>1. SearchInv => InBounds
  BY SortedAssumption, MiddleInRange DEF SearchInv, Bounds, InBounds, middle
<1>2. QED
  BY SearchInit, SearchStep, <1>1, PTL DEF Spec
-----------------------------------------------------------------------------
(***************************************************************************)
(* The search as part of Parser.  What the code is does not matter here.   *)
(***************************************************************************)
IndicesFit ==
    pc \in {"loop", "true", "false"} => left \in 0 .. N /\ right \in -1 .. N - 1

LEMMA IndicesStep == IndicesFit /\ [RNext]_rvars => IndicesFit'
<1> SUFFICES ASSUME IndicesFit, [RNext]_rvars PROVE IndicesFit'
  OBVIOUS
<1> USE SortedAssumption DEF IndicesFit
<1>1. CASE UNCHANGED vars
  BY <1>1 DEF vars
<1>2. CASE pc' \in {"recv", "parse"}
  BY <1>2
<1>3. CASE parse
  <2>1. pc' = "recv" \/ (left' = 0 /\ right' = LastIndex)
    BY <1>3 DEF parse
  <2>2. QED
    BY <2>1 DEF LastIndex
<1>4. CASE FIND_MSG_CODE
  <2>1. CASE Loops
    <3>1. middle \in 0 .. N - 1
      BY <1>4, <2>1, MiddleInRange DEF FIND_MSG_CODE, Loops, middle
    <3>2. left' \in {left, middle + 1} /\ right' \in {right, middle - 1}
      BY <1>4, <2>1 DEF FIND_MSG_CODE, AboveMiddle
    <3>3. QED
      BY <1>4, <3>1, <3>2 DEF FIND_MSG_CODE
  <2>2. CASE ~Loops
    BY <1>4, <2>2 DEF FIND_MSG_CODE
  <2>3. QED
    BY <2>1, <2>2
<1>5. ASSUME NEW m, send(m) PROVE UNCHANGED vars
  BY <1>5 DEF send
<1>6. ASSUME NEW k, recv(k) PROVE UNCHANGED vars \/ pc' = "parse"
  BY <1>6 DEF recv, recvShort, recvMessage
<1>7. search => FIND_MSG_CODE
  BY DEF search
<1>8. parsed => pc' = "recv"
  BY DEF parsed
<1>9. CASE UNCHANGED rvars
  BY <1>1, <1>9 DEF rvars
<1>10. QED
  BY <1>1, <1>2, <1>3, <1>4, <1>5, <1>6, <1>7, <1>8, <1>9 DEF RNext

\* FIND_MSG_CODE never reads outside the table, whatever text it was called on.
THEOREM RequestsAreInBounds == RSpec => []InBounds
<1>1. RInit => IndicesFit
  BY DEF RInit, IndicesFit
<1>2. IndicesFit => InBounds
  BY SortedAssumption, MiddleInRange DEF IndicesFit, InBounds, middle
<1>3. QED
  BY <1>1, <1>2, IndicesStep, PTL DEF RSpec
-----------------------------------------------------------------------------
(***************************************************************************)
(* The buffer                                                              *)
(***************************************************************************)
\* (Literals are strings; the provers do not know that they are in STRING.)
Byte == STRING \cup {NUL, "junk", "@", "|", "-"} \cup {Digits[i] : i \in 1 .. 10}

BytesOK ==
    /\ sent \in Seq(Alone \cup Mixed)
    /\ stream \in Seq(Byte)
    /\ chunk \in Seq(Byte) /\ Len(chunk) <= BufLen

NoNUL == \A k \in DOMAIN sent : ~Contains(sent[k].text, NUL)

\* The last chunk is at the start of bytes, and behind it there are only NULs.
Holds(bytes, seq) ==
    bytes = [k \in 1 .. BufLen |-> IF k <= Len(seq) THEN seq[k] ELSE NUL]

\* As long as no client has sent a NUL there is none under way, and _buffer
\* holds the last chunk.
Clean ==
    NoNUL =>
        /\ ~Contains(stream, NUL) /\ ~Contains(chunk, NUL)
        /\ Holds(buffer, chunk)
        /\ text = chunk \/ Len(chunk) = BufLen

ReceiveInv == BytesOK /\ Clean

\* What clients send is made of bytes.
LEMMA SentType == \A m \in Alone \cup Mixed : m.text \in Seq(Byte)
<1>1. STRING \subseteq Byte
  BY Zenon DEF Byte
<1>2. PICK S, B : S = STRING /\ B = Byte
  BY Zenon
<1>3. S \subseteq B
  BY <1>1, <1>2, Zenon
<1>4. \A t \in Seq(S) : t \in Seq(B)
  BY <1>3
<1>5. QED
  BY <1>2, <1>4, TextsAssumption, Zenon

LEMMA NULIsByte == NUL \in Byte
  BY DEF Byte

\* The string in a buffer that holds a chunk is the chunk, and as long.
LEMMA StringIsChunk ==
    ASSUME NEW bytes, NEW seq \in Seq(Byte), Len(seq) <= BufLen, ~Contains(seq, NUL),
           Holds(bytes, seq)
    PROVE  CString(bytes) = seq /\ Len(CString(bytes)) = Len(seq)
<1>1. BufLen \in Nat /\ Len(seq) \in Nat /\ DOMAIN seq = 1 .. Len(seq)
  BY ReceiveAssumption
<1>2. DOMAIN bytes = 1 .. BufLen
  BY DEF Holds
<1>3. \A k \in 1 .. BufLen : bytes[k] = IF k <= Len(seq) THEN seq[k] ELSE NUL
  BY DEF Holds
<1>4. \A k \in 1 .. Len(seq) : seq[k] # NUL
  BY DEF Contains
<1>5. PICK ends : ends = {k \in DOMAIN bytes : bytes[k] = NUL}
  OBVIOUS
<1>6. ends = (Len(seq) + 1) .. BufLen
  BY <1>1, <1>2, <1>3, <1>4, <1>5
<1>7. CASE Len(seq) = BufLen
  <2>1. CString(bytes) = bytes
    BY <1>1, <1>5, <1>6, <1>7 DEF CString
  <2>2. bytes = seq
    <3>1. bytes = [k \in 1 .. Len(seq) |-> seq[k]]
      BY <1>1, <1>7 DEF Holds
    <3>2. QED
      BY <1>1, <3>1
  <2>3. QED
    BY <2>1, <2>2
<1>8. CASE Len(seq) < BufLen
  <2>1. Len(seq) + 1 \in ends /\ \A k \in ends : Len(seq) + 1 <= k
    BY <1>1, <1>6, <1>8
  <2>2. Min(ends) = Len(seq) + 1
    <3>1. \A x \in ends : (\A y \in ends : x <= y) => x = Len(seq) + 1
      BY <1>1, <1>6, <2>1
    <3>2. QED
      BY <2>1, <3>1 DEF Min
  <2>3. CString(bytes) = SubSeq(bytes, 1, Len(seq))
    <3>1. CString(bytes) = IF ends = {} THEN bytes ELSE SubSeq(bytes, 1, Min(ends) - 1)
      BY <1>5, Zenon DEF CString
    <3>2. ends # {} /\ Min(ends) - 1 = Len(seq)
      BY <1>1, <2>1, <2>2
    <3>3. QED
      BY <3>1, <3>2
  <2>4. bytes \in Seq(Byte) /\ Len(bytes) = BufLen
    <3>1. \A k \in 1 .. BufLen : bytes[k] \in Byte
      BY <1>1, <1>3, NULIsByte
    <3>2. bytes \in [1 .. BufLen -> Byte]
      BY <3>1 DEF Holds
    <3>3. QED
      BY <1>1, <3>2, SeqDef
  <2>5. /\ SubSeq(bytes, 1, Len(seq)) \in Seq(Byte)
        /\ Len(SubSeq(bytes, 1, Len(seq))) = Len(seq)
        /\ \A k \in 1 .. Len(seq) : SubSeq(bytes, 1, Len(seq))[k] = bytes[k]
    BY <1>1, <1>8, <2>4
  <2>6. SubSeq(bytes, 1, Len(seq)) = seq
    BY <1>1, <1>3, <1>8, <2>5, SeqEqual
  <2>7. QED
    BY <2>3, <2>6
<1>9. Len(seq) = BufLen \/ Len(seq) < BufLen
  <2>1. PICK n \in Nat : n = Len(seq)
    BY <1>1
  <2>2. PICK b \in Nat : b = BufLen
    BY <1>1
  <2>3. n <= b
    BY <2>1, <2>2
  <2>4. n = b \/ n < b
    BY <2>3
  <2>5. QED
    BY <2>1, <2>2, <2>4
<1>10. QED
  BY <1>7, <1>8, <1>9, Zenon

\* Two texts without a NUL have none together, and pieces of one have none.
LEMMA NoNULPieces ==
    ASSUME NEW a \in Seq(Byte), ~Contains(a, NUL)
    PROVE  /\ \A b \in Seq(Byte) : ~Contains(b, NUL) => ~Contains(a \o b, NUL)
           /\ \A k \in 1 .. Len(a) : /\ ~Contains(SubSeq(a, 1, k), NUL)
                                     /\ ~Contains(SubSeq(a, k + 1, Len(a)), NUL)
<1>1. Len(a) \in Nat /\ \A i \in 1 .. Len(a) : a[i] # NUL
  BY DEF Contains
<1>2. ASSUME NEW b \in Seq(Byte), ~Contains(b, NUL) PROVE ~Contains(a \o b, NUL)
  <2>1. Len(b) \in Nat /\ \A i \in 1 .. Len(b) : b[i] # NUL
    BY <1>2 DEF Contains
  <2>2. Len(a \o b) = Len(a) + Len(b)
    BY <1>1, <2>1
  <2>3. ASSUME NEW i \in 1 .. (Len(a) + Len(b)) PROVE (a \o b)[i] # NUL
    <3>1. CASE i <= Len(a)
      BY <1>1, <2>1, <3>1
    <3>2. CASE i > Len(a)
      <4>1. i - Len(a) \in 1 .. Len(b) /\ (a \o b)[i] = b[i - Len(a)]
        BY <1>1, <2>1, <3>2
      <4>2. QED
        BY <2>1, <4>1
    <3>3. QED
      BY <1>1, <3>1, <3>2
  <2>4. QED
    BY <2>2, <2>3 DEF Contains
<1>3. ASSUME NEW k \in 1 .. Len(a)
      PROVE  /\ ~Contains(SubSeq(a, 1, k), NUL)
             /\ ~Contains(SubSeq(a, k + 1, Len(a)), NUL)
  <2>1. /\ Len(SubSeq(a, 1, k)) = k /\ Len(SubSeq(a, k + 1, Len(a))) = Len(a) - k
        /\ \A i \in 1 .. k : SubSeq(a, 1, k)[i] = a[i]
        /\ \A i \in 1 .. (Len(a) - k) : SubSeq(a, k + 1, Len(a))[i] = a[k + i]
    BY <1>1
  <2>2. \A i \in 1 .. (Len(a) - k) : a[k + i] # NUL
    BY <1>1
  <2>3. \A i \in 1 .. k : a[i] # NUL
    BY <1>1
  <2>4. QED
    BY <2>1, <2>2, <2>3 DEF Contains
<1>4. QED
  BY <1>2, <1>3

LEMMA sendKeepsClean ==
    ASSUME ReceiveInv, NEW m \in Alone \cup Mixed, send(m)
    PROVE  ReceiveInv'
<1>1. /\ sent' = Append(sent, m) /\ stream' = stream \o m.text
      /\ UNCHANGED <<buffer, chunk, text>>
  BY DEF send
<1>2. m.text \in Seq(Byte)
  BY SentType
<1>3. BytesOK'
  BY <1>1, <1>2 DEF ReceiveInv, BytesOK
<1>4. ASSUME NoNUL' PROVE NoNUL /\ ~Contains(m.text, NUL)
  <2>1. /\ Len(sent) + 1 \in DOMAIN sent' /\ sent'[Len(sent) + 1] = m
        /\ \A k \in DOMAIN sent : k \in DOMAIN sent' /\ sent'[k] = sent[k]
    BY <1>1 DEF ReceiveInv, BytesOK
  <2>2. QED
    BY <1>4, <2>1 DEF NoNUL
<1>5. ASSUME NoNUL, ~Contains(m.text, NUL) PROVE ~Contains(stream', NUL)
  <2>1. stream \in Seq(Byte) /\ ~Contains(stream, NUL)
    BY <1>5 DEF ReceiveInv, BytesOK, Clean
  <2>2. QED
    BY <1>1, <1>2, <1>5, <2>1, NoNULPieces
<1>6. QED
  BY <1>1, <1>3, <1>4, <1>5 DEF ReceiveInv, Clean

\* The last chunk is cleared away completely, and the next one takes its place.
LEMMA recvKeepsClean ==
    ASSUME ReceiveInv, NEW k \in 1 .. BufLen, k <= Len(stream), recvMessage(k)
    PROVE  ReceiveInv'
<1>1. /\ chunk' = SubSeq(stream, 1, k) /\ stream' = SubSeq(stream, k + 1, Len(stream))
      /\ buffer' = Filled(chunk') /\ text' = CString(buffer') \o junk' /\ UNCHANGED sent
      /\ junk' \in IF Len(CString(buffer')) = BufLen THEN {<<>>, <<"junk">>} ELSE {<<>>}
  BY DEF recvMessage
<1>2. /\ BufLen \in Nat /\ stream \in Seq(Byte) /\ Len(stream) \in Nat
      /\ chunk \in Seq(Byte) /\ Len(chunk) <= BufLen
  BY ReceiveAssumption DEF ReceiveInv, BytesOK
<1>3. /\ chunk' \in Seq(Byte) /\ Len(chunk') = k /\ stream' \in Seq(Byte)
  BY <1>1, <1>2
<1>4. BytesOK'
  BY <1>1, <1>2, <1>3 DEF ReceiveInv, BytesOK
<1>5. ASSUME NoNUL
      PROVE  /\ ~Contains(stream', NUL) /\ ~Contains(chunk', NUL)
             /\ Holds(buffer', chunk')
             /\ text' = chunk' \/ Len(chunk') = BufLen
  <2>1. ~Contains(stream, NUL) /\ ~Contains(chunk, NUL) /\ Holds(buffer, chunk)
    BY <1>5 DEF ReceiveInv, Clean
  <2>2. ~Contains(stream', NUL) /\ ~Contains(chunk', NUL)
    BY <1>1, <1>2, <2>1, NoNULPieces
  <2>3. Len(CString(buffer)) = Len(chunk)
    BY <1>2, <2>1, StringIsChunk
  <2>4. Cleared = [j \in 1 .. BufLen |-> NUL]
    <3>1. Cleared = [j \in 1 .. BufLen |-> IF j <= Len(chunk) THEN NUL ELSE buffer[j]]
      BY <2>3 DEF Cleared
    <3>2. \A j \in 1 .. BufLen : j <= Len(chunk) \/ buffer[j] = NUL
      BY <1>2, <2>1 DEF Holds
    <3>3. QED
      BY <3>1, <3>2
  <2>5. Holds(buffer', chunk')
    BY <1>1, <2>4 DEF Filled, Holds
  <2>6. CString(buffer') = chunk' /\ Len(CString(buffer')) = Len(chunk')
    BY <1>2, <1>3, <2>2, <2>5, StringIsChunk
  <2>7. ASSUME Len(chunk') # BufLen PROVE text' = chunk'
    <3>1. junk' = <<>>
      BY <1>1, <2>6, <2>7
    <3>2. text' = chunk' \o <<>>
      BY <1>1, <2>6, <3>1
    <3>3. QED
      BY <1>3, <3>2
  <2>8. QED
    BY <2>2, <2>5, <2>7
<1>6. NoNUL' => NoNUL
  BY <1>1 DEF NoNUL
<1>7. QED
  BY <1>4, <1>5, <1>6 DEF ReceiveInv, Clean

LEMMA ReceiveStep == ReceiveInv /\ [RNext]_rvars => ReceiveInv'
<1> SUFFICES ASSUME ReceiveInv, [RNext]_rvars PROVE ReceiveInv'
  OBVIOUS
<1>1. CASE UNCHANGED <<sent, stream, buffer, chunk, text>>
  BY <1>1 DEF ReceiveInv, BytesOK, Clean, NoNUL
<1>2. ASSUME NEW m \in Alone \cup Mixed, send(m) PROVE ReceiveInv'
  BY <1>2, sendKeepsClean
<1>3. ASSUME NEW k \in 1 .. BufLen, k <= Len(stream), recv(k) PROVE ReceiveInv'
  <2>1. recvMessage(k) \/ UNCHANGED <<sent, stream, buffer, chunk, text>>
    BY <1>3 DEF recv, recvShort
  <2>2. QED
    BY <1>1, <1>3, <2>1, recvKeepsClean
<1>4. CASE parse \/ search \/ parsed \/ UNCHANGED rvars
  BY <1>1, <1>4 DEF parse, search, parsed, input, rvars
<1>5. QED
  BY <1>2, <1>3, <1>4 DEF RNext

\* At the start _buffer is cleared and nothing is under way.
LEMMA ReceiveInit == RInit => ReceiveInv
<1> SUFFICES ASSUME RInit PROVE ReceiveInv
  OBVIOUS
<1>1. /\ sent = <<>> /\ stream = <<>> /\ chunk = <<>> /\ text = <<>>
      /\ buffer = [k \in 1 .. BufLen |-> NUL] /\ BufLen \in Nat
  BY ReceiveAssumption DEF RInit
<1>2. Len(chunk) = 0 /\ Len(stream) = 0
  BY <1>1
<1>3. Holds(buffer, chunk)
  BY <1>1, <1>2 DEF Holds
<1>4. ~Contains(stream, NUL) /\ ~Contains(chunk, NUL)
  BY <1>2 DEF Contains
<1>5. BytesOK
  BY <1>1, <1>2 DEF BytesOK
<1>6. QED
  BY <1>1, <1>3, <1>4, <1>5 DEF ReceiveInv, Clean

\* The message is what recv returned, unless a client sent a NUL or recv filled
\* the buffer: memset over the length of the string clears what there is to clear.
THEOREM TextIsReceivedHolds == RSpec => []TextIsReceived
<1>1. ReceiveInv => TextIsReceived
  BY DEF ReceiveInv, Clean, NoNUL, TextIsReceived
<1>2. QED
  BY <1>1, ReceiveInit, ReceiveStep, PTL DEF RSpec
-----------------------------------------------------------------------------
(***************************************************************************)
(* What is accepted was sent.  Only pairs of separators are looked at:     *)
(* between framed texts, where one ends the next begins with an @.         *)
(***************************************************************************)
\* Two separators in a row, the end of a request.
PairAt(seq, i) == i \in 1 .. (Len(seq) - 1) /\ seq[i] = "|" /\ seq[i + 1] = "|"

\* What Parser's checks of the frame and of empty arguments let through.
Framed(seq) ==
    /\ seq \in Seq(Byte) /\ Len(seq) >= 3 /\ seq[1] = "@"
    /\ PairAt(seq, Len(seq) - 1)
    /\ \A i \in 1 .. (Len(seq) - 2) : ~PairAt(seq, i)

AllFramed == \A k \in DOMAIN sent : ~Unframed(sent[k].text) /\ ~EmptyArgument(sent[k].text)

\* From an @ to the first pair of separators behind it there is the end of a text
\* that was sent.
EndOfSent(seq) ==
    \E k \in DOMAIN sent : \E p \in 1 .. Len(sent[k].text) :
        seq = SubSeq(sent[k].text, p, Len(sent[k].text))

Traced(seq) ==
    \A j, i \in 1 .. Len(seq) :
        /\ j < i /\ seq[j] = "@" /\ PairAt(seq, i)
        /\ \A p \in j .. (i - 1) : ~PairAt(seq, p)
        => EndOfSent(SubSeq(seq, j, i + 1))

\* A stream of framed texts ends in the end of a text, however it was cut.
EndsInPair(seq) ==
    /\ Len(seq) > 0 => seq[Len(seq)] = "|"
    /\ Len(seq) > 1 => seq[Len(seq) - 1] = "|"

Followed ==
    AllFramed => Traced(stream) /\ Traced(chunk) /\ EndsInPair(stream)

\* After the checks of Parser the text has passed them.
Passed ==
    pc \in {"loop", "true", "false"} \/ (pc = "recv" /\ outcome = "accepted") => Verdict(text) = "none"

\* A piece of a text.
LEMMA Cut ==
    ASSUME NEW s \in Seq(Byte), NEW a \in 1 .. (Len(s) + 1), NEW b \in 0 .. Len(s), a <= b + 1
    PROVE  /\ SubSeq(s, a, b) \in Seq(Byte) /\ Len(SubSeq(s, a, b)) = b - a + 1
           /\ \A i \in 1 .. (b - a + 1) : SubSeq(s, a, b)[i] = s[a + i - 1]
  OBVIOUS

\* Framed is what the two checks of Parser say.
LEMMA FramedIsFramed ==
    ASSUME NEW t \in Seq(Byte), Len(t) > 0, ~Unframed(t), ~EmptyArgument(t)
    PROVE  Framed(t)
<1>1. Len(t) \in Nat /\ t[1] = "@"
  BY DEF Unframed
<1>2. t[Len(t)] = "|" /\ t[Len(t) - 1] = "|"
  BY DEF Unframed
<1>3. Len(t) >= 3
  BY <1>1, <1>2
<1>4. PairAt(t, Len(t) - 1)
  BY <1>1, <1>2, <1>3 DEF PairAt
<1>5. /\ Len(Front(t)) = Len(t) - 1
      /\ \A i \in 1 .. (Len(t) - 1) : Front(t)[i] = t[i]
  BY <1>1, <1>3 DEF Front
<1>6. \A i \in 1 .. (Len(t) - 2) : ~(Front(t)[i] = "|" /\ Front(t)[i + 1] = "|")
  <2>1. Len(Front(t)) - 1 = Len(t) - 2
    BY <1>1, <1>5
  <2> QED
    BY <2>1 DEF EmptyArgument, same_char_in_a_row
<1>7. \A i \in 1 .. (Len(t) - 2) : ~PairAt(t, i)
  BY <1>1, <1>5, <1>6 DEF PairAt
<1> QED
  BY <1>1, <1>3, <1>4, <1>7 DEF Framed

\* A piece of a stream that can be traced back can be traced back.
LEMMA TracedPiece ==
    ASSUME NEW s \in Seq(Byte), Traced(s), NEW a \in 1 .. (Len(s) + 1), NEW b \in 0 .. Len(s), a <= b + 1
    PROVE  Traced(SubSeq(s, a, b))
<1>1. PICK u \in Seq(Byte) : u = SubSeq(s, a, b)
  BY Cut
<1>2. /\ Len(s) \in Nat /\ Len(u) = b - a + 1
      /\ \A i \in 1 .. Len(u) : u[i] = s[a + i - 1]
  BY <1>1, Cut
<1>3. ASSUME NEW p \in 1 .. (Len(u) - 1) PROVE PairAt(u, p) <=> PairAt(s, a + p - 1)
  <2>1. u[p] = s[a + p - 1] /\ u[p + 1] = s[a + p] /\ a + p - 1 \in 1 .. (Len(s) - 1)
    BY <1>2
  <2>2. QED
    BY <2>1 DEF PairAt
<1>4. ASSUME NEW j \in 1 .. Len(u), NEW i \in 1 .. Len(u),
             j < i, u[j] = "@", PairAt(u, i), \A p \in j .. (i - 1) : ~PairAt(u, p)
      PROVE  EndOfSent(SubSeq(u, j, i + 1))
  <2>1. i \in 1 .. (Len(u) - 1)
    BY <1>4 DEF PairAt
  <2>2. PICK jj \in 1 .. Len(s) : jj = a + j - 1
    BY <1>2
  <2>3. PICK ii \in 1 .. Len(s) : ii = a + i - 1
    BY <1>2
  <2>4. jj < ii /\ s[jj] = "@" /\ PairAt(s, ii)
    BY <1>2, <1>3, <1>4, <2>1, <2>2, <2>3
  <2>5. ASSUME NEW p \in jj .. (ii - 1) PROVE ~PairAt(s, p)
    <3>1. PICK q \in 1 .. (Len(u) - 1) : p = a + q - 1 /\ q \in j .. (i - 1)
      <4>1. p - a + 1 \in j .. (i - 1) /\ p = a + (p - a + 1) - 1
        BY <2>2, <2>3
      <4>2. p - a + 1 \in 1 .. (Len(u) - 1)
        BY <4>1, <1>2, <2>1
      <4>3. QED
        BY <4>1, <4>2
    <3>2. QED
      BY <1>3, <1>4, <3>1
  <2>6. EndOfSent(SubSeq(s, jj, ii + 1))
    BY <2>4, <2>5 DEF Traced
  <2>7. SubSeq(u, j, i + 1) = SubSeq(s, jj, ii + 1)
    <3>1. /\ a \in 1 .. Len(s) /\ b \in 1 .. Len(s)
          /\ j \in 1 .. (b - a + 1) /\ i + 1 \in 1 .. (b - a + 1)
      BY <1>2, <2>1
    <3>2. SubSeq(u, j, i + 1) = SubSeq(s, a + j - 1, a + (i + 1) - 1)
      BY <1>1, <3>1, SubSeqOfSubSeq
    <3>3. a + (i + 1) - 1 = ii + 1
      BY <2>3
    <3>4. QED
      BY <2>2, <3>2, <3>3
  <2>8. QED
    BY <2>6, <2>7
<1>5. QED
  BY <1>1, <1>4 DEF Traced

\* What is left of a stream ends as the stream does.
LEMMA EndsPiece ==
    ASSUME NEW s \in Seq(Byte), EndsInPair(s), NEW a \in 1 .. (Len(s) + 1)
    PROVE  EndsInPair(SubSeq(s, a, Len(s)))
<1>1. Len(s) \in 0 .. Len(s) /\ a <= Len(s) + 1
  OBVIOUS
<1>2. PICK u \in Seq(Byte) : u = SubSeq(s, a, Len(s)) /\ Len(u) = Len(s) - a + 1
                            /\ \A i \in 1 .. Len(u) : u[i] = s[a + i - 1]
  BY <1>1, Cut
<1>3. Len(u) > 0 => u[Len(u)] = "|"
  BY <1>2 DEF EndsInPair
<1>4. Len(u) > 1 => u[Len(u) - 1] = "|"
  BY <1>2 DEF EndsInPair
<1>5. QED
  BY <1>2, <1>3, <1>4 DEF EndsInPair

\* Behind the pair at its end, or behind the rest of that pair, a framed text is
\* a new start: nothing runs from the old stream into it.
LEMMA sendKeepsFollowed ==
    ASSUME BytesOK, Followed, NEW m \in Alone \cup Mixed, send(m)
    PROVE  Followed'
<1>1. /\ sent' = Append(sent, m) /\ stream' = stream \o m.text /\ chunk' = chunk
  BY DEF send
<1>2. PICK t \in Seq(Byte) : t = m.text
  BY SentType
<1>3. /\ sent \in Seq(Alone \cup Mixed) /\ Len(sent) + 1 \in DOMAIN sent' /\ sent'[Len(sent) + 1] = m
      /\ \A k \in DOMAIN sent : k \in DOMAIN sent' /\ sent'[k] = sent[k]
  BY <1>1 DEF BytesOK
<1>4. ASSUME NEW seq, EndOfSent(seq) PROVE EndOfSent(seq)'
  BY <1>3, <1>4 DEF EndOfSent
<1>5. SUFFICES ASSUME AllFramed' PROVE Traced(stream)' /\ Traced(chunk)' /\ EndsInPair(stream)'
  BY DEF Followed
<1>6. AllFramed /\ ~Unframed(t) /\ ~EmptyArgument(t)
  BY <1>2, <1>3, <1>5 DEF AllFramed
<1>7. Traced(stream) /\ Traced(chunk) /\ EndsInPair(stream)
  BY <1>6 DEF Followed
<1>8. ASSUME NEW seq, Traced(seq) PROVE Traced(seq)'
  BY <1>4, <1>8 DEF Traced
<1>9. Traced(chunk)'
  BY <1>1, <1>7, <1>8
<1>10. CASE Len(t) = 0
  <2>1. stream' = stream
    BY <1>1, <1>2, <1>10 DEF BytesOK
  <2>2. QED
    BY <2>1, <1>7, <1>8, <1>9 DEF EndsInPair
<1>11. CASE Len(t) > 0
  <2>1. PICK old \in Seq(Byte) : old = stream
    BY DEF BytesOK
  <2>2. PICK n \in Nat : n = Len(old)
    OBVIOUS
  <2>3. PICK l \in Nat : l = Len(t)
    OBVIOUS
  <2>4. PICK new \in Seq(Byte) : new = old \o t
    BY ConcatProperties
  <2>5. /\ stream' = new /\ Len(new) = n + l
        /\ \A i \in 1 .. n : new[i] = old[i]
        /\ \A i \in 1 .. l : new[n + i] = t[i]
    BY <1>1, <1>2, <2>1, <2>2, <2>3, <2>4
  <2>6. Framed(t) /\ l >= 3 /\ t[1] = "@" /\ t[l] = "|" /\ t[l - 1] = "|"
    <3>1. Framed(t)
      BY <1>6, <1>11, FramedIsFramed
    <3>2. l >= 3 /\ t[1] = "@" /\ PairAt(t, l - 1)
      BY <3>1, <2>3 DEF Framed
    <3>3. l - 1 + 1 = l
      OBVIOUS
    <3>4. QED
      BY <3>1, <3>2, <3>3 DEF PairAt
  <2>7. EndsInPair(new)
    <3>1. new[n + l] = "|"
      BY <2>5, <2>6
    <3>2. new[n + (l - 1)] = "|"
      BY <2>5, <2>6
    <3>3. n + (l - 1) = Len(new) - 1 /\ n + l = Len(new)
      BY <2>5
    <3>4. QED
      BY <3>1, <3>2, <3>3 DEF EndsInPair
  <2>8. ASSUME NEW j \in 1 .. (n + l), NEW i \in 1 .. (n + l),
               j < i, new[j] = "@", PairAt(new, i), \A p \in j .. (i - 1) : ~PairAt(new, p)
        PROVE  EndOfSent(SubSeq(new, j, i + 1))'
    <3>1. i <= n + l - 1 /\ new[i] = "|" /\ new[i + 1] = "|"
      BY <2>5, <2>8 DEF PairAt
    <3>2. i # n
      <4>1. new[n + 1] = "@"
        BY <2>5, <2>6
      <4>2. QED
        BY <4>1, <3>1
    <3>3. CASE i < n
      <4>1. PairAt(old, i)
        BY <3>1, <3>3, <2>2, <2>5 DEF PairAt
      <4>2. ASSUME NEW p \in j .. (i - 1) PROVE ~PairAt(old, p)
        <5>1. p \in 1 .. (n - 1) /\ p \in 1 .. (Len(new) - 1) /\ new[p] = old[p] /\ new[p + 1] = old[p + 1]
          BY <3>3, <2>5
        <5>2. ~PairAt(new, p)
          BY <2>8, <4>2
        <5>3. QED
          BY <5>1, <5>2 DEF PairAt
      <4>3. old[j] = "@"
        BY <2>5, <2>8, <3>3
      <4>4. EndOfSent(SubSeq(old, j, i + 1))
        BY <1>7, <2>1, <2>2, <2>8, <3>3, <4>1, <4>2, <4>3 DEF Traced
      <4>5. SubSeq(new, j, i + 1) = SubSeq(old, j, i + 1)
        <5>1. j \in 1 .. Len(old) /\ i + 1 \in 1 .. Len(old)
          BY <2>2, <2>8, <3>3
        <5>2. QED
          BY <2>4, <5>1, SubSeqOfConcat1
      <4>6. QED
        BY <1>4, <4>4, <4>5
    <3>4. CASE i > n
      <4>1. PICK q \in 1 .. (l - 1) : i = n + q
        <5>1. i - n \in 1 .. (l - 1) /\ i = n + (i - n)
          BY <3>1, <3>4
        <5>2. QED
          BY <5>1
      <4>2. t[q] = "|" /\ t[q + 1] = "|"
        <5>1. new[n + q] = t[q] /\ new[n + (q + 1)] = t[q + 1] /\ n + (q + 1) = i + 1
          BY <4>1, <2>5
        <5>2. QED
          BY <5>1, <3>1, <4>1
      <4>3. q = l - 1
        <5>1. PairAt(t, q)
          BY <4>1, <4>2, <2>3 DEF PairAt
        <5>2. ~(q \in 1 .. (l - 2))
          BY <5>1, <2>3, <2>6 DEF Framed
        <5>3. QED
          BY <5>2, <4>1
      <4>4. CASE j > n
        <5>1. j \in Len(old) + 1 .. Len(old) + Len(t) /\ i + 1 \in Len(old) + 1 .. Len(old) + Len(t)
          BY <2>2, <2>3, <2>8, <3>1, <3>4, <4>4
        <5>2. SubSeq(new, j, i + 1) = SubSeq(t, j - Len(old), i + 1 - Len(old))
          BY <2>4, <5>1, SubSeqOfConcat2
        <5>3. i + 1 - Len(old) = Len(t) /\ j - Len(old) \in 1 .. Len(t)
          BY <2>2, <2>3, <4>1, <4>3, <4>4, <2>8
        <5>4. SubSeq(new, j, i + 1) = SubSeq(t, j - Len(old), Len(t))
          BY <5>2, <5>3
        <5>5. QED
          BY <1>2, <1>3, <5>3, <5>4 DEF EndOfSent
      <4>5. CASE j <= n
        <5>1. n > 0 /\ old[j] = "@" /\ old[n] = "|" /\ (n > 1 => old[n - 1] = "|")
          BY <1>7, <2>1, <2>2, <2>5, <2>8, <4>5 DEF EndsInPair
        <5>2. j # n
          BY <5>1
        <5>3. n - 1 \in 1 .. n /\ n \in 1 .. n /\ n - 1 \in 1 .. (Len(new) - 1)
          BY <5>2, <4>5, <2>5
        <5>4. new[n - 1] = "|" /\ new[n - 1 + 1] = "|"
          BY <5>1, <5>3, <2>5
        <5>5. PairAt(new, n - 1)
          BY <5>3, <5>4 DEF PairAt
        <5>6. n - 1 \in j .. (i - 1)
          BY <3>4, <4>5, <5>2
        <5>7. QED
          BY <2>8, <5>5, <5>6
      <4>6. QED
        BY <4>4, <4>5
    <3>5. QED
      BY <3>2, <3>3, <3>4
  <2>9. Traced(new)'
    BY <2>5, <2>8 DEF Traced
  <2>10. QED
    BY <1>9, <2>5, <2>7, <2>9
<1>12. QED
  BY <1>10, <1>11

\* Every step keeps the bytes traceable to what was sent.
LEMMA FollowedStep == ReceiveInv /\ Followed /\ [RNext]_rvars => Followed'
<1> SUFFICES ASSUME ReceiveInv, Followed, [RNext]_rvars PROVE Followed'
  OBVIOUS
<1>1. CASE UNCHANGED <<sent, stream, chunk>>
  <2>1. \A seq : Traced(seq) => Traced(seq)'
    BY <1>1 DEF Traced, EndOfSent
  <2>2. \A seq : EndsInPair(seq) => EndsInPair(seq)'
    BY DEF EndsInPair
  <2>3. AllFramed' => AllFramed
    BY <1>1 DEF AllFramed
  <2>4. ASSUME AllFramed' PROVE Traced(chunk)' /\ Traced(stream)' /\ EndsInPair(stream)'
    BY <1>1, <2>1, <2>2, <2>3, <2>4 DEF Followed
  <2>5. QED
    BY <2>4 DEF Followed
<1>2. ASSUME NEW m \in Alone \cup Mixed, send(m) PROVE Followed'
  BY <1>2, sendKeepsFollowed DEF ReceiveInv
<1>3. ASSUME NEW k \in 1 .. BufLen, k <= Len(stream), recvMessage(k) PROVE Followed'
  <2>1. /\ chunk' = SubSeq(stream, 1, k) /\ stream' = SubSeq(stream, k + 1, Len(stream))
        /\ UNCHANGED sent /\ stream \in Seq(Byte) /\ Len(stream) \in Nat /\ BufLen \in Nat
    BY <1>3, ReceiveAssumption DEF recvMessage, ReceiveInv, BytesOK
  <2>2. ASSUME NEW seq, Traced(seq) PROVE Traced(seq)'
    BY <2>1, <2>2 DEF Traced, EndOfSent
  <2>3. AllFramed' => AllFramed
    BY <2>1 DEF AllFramed
  <2>4. ASSUME Traced(stream), EndsInPair(stream)
        PROVE  Traced(SubSeq(stream, 1, k)) /\ Traced(SubSeq(stream, k + 1, Len(stream)))
               /\ EndsInPair(SubSeq(stream, k + 1, Len(stream)))
    <3>1. /\ 1 \in 1 .. (Len(stream) + 1) /\ k + 1 \in 1 .. (Len(stream) + 1)
          /\ k \in 0 .. Len(stream) /\ Len(stream) \in 0 .. Len(stream)
          /\ 1 <= k + 1 /\ k + 1 <= Len(stream) + 1
      BY <1>3, <2>1
    <3>2. QED
      BY <2>1, <2>4, <3>1, TracedPiece, EndsPiece
  <2>5. ASSUME AllFramed PROVE Traced(stream) /\ EndsInPair(stream)
    BY <2>5 DEF Followed
  <2>6. ASSUME NEW seq, EndsInPair(seq) PROVE EndsInPair(seq)'
    BY <2>6 DEF EndsInPair
  <2>7. ASSUME AllFramed' PROVE Traced(chunk)' /\ Traced(stream)' /\ EndsInPair(stream)'
    BY <2>1, <2>2, <2>3, <2>4, <2>5, <2>6, <2>7
  <2>8. QED
    BY <2>7 DEF Followed
<1>4. ASSUME NEW k \in 1 .. BufLen, k <= Len(stream), recv(k) PROVE Followed'
  <2>1. recvMessage(k) \/ UNCHANGED <<sent, stream, chunk>>
    BY <1>4 DEF recv, recvShort
  <2>2. QED
    BY <1>1, <1>3, <1>4, <2>1
<1>5. CASE parse \/ search \/ parsed \/ UNCHANGED rvars
  BY <1>1, <1>5 DEF parse, search, parsed, input, rvars
<1>6. QED
  BY <1>2, <1>4, <1>5 DEF RNext

\* A text is taken for a request only after the checks, and stays what it is until
\* the next one is received.
LEMMA PassedStep == Passed /\ [RNext]_rvars => Passed'
<1> SUFFICES ASSUME Passed, [RNext]_rvars PROVE Passed'
  OBVIOUS
<1>1. CASE UNCHANGED <<pc, outcome, text>>
  BY <1>1 DEF Passed
<1>2. ASSUME NEW m, send(m) PROVE Passed'
  BY <1>1, <1>2 DEF send, vars
<1>3. ASSUME NEW k, recv(k) PROVE Passed'
  <2>1. pc' = "parse" \/ UNCHANGED <<pc, outcome, text>>
    BY <1>3 DEF recv, recvShort, recvMessage, vars
  <2>2. pc' = "parse" => Passed'
    BY DEF Passed
  <2>3. QED
    BY <1>1, <2>1, <2>2
<1>4. CASE parse
  <2>1. text' = text
    BY <1>4 DEF parse, input
  <2>2. Verdict(text)' = Verdict(text)
    BY <2>1
  <2>3. CASE Verdict(text) = "none"
    BY <2>2, <2>3 DEF Passed
  <2>4. CASE Verdict(text) # "none"
    <3>1. pc' = "recv" /\ outcome' = Verdict(text)
      BY <1>4, <2>4 DEF parse
    <3>2. Verdict(text) # "accepted"
      BY DEF Verdict
    <3>3. QED
      BY <3>1, <3>2 DEF Passed
  <2>5. QED
    BY <2>3, <2>4
<1>5. CASE search
  <2>1. text' = text /\ pc = "loop"
    BY <1>5 DEF search, FIND_MSG_CODE, input
  <2>2. Verdict(text)' = Verdict(text)
    BY <2>1
  <2>3. QED
    BY <2>1, <2>2 DEF Passed
<1>6. CASE parsed
  <2>1. text' = text /\ pc \in {"true", "false"}
    BY <1>6 DEF parsed, input
  <2>2. Verdict(text)' = Verdict(text)
    BY <2>1
  <2>3. QED
    BY <2>1, <2>2 DEF Passed
<1>7. CASE UNCHANGED rvars
  BY <1>1, <1>7 DEF rvars, vars, input
<1>8. QED
  BY <1>2, <1>3, <1>4, <1>5, <1>6, <1>7 DEF RNext

\* What passed the checks has at least four characters and is framed.
LEMMA PassedIsFramed ==
    ASSUME NEW t \in Seq(Byte), Verdict(t) = "none"
    PROVE  Framed(t) /\ Len(t) >= 4
<1>1. ~TooShort(t) /\ ~HasQuoteOrDashes(t) /\ ~Unframed(t) /\ ~EmptyArgument(t)
  BY DEF Verdict
<1>2. Len(t) >= 4
  BY <1>1 DEF TooShort
<1>3. QED
  BY <1>1, <1>2, FramedIsFramed

\* The end of a text is a suffix of it.
LEMMA EndIsSuffix ==
    ASSUME NEW t \in Seq(Byte), NEW p \in 1 .. Len(t), NEW s \in Seq(Byte), s = SubSeq(t, p, Len(t))
    PROVE  IsSuffix(s, t)
<1>1. PICK n \in Nat : n = Len(t)
  OBVIOUS
<1>2. /\ Len(s) = n - p + 1 /\ \A i \in 1 .. Len(s) : s[i] = t[p + i - 1]
  BY <1>1
<1>3. PICK a : a = Reverse(s)
  OBVIOUS
<1>4. PICK b : b = Reverse(t)
  OBVIOUS
<1>5. a \in Seq(Byte) /\ Len(a) = Len(s) /\ \A i \in 1 .. Len(s) : a[i] = s[Len(s) - i + 1]
  <2>1. \A i \in 1 .. Len(s) : s[Len(s) - i + 1] \in Byte
    OBVIOUS
  <2>2. a = [i \in 1 .. Len(s) |-> s[Len(s) - i + 1]]
    BY <1>3 DEF Reverse
  <2>3. QED
    BY <2>1, <2>2
<1>6. b \in Seq(Byte) /\ Len(b) = n /\ \A i \in 1 .. n : b[i] = t[n - i + 1]
  <2>1. \A i \in 1 .. n : t[n - i + 1] \in Byte
    BY <1>1
  <2>2. b = [i \in 1 .. n |-> t[n - i + 1]]
    BY <1>1, <1>4 DEF Reverse
  <2>3. QED
    BY <2>1, <2>2
<1>7. \A i \in 1 .. Len(a) : a[i] = b[i]
  <2> TAKE i \in 1 .. Len(a)
  <2>1. Len(s) - i + 1 \in 1 .. Len(s) /\ i \in 1 .. n
    BY <1>1, <1>2, <1>5
  <2>2. a[i] = t[p + (Len(s) - i + 1) - 1] /\ b[i] = t[n - i + 1]
    BY <1>2, <1>5, <1>6, <2>1
  <2>3. p + (Len(s) - i + 1) - 1 = n - i + 1
    BY <1>1, <1>2
  <2>4. QED
    BY <2>2, <2>3
<1>8. Len(a) <= Len(b)
  BY <1>1, <1>2, <1>5, <1>6
<1>9. SubSeq(a, 1, Len(a)) = SubSeq(b, 1, Len(a))
  <2>1. PICK x \in Seq(Byte) : /\ x = SubSeq(b, 1, Len(a)) /\ Len(x) = Len(a)
                              /\ \A i \in 1 .. Len(a) : x[i] = b[1 + i - 1]
    <3>1. PICK l \in Nat : l = Len(a)
      <4>1. a \in Seq(Byte)
        BY <1>5
      <4>2. Len(a) \in Nat
        BY <4>1
      <4>3. QED
        BY <4>2, Zenon
    <3>2. b \in Seq(Byte) /\ Len(b) \in Nat
      BY <1>6
    <3>3. l \in 0 .. Len(b)
      BY <1>8, <3>1, <3>2
    <3>4. PICK x : x = SubSeq(b, 1, l)
      OBVIOUS
    <3>5. x \in Seq(Byte) /\ Len(x) = l /\ \A i \in 1 .. l : x[i] = b[1 + i - 1]
      BY <3>2, <3>3, <3>4, SubSeqProperties
    <3>6. QED
      BY <3>1, <3>4, <3>5
  <2>2. x = a
    BY <1>5, <1>7, <2>1, SeqEqual
  <2>3. SubSeq(a, 1, Len(a)) = a
    BY <1>5, SubSeqFull
  <2>4. QED
    BY <2>1, <2>2, <2>3
<1>10. QED
  BY <1>3, <1>4, <1>8, <1>9 DEF IsSuffix, IsPrefix

\* However the stream is cut, a message that is accepted is the end of a text that
\* was sent, and all of it unless there is an @ in an argument.
THEOREM AcceptedWasSentHolds == RSpec => []AcceptedWasSent
<1>1. RInit => ReceiveInv /\ Followed /\ Passed
  <2> SUFFICES ASSUME RInit PROVE Followed /\ Passed
    BY ReceiveInit
  <2>1. stream = <<>> /\ chunk = <<>> /\ outcome = "none" /\ pc = "recv"
    BY DEF RInit
  <2>2. Len(stream) = 0 /\ Len(chunk) = 0
    BY <2>1
  <2>3. QED
    BY <2>1, <2>2 DEF Followed, Passed, Traced, EndsInPair
<1>2. ReceiveInv /\ Followed /\ Passed => AcceptedWasSent
  <2> SUFFICES ASSUME ReceiveInv, Followed, Passed,
                      Judged, outcome = "accepted", text = chunk,
                      \A k \in DOMAIN sent : ~Unframed(sent[k].text) /\ ~EmptyArgument(sent[k].text)
               PROVE  \E k \in DOMAIN sent :
                          /\ IsSuffix(text, sent[k].text)
                          /\ Cardinality({j \in DOMAIN sent[k].text : sent[k].text[j] = "@"}) = 1 =>
                                text = sent[k].text
    BY Zenon DEF AcceptedWasSent
  <2>1. text \in Seq(Byte) /\ sent \in Seq(Alone \cup Mixed)
    BY DEF ReceiveInv, BytesOK
  <2>2. Framed(text)
    BY <2>1, PassedIsFramed DEF Passed, Judged
  <2>3. PICK l \in Nat : l = Len(text)
    BY <2>1
  <2>4. l >= 3 /\ text[1] = "@" /\ PairAt(text, l - 1) /\ \A i \in 1 .. (l - 2) : ~PairAt(text, i)
    BY <2>2, <2>3 DEF Framed
  <2>5. Traced(text)
    BY DEF Followed, AllFramed
  <2>6. EndOfSent(text)
    <3>1. 1 \in 1 .. l /\ l - 1 \in 1 .. l /\ 1 < l - 1 /\ l - 1 + 1 = l /\ (l - 1) - 1 = l - 2
      BY <2>4
    <3>2. EndOfSent(SubSeq(text, 1, l))
      <4>1. EndOfSent(SubSeq(text, 1, l - 1 + 1))
        BY <2>3, <2>4, <2>5, <3>1 DEF Traced
      <4>2. QED
        BY <3>1, <4>1
    <3>3. SubSeq(text, 1, l) = text
      BY <2>1, <2>3, SubSeqFull
    <3>4. QED
      BY <3>2, <3>3
  <2>7. PICK k \in DOMAIN sent : \E p \in 1 .. Len(sent[k].text) :
                                     text = SubSeq(sent[k].text, p, Len(sent[k].text))
    BY <2>6 DEF EndOfSent
  <2>8. PICK t \in Seq(Byte) : t = sent[k].text
    <3>1. sent[k] \in Alone \cup Mixed
      BY <2>1
    <3>2. QED
      BY <3>1, SentType
  <2>9. PICK p \in 1 .. Len(t) : text = SubSeq(t, p, Len(t))
    BY <2>7, <2>8
  <2>10. IsSuffix(text, t)
    BY <2>1, <2>9, EndIsSuffix
  <2>11. t[1] = "@"
    BY <2>8 DEF Unframed
  <2>12. text[1] = t[p]
    BY <2>9
  <2>13. ASSUME Cardinality({j \in DOMAIN t : t[j] = "@"}) = 1
         PROVE  text = t
    <3>1. IsFiniteSet({j \in DOMAIN t : t[j] = "@"})
      <4>1. IsFiniteSet(1 .. Len(t))
        BY FS_Interval
      <4>2. {j \in DOMAIN t : t[j] = "@"} \subseteq 1 .. Len(t)
        OBVIOUS
      <4>3. QED
        BY <4>1, <4>2, FS_Subset
    <3>2. PICK x : {j \in DOMAIN t : t[j] = "@"} = {x}
      BY <2>13, <3>1, FS_Singleton
    <3>3. 1 \in DOMAIN t /\ p \in DOMAIN t
      OBVIOUS
    <3>4. p = 1
      BY <2>4, <2>11, <2>12, <3>2, <3>3
    <3>5. SubSeq(t, 1, Len(t)) = t
      BY SubSeqFull
    <3>6. QED
      BY <2>9, <3>4, <3>5
  <2>14. QED
    BY <2>8, <2>10, <2>13
<1>3. ReceiveInv /\ Followed /\ Passed /\ [RNext]_rvars => (ReceiveInv /\ Followed /\ Passed)'
  BY ReceiveStep, FollowedStep, PassedStep
<1>4. QED
  BY <1>1, <1>2, <1>3, PTL DEF RSpec
-----------------------------------------------------------------------------
(***************************************************************************)
(* Types of the buffer and of the message                                  *)
(***************************************************************************)
\* _buffer and the text are made of bytes, even where a client sent a NUL or the
\* text goes on behind _buffer.
TextOK == buffer \in [1 .. BufLen -> Byte] /\ text \in Seq(Byte)

\* The two characters of the frame.
LEMMA BytesOfFrame == "@" \in Byte /\ "|" \in Byte
  BY DEF Byte

\* The C string in a buffer of bytes is a sequence of bytes.
LEMMA CStringType ==
    ASSUME NEW bytes \in [1 .. BufLen -> Byte]
    PROVE  CString(bytes) \in Seq(Byte)
<1>1. PICK b \in Nat : b = BufLen
  BY ReceiveAssumption
<1>2. bytes \in Seq(Byte) /\ Len(bytes) = b
  BY <1>1, SeqDef
<1>3. PICK ends : ends = {k \in DOMAIN bytes : bytes[k] = NUL}
  OBVIOUS
<1>4. CString(bytes) = IF ends = {} THEN bytes ELSE SubSeq(bytes, 1, Min(ends) - 1)
  BY <1>3, Zenon DEF CString
<1>5. CASE ends = {}
  BY <1>2, <1>4, <1>5
<1>6. CASE ends # {}
  <2>1. ends \in SUBSET (1 .. b)
    BY <1>1, <1>3
  <2>2. Min(ends) \in ends
    <3>1. \E x \in ends : \A y \in ends : x <= y
      <4>1. ends \in SUBSET Nat
        BY <2>1
      <4>2. QED
        BY <1>6, <4>1, SmallestNat
    <3>2. QED
      BY <3>1, Zenon DEF Min
  <2>3. PICK m \in 1 .. b : m = Min(ends)
    BY <2>1, <2>2
  <2>4. SubSeq(bytes, 1, m - 1) \in Seq(Byte)
    <3>1. 1 \in 1 .. (Len(bytes) + 1) /\ m - 1 \in 0 .. Len(bytes) /\ 1 <= m - 1 + 1
      BY <1>2
    <3>2. QED
      BY <1>2, <3>1, Cut
  <2>5. QED
    BY <1>4, <1>6, <2>3, <2>4
<1>7. QED
  BY <1>5, <1>6

\* Every step keeps them so.
LEMMA TextStep == BytesOK /\ TextOK /\ [RNext]_rvars => TextOK'
<1> SUFFICES ASSUME BytesOK, TextOK, [RNext]_rvars PROVE TextOK'
  OBVIOUS
<1>1. CASE UNCHANGED <<buffer, text>>
  BY <1>1 DEF TextOK
<1>2. ASSUME NEW k \in 1 .. BufLen, k <= Len(stream), recvMessage(k) PROVE TextOK'
  <2>1. /\ chunk' = SubSeq(stream, 1, k)
        /\ buffer' = Filled(chunk') /\ text' = CString(buffer') \o junk'
        /\ junk' \in IF Len(CString(buffer')) = BufLen THEN {<<>>, <<"junk">>} ELSE {<<>>}
    BY <1>2 DEF recvMessage
  <2>2. PICK c \in Seq(Byte) : c = chunk' /\ Len(c) = k
    <3>1. stream \in Seq(Byte) /\ Len(stream) \in Nat /\ BufLen \in Nat
      BY ReceiveAssumption DEF BytesOK
    <3>2. 1 \in 1 .. (Len(stream) + 1) /\ k \in 0 .. Len(stream) /\ 1 <= k + 1 /\ k - 1 + 1 = k
      BY <1>2, <3>1
    <3>3. SubSeq(stream, 1, k) \in Seq(Byte) /\ Len(SubSeq(stream, 1, k)) = k
      BY <3>1, <3>2, Cut
    <3>4. QED
      BY <2>1, <3>3, Zenon
  <2>3. \A i \in 1 .. BufLen : Cleared[i] \in Byte
    BY NULIsByte DEF Cleared, TextOK
  <2>4. \A i \in 1 .. BufLen : (IF i <= Len(c) THEN c[i] ELSE Cleared[i]) \in Byte
    <3>1. ASSUME NEW i \in 1 .. BufLen, i <= Len(c) PROVE c[i] \in Byte
      BY <2>2, <3>1, ReceiveAssumption
    <3>2. QED
      BY <2>3, <3>1
  <2>5. Filled(c) \in [1 .. BufLen -> Byte]
    BY <2>4 DEF Filled
  <2>6. buffer' \in [1 .. BufLen -> Byte]
    BY <2>1, <2>2, <2>5
  <2>7. CString(buffer') \in Seq(Byte)
    BY <2>6, CStringType
  <2>8. junk' \in Seq(Byte)
    <3>1. "junk" \in Byte
      BY DEF Byte
    <3>2. junk' = <<>> \/ junk' = <<"junk">>
      BY <2>1
    <3>3. <<>> \in Seq(Byte)
      BY EmptySeq
    <3>4. <<"junk">> \in Seq(Byte)
      <4>1. PICK x \in Byte : x = "junk"
        BY <3>1, Zenon
      <4>2. <<x>> \in Seq(Byte)
        OBVIOUS
      <4>3. QED
        BY <4>1, <4>2, Zenon
    <3>5. QED
      BY <3>2, <3>3, <3>4, Zenon
  <2>9. QED
    BY <2>1, <2>6, <2>7, <2>8, ConcatProperties DEF TextOK
<1>3. ASSUME NEW k \in 1 .. BufLen, k <= Len(stream), recv(k) PROVE TextOK'
  <2>1. recvMessage(k) \/ UNCHANGED <<buffer, text>>
    BY <1>3 DEF recv, recvShort
  <2>2. QED
    BY <1>1, <1>2, <1>3, <2>1
<1>4. ASSUME NEW m, send(m) PROVE TextOK'
  BY <1>1, <1>4 DEF send
<1>5. CASE parse \/ search \/ parsed \/ UNCHANGED rvars
  BY <1>1, <1>5 DEF parse, search, parsed, input, rvars
<1>6. QED
  BY <1>3, <1>4, <1>5 DEF RNext

LEMMA TextInit == RInit => TextOK
  BY NULIsByte DEF RInit, TextOK
-----------------------------------------------------------------------------
(***************************************************************************)
(* Taking a message apart.  The pieces of a message are q, with the code,  *)
(* and qs, the arguments, each followed by a separator; then there is one  *)
(* more.                                                                   *)
(***************************************************************************)

\* The elements of q and then qs.
LEMMA FirstAndRest ==
    ASSUME NEW D, NEW q \in D, NEW qs \in Seq(D), NEW e \in D
    PROVE  /\ <<q>> \o qs \in Seq(D)
           /\ Append(<<q>> \o qs, e)[1] = q
           /\ Tail(Append(<<q>> \o qs, e)) = Append(qs, e)
<1>1. PICK n \in Nat : n = Len(qs)
  BY LenProperties
<1>2. <<q>> \in Seq(D)
  OBVIOUS
<1>3. PICK r \in Seq(D) : r = Append(qs, e)
  BY AppendProperties
<1>4. PICK all \in Seq(D) : all = <<q>> \o r
  BY <1>2, ConcatProperties
<1>5. Append(<<q>> \o qs, e) = all
  BY <1>2, <1>3, <1>4
<1>6. all[1] = q /\ Tail(all) = r
  BY <1>4
<1>7. QED
  BY <1>2, <1>3, <1>5, <1>6, ConcatProperties

\* What Parser takes from a message that is the text w and one more separator.
LEMMA PartsOfMessage ==
    ASSUME NEW w \in Seq(Byte), NEW q \in Seq(Byte), NEW qs \in Seq(Seq(Byte)),
           Taken(w, "|", <<q>> \o qs, <<>>)
    PROVE  /\ CodeText(Append(w, "|")) = Tail(q)
           /\ Arguments(Append(w, "|")) = qs
<1>1. PICK D : D = Seq(Byte)
  OBVIOUS
<1>2. q \in D /\ qs \in Seq(D) /\ <<>> \in D
  BY <1>1, EmptySeq
<1>3. PICK all \in Seq(D) : all = <<q>> \o qs
  BY <1>2, FirstAndRest
<1>4. PICK more \in Seq(D) : more = Append(all, <<>>)
  BY <1>2, AppendProperties
<1>5. PICK t : t = Append(w, "|")
  OBVIOUS
<1>6. Taken(t, "|", more, <<>>)
  BY <1>1, <1>2, <1>3, <1>4, <1>5, BytesOfFrame, TakenSeparator, Zenon
<1>7. Pieces(t, "|") = Append(more, <<>>)
  BY <1>6, Zenon DEF Taken
<1>8. Front(Append(more, <<>>)) = more /\ Last(Append(more, <<>>)) = <<>>
  BY <1>2, FrontLast
<1>9. split(t, "|") = more
  BY <1>7, <1>8, Zenon DEF split
<1>10. more[1] = q /\ Tail(more) = Append(qs, <<>>)
  BY <1>2, <1>3, <1>4, FirstAndRest
<1>11. Front(Append(qs, <<>>)) = qs
  BY <1>2, FrontLast
<1>12. CodeText(t) = Tail(q)
  BY <1>9, <1>10, Zenon DEF CodeText
<1>13. Arguments(t) = qs
  BY <1>9, <1>10, <1>11, Zenon DEF Arguments
<1>14. QED
  BY <1>5, <1>12, <1>13, Zenon

\* The request that Join makes of an @, a code and arguments is made of pieces, too.
LEMMA JoinIsTerminated ==
    ASSUME NEW first \in Seq(Byte), NEW args \in Seq(Seq(Byte)),
           NEW q, q = <<"@">> \o first
    PROVE  /\ q \in Seq(Byte) /\ Tail(q) = first
           /\ Join(first, args) = Append(Terminated(<<q>> \o args, "|"), "|")
<1>1. PICK at \in Byte : at = "@"
  BY BytesOfFrame, Zenon
<1>2. PICK bar \in Byte : bar = "|"
  BY BytesOfFrame, Zenon
<1>3. PICK z \in Seq(Byte) : z = Terminated(args, bar)
  BY TerminatedType
<1>4. <<q>> \in Seq(Seq(Byte)) /\ q \in Seq(Byte) /\ Tail(q) = first
  <2>1. q = <<at>> \o first
    BY <1>1, Zenon
  <2>2. <<at>> \in Seq(Byte)
    OBVIOUS
  <2>3. q \in Seq(Byte)
    BY <2>1, <2>2, ConcatProperties
  <2>4. Tail(q) = first
    BY <2>1, <2>2
  <2>5. <<q>> \in Seq(Seq(Byte))
    BY <2>3
  <2>6. QED
    BY <2>3, <2>4, <2>5
<1>5. PICK b \in Seq(Byte) : b = Append(q, bar)
  BY <1>4, AppendProperties
<1>6. PICK y \in Seq(Byte) : y = b \o z
  BY ConcatProperties
<1>7. Terminated(<<q>> \o args, bar) = y
  <2>1. q \in Seq(Byte)
    BY <1>4
  <2>2. Makes(Append(q, bar), Terminated(args, bar), Terminated(<<q>> \o args, bar))
    BY <2>1, TerminatedFirst, Zenon
  <2>3. QED
    BY <1>3, <1>5, <1>6, <2>2, Zenon DEF Makes
<1>8. Join(first, args) = <<at>> \o first \o <<bar>> \o z \o <<bar>>
  BY <1>1, <1>2, <1>3, Zenon DEF Join
<1>9. b = <<at>> \o first \o <<bar>>
  BY <1>1, <1>4, <1>5, AppendIsConcat, Zenon
<1>10. y \o <<bar>> = Append(y, bar)
  BY AppendIsConcat
<1>11. QED
  BY <1>2, <1>4, <1>6, <1>7, <1>8, <1>9, <1>10, Zenon

\* A text that begins with an @ begins with a piece that does.
LEMMA FirstPiece ==
    ASSUME NEW u \in Seq(Byte), u # <<>>, u[1] = "@",
           NEW q \in Seq(Byte), NEW z \in Seq(Byte), Append(u, "|") = Append(q, "|") \o z
    PROVE  q = <<"@">> \o Tail(q) /\ Tail(q) \in Seq(Byte)
<1>1. PICK bar \in Byte : bar = "|"
  BY BytesOfFrame, Zenon
<1>2. PICK at \in Byte : at = "@" /\ at # bar
  BY <1>1, BytesOfFrame
<1>3. PICK n \in Nat : n = Len(u) /\ n > 0
  OBVIOUS
<1>4. PICK x \in Seq(Byte) : x = Append(u, bar) /\ x[1] = at
  <2>1. PICK x \in Seq(Byte) : x = Append(u, bar)
    BY AppendProperties
  <2>2. x[1] = u[1]
    BY <1>3, <2>1
  <2>3. QED
    BY <1>2, <2>1, <2>2, Zenon
<1>5. PICK b \in Seq(Byte) : b = Append(q, bar)
  BY AppendProperties
<1>6. PICK m \in Nat : m = Len(q)
  BY LenProperties
<1>7. Len(b) = m + 1 /\ b[m + 1] = bar /\ \A i \in 1 .. m : b[i] = q[i]
  BY <1>5, <1>6, AppendProperties
<1>8. Meets(x, b, m + 1, z, Len(z))
  BY <1>1, <1>4, <1>5, <1>7, ConcatMeets, Zenon
<1>9. x[1] = b[1]
  BY <1>8 DEF Meets
<1>10. m # 0
  BY <1>2, <1>4, <1>7, <1>9
<1>11. q[1] = at
  BY <1>4, <1>7, <1>9, <1>10
<1>12. Tail(q) \in Seq(Byte) /\ q = <<at>> \o Tail(q)
  BY <1>6, <1>10, <1>11
<1>13. QED
  BY <1>2, <1>12, Zenon

\* A framed text is what is before its last two separators, and these.
LEMMA FrameOfText ==
    ASSUME NEW t \in Seq(Byte), Framed(t), Len(t) >= 4
    PROVE  \E u, w \in Seq(Byte) :
               /\ u # <<>> /\ u[1] = "@"
               /\ w = Append(u, "|") /\ t = Append(w, "|") /\ Front(t) = w
<1>1. PICK bar \in Byte : bar = "|"
  BY BytesOfFrame, Zenon
<1>2. PICK n \in Nat : n = Len(t) /\ n >= 4
  OBVIOUS
<1>3. t[1] = "@" /\ t[n] = bar /\ t[n - 1] = bar
  <2>1. t[1] = "@" /\ PairAt(t, n - 1)
    BY <1>2 DEF Framed
  <2>2. n - 1 + 1 = n
    OBVIOUS
  <2>3. QED
    BY <1>1, <2>1, <2>2 DEF PairAt
<1>4. PICK w \in Seq(Byte) : t = Append(w, bar) /\ Len(w) = n - 1 /\ \A i \in 1 .. (n - 1) : w[i] = t[i]
  <2>1. PICK w \in Seq(Byte), e \in Byte : t = Append(w, e)
    <3>1. t # <<>>
      BY <1>2
    <3>2. QED
      BY <3>1, SequenceEmptyOrAppend
  <2>2. Len(w) = n - 1 /\ t[n] = e /\ \A i \in 1 .. (n - 1) : t[i] = w[i]
    BY <1>2, <2>1
  <2>3. QED
    BY <1>3, <2>1, <2>2
<1>5. PICK u \in Seq(Byte) : w = Append(u, bar) /\ Len(u) = n - 2 /\ \A i \in 1 .. (n - 2) : u[i] = w[i]
  <2>1. PICK u \in Seq(Byte), e \in Byte : w = Append(u, e)
    BY <1>2, <1>4, SequenceEmptyOrAppend
  <2>2. Len(u) = n - 2 /\ w[n - 1] = e /\ \A i \in 1 .. (n - 2) : w[i] = u[i]
    BY <1>2, <1>4, <2>1
  <2>3. w[n - 1] = t[n - 1]
    BY <1>2, <1>4
  <2>4. QED
    BY <1>3, <2>1, <2>2, <2>3
<1>6. u # <<>> /\ u[1] = "@"
  <2>1. 1 \in 1 .. (n - 2) /\ 1 \in 1 .. (n - 1)
    BY <1>2
  <2>2. u[1] = t[1]
    BY <1>4, <1>5, <2>1
  <2>3. QED
    BY <1>2, <1>3, <1>5, <2>2
<1>7. Front(t) = w
  <2>1. Front(Append(w, bar)) = w
    BY FrontLast
  <2>2. QED
    BY <1>4, <2>1, Zenon
<1>8. QED
  BY <1>1, <1>4, <1>5, <1>6, <1>7, Zenon

\* The pieces all are q and then the n pieces qs.
Before(all, q, qs, n) ==
    /\ DOMAIN all = 1 .. (1 + n) /\ all[1] = q
    /\ \A j \in 1 .. n : all[1 + j] = qs[j]

LEMMA OneIsBefore ==
    ASSUME NEW D, NEW q \in D, NEW qs \in Seq(D)
    PROVE  Before(<<q>> \o qs, q, qs, Len(qs))
<1>1. <<q>> \in Seq(D)
  OBVIOUS
<1>2. Len(<<q>>) = 1 /\ <<q>>[1] = q
  OBVIOUS
<1>3. PICK a \in Seq(D) : a = <<q>> /\ Len(a) = 1 /\ a[1] = q
  BY <1>1, <1>2, Zenon
<1>4. PICK n \in Nat : n = Len(qs)
  BY LenProperties
<1>5. PICK d : d = a \o qs
  OBVIOUS
<1>6. Meets(d, a, 1, qs, n)
  BY <1>3, <1>4, <1>5, ConcatMeets, Zenon
<1>7. d \in Seq(D)
  BY <1>5, ConcatProperties
<1>8. Len(d) = 1 + n /\ d[1] = q /\ \A j \in 1 .. n : d[1 + j] = qs[j]
  BY <1>3, <1>6 DEF Meets
<1>9. DOMAIN d = 1 .. (1 + n)
  BY <1>7, <1>8, LenProperties
<1>10. Before(d, q, qs, n)
  BY <1>8, <1>9, Zenon DEF Before
<1>11. QED
  BY <1>3, <1>4, <1>5, <1>10, Zenon

\* What Parser lets through is the request that its code and arguments make.
LEMMA TakenApart ==
    ASSUME NEW t \in Seq(Byte), Verdict(t) = "none"
    PROVE  /\ Join(CodeText(t), Arguments(t)) = t
           /\ \A k \in DOMAIN Arguments(t) : Arguments(t)[k] # <<>>
           /\ CodeText(t) \in Seq(Byte)
<1>1. PICK u, w \in Seq(Byte) :
               /\ u # <<>> /\ u[1] = "@"
               /\ w = Append(u, "|") /\ t = Append(w, "|") /\ Front(t) = w
  BY PassedIsFramed, FrameOfText
<1>2. PICK bar \in Byte : bar = "|"
  BY BytesOfFrame, Zenon
<1>3. PICK all \in Seq(Seq(Byte)) : all = Pieces(u, bar) /\ all # <<>>
  BY PiecesType
<1>4. PICK q \in Seq(Byte), qs \in Seq(Seq(Byte)) : all = <<q>> \o qs
  <2>1. PICK D : D = Seq(Byte)
    OBVIOUS
  <2>2. all \in Seq(D) /\ all # <<>>
    BY <1>3, <2>1
  <2>3. Head(all) \in D /\ Tail(all) \in Seq(D) /\ all = <<Head(all)>> \o Tail(all)
    BY <2>2
  <2>4. QED
    BY <2>1, <2>3, Zenon
<1>5. Taken(w, bar, all, <<>>)
  <2>1. PICK ps \in Seq(Seq(Byte)), p \in Seq(Byte) : all = Append(ps, p)
    BY <1>3, SequenceEmptyOrAppend
  <2>2. Taken(u, bar, ps, p)
    BY <1>3, <2>1, Zenon DEF Taken
  <2>3. Taken(Append(u, bar), bar, Append(ps, p), <<>>)
    BY <2>2, TakenSeparator, Zenon
  <2>4. QED
    BY <1>1, <1>2, <2>1, <2>3, Zenon
<1>6. CodeText(t) = Tail(q) /\ Arguments(t) = qs
  BY <1>1, <1>2, <1>4, <1>5, PartsOfMessage, Zenon
<1>7. Terminated(all, bar) = w
  BY <1>1, <1>2, <1>3, PiecesBack
<1>8. q = <<"@">> \o Tail(q) /\ Tail(q) \in Seq(Byte)
  <2>1. Makes(Append(q, bar), Terminated(qs, bar), Terminated(<<q>> \o qs, bar))
    BY TerminatedFirst, Zenon
  <2>2. PICK z \in Seq(Byte) : z = Terminated(qs, bar)
    BY TerminatedType
  <2>3. Append(u, "|") = Append(q, "|") \o z
    BY <1>1, <1>2, <1>4, <1>7, <2>1, <2>2, Zenon DEF Makes
  <2>4. QED
    BY <1>1, <2>3, FirstPiece, Zenon
<1>9. Join(Tail(q), qs) = t
  <2>1. Join(Tail(q), qs) = Append(Terminated(<<q>> \o qs, "|"), "|")
    BY <1>8, JoinIsTerminated, Zenon
  <2>2. QED
    BY <1>1, <1>2, <1>4, <1>7, <2>1, Zenon
<1>10. ASSUME NEW k \in DOMAIN qs, qs[k] = <<>> PROVE FALSE
  <2>1. PICK j \in DOMAIN all : j # 1 /\ all[j] = qs[k]
    <3>1. PICK n \in Nat : n = Len(qs) /\ DOMAIN qs = 1 .. n
      BY LenProperties
    <3>2. Before(all, q, qs, n)
      BY <1>4, <3>1, OneIsBefore, Zenon
    <3>3. 1 + k \in 1 .. (1 + n) /\ 1 + k # 1
      BY <1>10, <3>1
    <3>4. QED
      BY <3>1, <3>2, <3>3, Zenon DEF Before
  <2>2. all[j] = <<>>
    BY <1>10, <2>1, Zenon
  <2>3. Paired(w, bar)
    BY <1>7, <2>1, <2>2, EmptyPiecePairs, Zenon
  <2>4. same_char_in_a_row(Front(t), "|")
    BY <1>1, <1>2, <2>3, Zenon DEF Paired, same_char_in_a_row
  <2>5. ~EmptyArgument(t)
    BY DEF Verdict
  <2>6. QED
    BY <2>4, <2>5, Zenon DEF EmptyArgument
<1>11. QED
  BY <1>6, <1>8, <1>9, <1>10, Zenon

\* Nothing of a message is lost between the separators, and no argument is empty,
\* whatever clients send and however it is cut.
THEOREM NothingDroppedHolds == RSpec => []NothingDropped
<1>1. RInit => ReceiveInv /\ TextOK /\ Passed
  BY ReceiveInit, TextInit DEF RInit, Passed
<1>2. TextOK /\ Passed => NothingDropped
  <2> SUFFICES ASSUME TextOK, Passed, Judged, outcome = "accepted"
               PROVE  /\ Join(CodeText(text), Arguments(text)) = text
                      /\ \A k \in DOMAIN Arguments(text) : Arguments(text)[k] # <<>>
    BY Zenon DEF NothingDropped
  <2>1. text \in Seq(Byte) /\ Verdict(text) = "none"
    BY DEF TextOK, Passed, Judged
  <2>2. QED
    BY <2>1, TakenApart, Zenon
<1>3. ReceiveInv /\ TextOK /\ Passed /\ [RNext]_rvars => (ReceiveInv /\ TextOK /\ Passed)'
  BY ReceiveStep, TextStep, PassedStep DEF ReceiveInv
<1>4. QED
  BY <1>1, <1>2, <1>3, PTL DEF RSpec
-----------------------------------------------------------------------------
(***************************************************************************)
(* stoi                                                                    *)
(***************************************************************************)
\* The characters that stoi reads.
Digit == {c \in Byte : Contains(Digits, c)}

\* A digit has a value.
LEMMA DigitHasValue ==
    ASSUME NEW c, Contains(Digits, c)
    PROVE  DigitValue(c) \in 0 .. 9 /\ Digits[DigitValue(c) + 1] = c
<1>1. Len(Digits) = 10
  BY DEF Digits
<1>2. PICK i \in 1 .. 10 : Digits[i] = c
  BY <1>1 DEF Contains
<1>3. i - 1 \in 0 .. 9 /\ (i - 1) + 1 = i
  OBVIOUS
<1>4. \E d \in 0 .. 9 : Digits[d + 1] = c
  BY <1>2, <1>3
<1>5. QED
  BY <1>4, Zenon DEF DigitValue

\* The value of digits is computed by the function f.
Reads(f, d) ==
    f = [k \in 0 .. Len(d) |-> IF k = 0 THEN 0 ELSE 10 * f[k - 1] + DigitValue(d[k])]

\* One more digit, one more value.
LEMMA ReadsExtends ==
    ASSUME NEW d \in Seq(Digit), NEW c \in Digit, NEW f \in [0 .. Len(d) -> Nat], Reads(f, d)
    PROVE  \E g \in [0 .. (Len(d) + 1) -> Nat] :
              Reads(g, Append(d, c)) /\ g[Len(d) + 1] = 10 * f[Len(d)] + DigitValue(c)
<1>1. PICK n \in Nat : n = Len(d)
  BY LenProperties
<1>2. PICK all : all = Append(d, c)
  OBVIOUS
<1>3. Len(all) = n + 1 /\ all[n + 1] = c /\ \A i \in 1 .. n : all[i] = d[i]
  BY <1>1, <1>2, AppendProperties
<1>4. f \in [0 .. n -> Nat]
  BY <1>1
<1>5. PICK last \in Nat : last = 10 * f[n] + DigitValue(c)
  <2>1. f[n] \in Nat /\ DigitValue(c) \in Nat
    BY <1>4, DigitHasValue DEF Digit
  <2>2. QED
    BY <2>1
<1> DEFINE g == [i \in 0 .. (n + 1) |-> IF i = n + 1 THEN last ELSE f[i]]
<1>6. g \in [0 .. (n + 1) -> Nat]
  BY <1>4
<1>7. \A i \in 0 .. n : f[i] = IF i = 0 THEN 0 ELSE 10 * f[i - 1] + DigitValue(d[i])
  <2>1. f = [i \in 0 .. n |-> IF i = 0 THEN 0 ELSE 10 * f[i - 1] + DigitValue(d[i])]
    BY <1>1, Zenon DEF Reads
  <2>2. QED
    BY <2>1, Zenon
<1>8. ASSUME NEW i \in 0 .. (n + 1)
      PROVE  g[i] = IF i = 0 THEN 0 ELSE 10 * g[i - 1] + DigitValue(all[i])
  <2>1. CASE i = n + 1
    <3>1. g[i - 1] = f[n] /\ g[i] = last /\ i # 0
      BY <2>1
    <3>2. QED
      BY <1>3, <1>5, <2>1, <3>1
  <2>2. CASE i \in 1 .. n
    <3>1. g[i] = f[i] /\ g[i - 1] = f[i - 1] /\ i # 0 /\ i \in 0 .. n
      BY <2>2
    <3>2. QED
      BY <1>3, <1>7, <2>2, <3>1
  <2>3. CASE i = 0
    <3>1. g[i] = f[i] /\ i \in 0 .. n
      BY <2>3
    <3>2. QED
      BY <1>7, <2>3, <3>1
  <2>4. QED
    BY <2>1, <2>2, <2>3
<1>9. g[n + 1] = last
  OBVIOUS
<1>10. g = [i \in 0 .. (n + 1) |-> g[i]]
  OBVIOUS
<1> HIDE DEF g
<1>11. Reads(g, all)
  <2>1. g = [i \in 0 .. (n + 1) |-> IF i = 0 THEN 0 ELSE 10 * g[i - 1] + DigitValue(all[i])]
    BY <1>8, <1>10, Zenon
  <2>2. QED
    BY <1>3, <2>1, Zenon DEF Reads
<1>12. QED
  BY <1>1, <1>2, <1>5, <1>6, <1>9, <1>11

\* There is such a function, and only one.
LEMMA ReadsExists ==
    ASSUME NEW d \in Seq(Digit)
    PROVE  \E f \in [0 .. Len(d) -> Nat] : Reads(f, d)
<1> DEFINE T == {s \in Seq(Digit) : \E f \in [0 .. Len(s) -> Nat] : Reads(f, s)}
<1>1. <<>> \in T
  <2>1. PICK f : f = [i \in 0 .. 0 |-> 0]
    OBVIOUS
  <2>2. f \in [0 .. 0 -> Nat]
    BY <2>1
  <2>3. Reads(f, <<>>)
    <3>1. Len(<<>>) = 0 /\ \A k \in 0 .. 0 : k = 0
      OBVIOUS
    <3>2. QED
      BY <2>1, <3>1 DEF Reads
  <2>4. <<>> \in Seq(Digit) /\ Len(<<>>) = 0
    BY EmptySeq
  <2>5. QED
    BY <2>2, <2>3, <2>4
<1>2. ASSUME NEW s \in T, NEW e \in Digit PROVE Append(s, e) \in T
  <2>1. PICK f \in [0 .. Len(s) -> Nat] : Reads(f, s)
    OBVIOUS
  <2>2. s \in Seq(Digit)
    OBVIOUS
  <2> HIDE DEF T
  <2>3. Append(s, e) \in Seq(Digit) /\ Len(Append(s, e)) = Len(s) + 1
    BY <2>2, AppendProperties
  <2>4. \E g \in [0 .. (Len(s) + 1) -> Nat] : Reads(g, Append(s, e))
    BY <2>1, <2>2, ReadsExtends
  <2>5. QED
    BY <2>3, <2>4 DEF T
<1>3. T \in SUBSET Seq(Digit)
  OBVIOUS
<1> HIDE DEF T
<1>4. d \in T
  BY <1>1, <1>2, <1>3, InductionOverSeq
<1>5. QED
  BY <1>4 DEF T

LEMMA ReadsUnique ==
    ASSUME NEW d, Len(d) \in Nat, NEW f, NEW g, Reads(f, d), Reads(g, d)
    PROVE  f = g
<1>1. PICK n \in Nat : n = Len(d)
  OBVIOUS
<1>2. /\ f = [k \in 0 .. n |-> IF k = 0 THEN 0 ELSE 10 * f[k - 1] + DigitValue(d[k])]
      /\ g = [k \in 0 .. n |-> IF k = 0 THEN 0 ELSE 10 * g[k - 1] + DigitValue(d[k])]
  BY <1>1, Zenon DEF Reads
<1>3. /\ \A k \in 0 .. n : f[k] = IF k = 0 THEN 0 ELSE 10 * f[k - 1] + DigitValue(d[k])
      /\ \A k \in 0 .. n : g[k] = IF k = 0 THEN 0 ELSE 10 * g[k - 1] + DigitValue(d[k])
  BY <1>2, Zenon
<1>4. f = [k \in 0 .. n |-> f[k]] /\ g = [k \in 0 .. n |-> g[k]]
  BY <1>2, <1>3, Zenon
<1> DEFINE T == {i \in Nat : i \in 0 .. n => f[i] = g[i]}
<1>5. 0 \in T
  BY <1>3
<1>6. ASSUME NEW i \in T PROVE i + 1 \in T
  <2>1. SUFFICES ASSUME i + 1 \in 0 .. n PROVE f[i + 1] = g[i + 1]
    OBVIOUS
  <2>2. i \in 0 .. n /\ f[i] = g[i]
    BY <2>1
  <2> HIDE DEF T
  <2>3. PICK k \in 0 .. n : k = i + 1
    BY <2>1
  <2>4. k # 0 /\ k - 1 = i
    BY <2>2, <2>3
  <2>5. f[k] = 10 * f[k - 1] + DigitValue(d[k]) /\ g[k] = 10 * g[k - 1] + DigitValue(d[k])
    BY <1>3, <2>4, Zenon
  <2>6. QED
    BY <2>2, <2>3, <2>4, <2>5, Zenon
<1>7. T \in SUBSET Nat
  OBVIOUS
<1>8. T = Nat
  <2> HIDE DEF T
  <2>1. QED
    BY <1>5, <1>6, <1>7, InductionOverNat
<1>9. \A i \in 0 .. n : f[i] = g[i]
  BY <1>8
<1>10. QED
  BY <1>4, <1>9, Zenon

\* Value is the last value of that function.
LEMMA ValueIsRead ==
    ASSUME NEW d \in Seq(Digit), NEW f, Reads(f, d)
    PROVE  Value(d) = f[Len(d)]
<1>1. Value(d) = (CHOOSE g : Reads(g, d))[Len(d)]
  BY Zenon DEF Value, Reads
<1>2. PICK g : g = CHOOSE h : Reads(h, d)
  OBVIOUS
<1>3. Reads(g, d)
  BY <1>2
<1>4. Len(d) \in Nat
  BY LenProperties
<1>5. g = f
  BY <1>3, <1>4, ReadsUnique
<1>6. QED
  BY <1>1, <1>2, <1>5

\* What Value is, digit by digit.
LEMMA ValueAppend ==
    ASSUME NEW d \in Seq(Digit), NEW c \in Digit
    PROVE  Value(Append(d, c)) = 10 * Value(d) + DigitValue(c)
<1>1. PICK f \in [0 .. Len(d) -> Nat] : Reads(f, d)
  BY ReadsExists
<1>2. PICK g : Reads(g, Append(d, c)) /\ g[Len(d) + 1] = 10 * f[Len(d)] + DigitValue(c)
  BY <1>1, ReadsExtends
<1>3. Append(d, c) \in Seq(Digit) /\ Len(Append(d, c)) = Len(d) + 1
  BY AppendProperties
<1>4. Value(d) = f[Len(d)]
  BY <1>1, ValueIsRead
<1>5. Value(Append(d, c)) = g[Len(d) + 1]
  BY <1>2, <1>3, ValueIsRead
<1>6. QED
  BY <1>2, <1>4, <1>5

\* The value of no digits.
LEMMA ValueEmpty == Value(<<>>) = 0
<1>1. <<>> \in Seq(Digit) /\ Len(<<>>) = 0
  BY EmptySeq
<1>2. PICK f \in [0 .. 0 -> Nat] : Reads(f, <<>>)
  BY <1>1, ReadsExists
<1>3. f[0] = 0
  <2>1. f = [k \in 0 .. 0 |-> IF k = 0 THEN 0 ELSE 10 * f[k - 1] + DigitValue(<<>>[k])]
    BY <1>1, <1>2 DEF Reads
  <2>2. QED
    BY <2>1
<1>4. QED
  BY <1>1, <1>2, <1>3, ValueIsRead

\* The value of digits is a number.
LEMMA ValueType ==
    ASSUME NEW d \in Seq(Digit)
    PROVE  Value(d) \in Nat
<1>1. PICK f \in [0 .. Len(d) -> Nat] : Reads(f, d)
  BY ReadsExists
<1>2. Value(d) = f[Len(d)]
  BY <1>1, ValueIsRead
<1>3. Len(d) \in 0 .. Len(d)
  BY LenProperties
<1>4. QED
  BY <1>1, <1>2, <1>3

\* The longest prefix of digits has only digits.
LEMMA PrefixType ==
    ASSUME NEW t \in Seq(Byte)
    PROVE  DigitPrefix(t) \in Seq(Digit)
<1>1. PICK n \in Nat : n = Len(t) /\ DOMAIN t = 1 .. n
  BY LenProperties
<1>2. PICK stops : stops = {k \in DOMAIN t : ~Contains(Digits, t[k])}
  OBVIOUS
<1>3. DigitPrefix(t) = IF stops = {} THEN t ELSE SubSeq(t, 1, Min(stops) - 1)
  BY <1>2, Zenon DEF DigitPrefix
<1>4. CASE stops = {}
  <2>1. \A k \in 1 .. n : t[k] \in Digit
    BY <1>1, <1>2, <1>4 DEF Digit
  <2>2. t \in Seq(Digit)
    BY <1>1, <2>1, IsASeq
  <2>3. QED
    BY <1>3, <1>4, <2>2
<1>5. CASE stops # {}
  <2>1. stops \in SUBSET (1 .. n) /\ stops \in SUBSET Nat
    BY <1>1, <1>2
  <2>2. \E x \in stops : \A y \in stops : x <= y
    BY <1>5, <2>1, SmallestNat
  <2>3. Min(stops) \in stops /\ \A y \in stops : Min(stops) <= y
    BY <2>2, Zenon DEF Min
  <2>4. PICK m \in 1 .. n : m = Min(stops)
    BY <2>1, <2>3
  <2>5. 1 \in 1 .. (Len(t) + 1) /\ m - 1 \in 0 .. Len(t) /\ 1 <= m - 1 + 1 /\ m - 1 - 1 + 1 = m - 1
    BY <1>1
  <2>6. PICK p \in Seq(Byte) : /\ p = SubSeq(t, 1, m - 1) /\ Len(p) = m - 1
                               /\ \A i \in 1 .. (m - 1) : p[i] = t[1 + i - 1]
    <3>1. PICK one \in 1 .. (Len(t) + 1), b \in 0 .. Len(t) : one = 1 /\ b = m - 1
      BY <2>5
    <3>2. /\ SubSeq(t, one, b) \in Seq(Byte) /\ Len(SubSeq(t, one, b)) = b - one + 1
          /\ \A i \in 1 .. (b - one + 1) : SubSeq(t, one, b)[i] = t[one + i - 1]
      BY <2>5, <3>1, Cut
    <3>3. b - one + 1 = m - 1
      BY <3>1
    <3>4. QED
      BY <3>1, <3>2, <3>3, Zenon
  <2>7. ASSUME NEW i \in 1 .. (m - 1) PROVE p[i] \in Digit
    <3>1. i \in 1 .. n /\ 1 + i - 1 = i /\ ~(m <= i)
      OBVIOUS
    <3>2. p[i] = t[i]
      BY <2>6, <3>1
    <3>3. i \notin stops
      BY <2>3, <2>4, <3>1
    <3>4. QED
      BY <1>1, <1>2, <3>1, <3>2, <3>3 DEF Digit
  <2>8. p \in Seq(Digit)
    BY <2>6, <2>7, IsASeq
  <2>9. QED
    BY <1>3, <1>5, <2>4, <2>6, <2>8
<1>6. QED
  BY <1>4, <1>5

\* A text of digits is its own prefix of digits.
LEMMA PrefixOfDigits ==
    ASSUME NEW t \in Seq(Digit)
    PROVE  DigitPrefix(t) = t
<1>1. {k \in DOMAIN t : ~Contains(Digits, t[k])} = {}
  BY DEF Digit
<1>2. QED
  BY <1>1, Zenon DEF DigitPrefix

\* stoi returns a number unless it throws.
LEMMA stoiType ==
    ASSUME NEW t \in Seq(Byte), stoi(t) # Invalid
    PROVE  stoi(t) \in Int
<1>1. PICK s \in Seq(Byte) : s = IF t # <<>> /\ Head(t) = "-" THEN Tail(t) ELSE t
  <2>1. t # <<>> => Tail(t) \in Seq(Byte)
    OBVIOUS
  <2>2. QED
    BY <2>1
<1>2. PICK d \in Seq(Digit) : d = DigitPrefix(s)
  BY PrefixType
<1>3. Value(d) \in Int /\ -Value(d) \in Int
  BY ValueType
<1>4. stoi(t) \in {Invalid, Value(d), -Value(d)}
  BY <1>1, <1>2, Zenon DEF stoi
<1>5. QED
  BY <1>3, <1>4
-----------------------------------------------------------------------------
(***************************************************************************)
(* The search as part of the server, with the code that stoi has read      *)
(***************************************************************************)

\* From the checks to the end of the search, the code that is looked up is that of
\* the text.
Searching ==
    pc \in {"loop", "true", "false"} => SearchInv /\ code = stoi(CodeText(text))

\* A text is accepted exactly if it passes the checks and its code is in the table.
Known(t) == \E i \in 0 .. N - 1 : ALL_MESSAGES_CODES[i] = stoi(CodeText(t))

Decided ==
    Judged => /\ outcome = "accepted" <=> Verdict(text) = "none" /\ Known(text)
              /\ outcome = "accepted" => code = stoi(CodeText(text))

\* The checks themselves accept nothing.
LEMMA VerdictThrows == ASSUME NEW t PROVE Verdict(t) # "accepted"
  BY DEF Verdict

\* A text that passes the checks has a code.
LEMMA PassedHasCode ==
    ASSUME NEW t \in Seq(Byte), Verdict(t) = "none"
    PROVE  stoi(CodeText(t)) \in Int
<1>1. stoi(CodeText(t)) # Invalid
  BY DEF Verdict
<1>2. CodeText(t) \in Seq(Byte)
  BY TakenApart, Zenon
<1>3. QED
  BY <1>1, <1>2, stoiType

\* Every step keeps both.
LEMMA SearchingStep ==
    TextOK /\ Passed /\ Searching /\ Decided /\ [RNext]_rvars => Searching' /\ Decided'
<1> SUFFICES ASSUME TextOK, Passed, Searching, Decided, [RNext]_rvars
             PROVE  Searching' /\ Decided'
  OBVIOUS
<1>1. CASE UNCHANGED <<vars, text, outcome>>
  <2>1. UNCHANGED <<code, left, right, pc, text, outcome>>
    BY <1>1 DEF vars
  <2>2. Searching'
    BY <2>1 DEF Searching, SearchInv, Bounds, Narrowed, SearchCorrect
  <2>3. Decided'
    BY <2>1 DEF Decided, Known, Judged
  <2>4. QED
    BY <2>2, <2>3
<1>2. CASE pc' = "parse"
  BY <1>2 DEF Searching, Decided, Judged
<1>3. CASE parse
  <2>1. text' = text
    BY <1>3 DEF parse, input
  <2>2. PICK v : v = Verdict(text)
    OBVIOUS
  <2>3. PICK c : c = stoi(CodeText(text))
    OBVIOUS
  <2>4. c = stoi(CodeText(text'))
    BY <2>1, <2>3
  <2>5. CASE v = "none"
    <3>1. code' = c /\ left' = 0 /\ right' = LastIndex /\ pc' = "loop"
      BY <1>3, <2>2, <2>3, <2>5 DEF parse
    <3>2. c \in Int
      BY <2>2, <2>3, <2>5, PassedHasCode DEF TextOK
    <3>3. SearchInv'
      BY <3>1, <3>2, SortedAssumption DEF SearchInv, Bounds, Narrowed, SearchCorrect, LastIndex
    <3>4. QED
      BY <2>4, <3>1, <3>3 DEF Searching, Decided, Judged
  <2>6. CASE v # "none"
    <3>1. pc' = "recv" /\ outcome' = v
      BY <1>3, <2>2, <2>6 DEF parse
    <3>2. v # "accepted" /\ Verdict(text') = v
      BY <2>1, <2>2, VerdictThrows
    <3>3. QED
      BY <2>6, <3>1, <3>2 DEF Searching, Decided, Judged
  <2>7. QED
    BY <2>5, <2>6
<1>4. CASE search
  <2>1. FIND_MSG_CODE /\ text' = text /\ code' = code /\ pc = "loop"
    BY <1>4 DEF search, FIND_MSG_CODE, input
  <2>2. SearchInv'
    BY <2>1, SearchStep DEF Searching
  <2>3. pc' \in {"loop", "true", "false"}
    BY <2>2 DEF SearchInv, Bounds
  <2>4. code = stoi(CodeText(text))
    BY <2>1 DEF Searching
  <2>5. code' = stoi(CodeText(text'))
    BY <2>1, <2>4
  <2>6. QED
    BY <2>2, <2>3, <2>5 DEF Searching, Decided, Judged
<1>5. CASE parsed
  <2>1. /\ pc \in {"true", "false"} /\ pc' = "recv" /\ text' = text /\ code' = code
        /\ outcome' = IF pc = "true" THEN "accepted" ELSE "InvalidCodeNumberException"
    BY <1>5 DEF parsed, input
  <2>2. SearchCorrect /\ code = stoi(CodeText(text)) /\ Verdict(text) = "none"
    BY <2>1 DEF Searching, SearchInv, Passed
  <2>3. pc = "true" <=> Known(text)
    BY <2>1, <2>2 DEF SearchCorrect, Known
  <2>4. PICK v, c, known : v = Verdict(text) /\ c = stoi(CodeText(text)) /\ known = Known(text)
    OBVIOUS
  <2>5. v = Verdict(text') /\ c = stoi(CodeText(text')) /\ (Known(text)' <=> Known(text))
    BY <2>1, <2>4 DEF Known
  <2>6. QED
    BY <2>1, <2>2, <2>3, <2>4, <2>5 DEF Searching, Decided, Judged
<1>6. ASSUME NEW m, send(m) PROVE UNCHANGED <<vars, text, outcome>>
  BY <1>6 DEF send
<1>7. ASSUME NEW k, recv(k) PROVE UNCHANGED <<vars, text, outcome>> \/ pc' = "parse"
  BY <1>7 DEF recv, recvShort, recvMessage
<1>8. CASE UNCHANGED rvars
  BY <1>1, <1>8 DEF rvars, input
<1>9. QED
  BY <1>1, <1>2, <1>3, <1>4, <1>5, <1>6, <1>7, <1>8 DEF RNext

\* What the parsing of messages keeps.
ParseInv == ReceiveInv /\ TextOK /\ Passed /\ Searching /\ Decided

LEMMA ParseInit == RInit => ParseInv
<1> SUFFICES ASSUME RInit PROVE ParseInv
  OBVIOUS
<1>1. pc = "recv" /\ outcome = "none"
  BY DEF RInit
<1>2. Passed /\ Searching /\ Decided
  BY <1>1 DEF Passed, Searching, Decided, Judged
<1>3. QED
  BY <1>2, ReceiveInit, TextInit DEF ParseInv

LEMMA ParseStep == ParseInv /\ [RNext]_rvars => ParseInv'
<1>1. ReceiveInv => BytesOK
  BY DEF ReceiveInv
<1>2. QED
  BY <1>1, ReceiveStep, TextStep, PassedStep, SearchingStep DEF ParseInv

\* FIND_MSG_CODE decides rightly for every code that Parser reads from a message.
THEOREM RequestsAreFound == RSpec => []SearchCorrect
<1>1. ParseInv => SearchCorrect
  BY DEF ParseInv, Searching, SearchInv, SearchCorrect
<1>2. QED
  BY <1>1, ParseInit, ParseStep, PTL DEF RSpec
-----------------------------------------------------------------------------
(***************************************************************************)
(* Requests                                                                *)
(***************************************************************************)

\* The digits are ten different characters, and none of them is a separator or a
\* sign.
LEMMA DigitFacts ==
    ASSUME NEW i \in 0 .. 9
    PROVE  /\ Digits[i + 1] \in Digit /\ DigitValue(Digits[i + 1]) = i
           /\ Digits[i + 1] # "|" /\ Digits[i + 1] # "-"
<1>1. Len(Digits) = 10 /\ i + 1 \in 1 .. 10
  BY DEF Digits
<1>2. Digits[i + 1] \in Byte
  BY <1>1, Zenon DEF Byte
<1>3. Contains(Digits, Digits[i + 1])
  BY <1>1 DEF Contains
<1>4. ASSUME NEW j \in 0 .. 9, Digits[j + 1] = Digits[i + 1] PROVE j = i
  BY <1>4 DEF Digits
<1>5. DigitValue(Digits[i + 1]) = i
  BY <1>3, <1>4, DigitHasValue
<1>6. Digits[i + 1] # "|" /\ Digits[i + 1] # "-"
  BY DEF Digits
<1>7. QED
  BY <1>2, <1>3, <1>5, <1>6 DEF Digit

\* stoi reads digits with or without a sign.
LEMMA stoiOfDigits ==
    ASSUME NEW d \in Seq(Digit), d # <<>>, d[1] # "-"
    PROVE  stoi(d) = Value(d) /\ stoi(<<"-">> \o d) = -Value(d)
<1>1. Head(d) # "-"
  OBVIOUS
<1>2. DigitPrefix(d) = d
  BY PrefixOfDigits
<1>3. stoi(d) = Value(d)
  BY <1>1, <1>2, Zenon DEF stoi
<1>4. PICK s : s = <<"-">> \o d
  OBVIOUS
<1>5. s # <<>> /\ Head(s) = "-" /\ Tail(s) = d
  <2>1. PICK D : D = Digit \cup {"-"}
    OBVIOUS
  <2>2. PICK x \in D : x = "-"
    BY <2>1
  <2>3. d \in Seq(D)
    BY <2>1
  <2>4. s = <<x>> \o d
    BY <1>4, <2>2
  <2>5. s # <<>> /\ Head(s) = x /\ Tail(s) = d
    BY <2>3, <2>4
  <2>6. QED
    BY <2>2, <2>5
<1>6. stoi(s) = -Value(d)
  BY <1>2, <1>5, Zenon DEF stoi
<1>7. QED
  BY <1>3, <1>4, <1>6, Zenon

\* One digit by itself.
LEMMA OneDigit ==
    ASSUME NEW a \in 0 .. 9, NEW d, d = <<Digits[a + 1]>>
    PROVE  /\ d \in Seq(Digit) /\ d # <<>> /\ d[1] # "-" /\ ~Contains(d, "|")
           /\ Value(d) = a
<1>1. PICK x \in Digit : x = Digits[a + 1] /\ DigitValue(x) = a /\ x # "|" /\ x # "-"
  BY DigitFacts
<1>2. d = <<x>> /\ d = Append(<<>>, x) /\ <<>> \in Seq(Digit)
  BY <1>1, EmptySeq
<1>3. d \in Seq(Digit) /\ Len(d) = 1 /\ d[1] = x
  BY <1>2
<1>4. Value(d) = 10 * 0 + a
  BY <1>1, <1>2, ValueAppend, ValueEmpty
<1>5. QED
  BY <1>1, <1>3, <1>4 DEF Contains

\* One more digit behind others.
LEMMA NextDigit ==
    ASSUME NEW e \in Seq(Digit), e # <<>>, e[1] # "-", ~Contains(e, "|"),
           NEW a \in 0 .. 9, NEW d, d = Append(e, Digits[a + 1])
    PROVE  /\ d \in Seq(Digit) /\ d # <<>> /\ d[1] # "-" /\ ~Contains(d, "|")
           /\ Value(d) = 10 * Value(e) + a
<1>1. PICK x \in Digit : x = Digits[a + 1] /\ DigitValue(x) = a /\ x # "|" /\ x # "-"
  BY DigitFacts
<1>2. PICK n \in Nat : n = Len(e) /\ n > 0
  OBVIOUS
<1>3. d = Append(e, x)
  BY <1>1
<1>4. d \in Seq(Digit) /\ Len(d) = n + 1 /\ d[n + 1] = x /\ \A i \in 1 .. n : d[i] = e[i]
  BY <1>2, <1>3, AppendProperties
<1>5. \A i \in 1 .. n : e[i] # "|"
  BY <1>2 DEF Contains
<1>6. \A i \in 1 .. (n + 1) : d[i] # "|"
  BY <1>1, <1>4, <1>5
<1>7. Value(d) = 10 * Value(e) + a
  BY <1>1, <1>3, ValueAppend
<1>8. QED
  BY <1>2, <1>4, <1>6, <1>7 DEF Contains

\* The code that a client writes is the code that stoi reads.
Written(n) ==
    /\ CodeDigits(n) \in Seq(Byte) /\ CodeDigits(n) # <<>> /\ ~Contains(CodeDigits(n), "|")
    /\ stoi(CodeDigits(n)) = n

\* Digits are bytes.
LEMMA DigitsAreBytes == \A d \in Seq(Digit) : d \in Seq(Byte)
<1>1. Digit \subseteq Byte
  BY Zenon DEF Digit
<1>2. PICK S, B : S = Digit /\ B = Byte
  BY Zenon
<1>3. S \subseteq B
  BY <1>1, <1>2, Zenon
<1>4. \A t \in Seq(S) : t \in Seq(B)
  BY <1>3
<1>5. QED
  BY <1>2, <1>4, Zenon

\* Two characters are one and another.
LEMMA TwoCharacters ==
    ASSUME NEW S, NEW x \in S, NEW y \in S
    PROVE  <<x, y>> = <<x>> \o <<y>> /\ <<x, y>> \in Seq(S) /\ <<x, y>> # <<>>
<1>1. <<x>> \in Seq(S) /\ <<y>> \in Seq(S)
  OBVIOUS
<1>2. <<x, y>> \in Seq(S)
  OBVIOUS
<1>3. PICK a, b, p \in Seq(S) : a = <<x>> /\ b = <<y>> /\ p = <<x, y>>
  BY <1>1, <1>2, Zenon
<1>4. Len(a) = 1 /\ a[1] = x /\ Len(b) = 1 /\ b[1] = y
  BY <1>3
<1>5. Len(p) = 2 /\ p[1] = x /\ p[2] = y
  BY <1>3
<1>6. PICK d \in Seq(S) : d = a \o b
  BY ConcatProperties
<1>7. Len(d) = 2 /\ d[1] = x /\ d[2] = y
  BY <1>4, <1>6, ConcatProperties
<1>8. d = p
  BY <1>5, <1>7, SeqEqual
<1>9. p # <<>>
  <2>1. Len(<<>>) = 0
    BY EmptySeq
  <2>2. Len(p) # 0
    BY <1>5
  <2>3. QED
    BY <2>1, <2>2, Zenon
<1>10. QED
  BY <1>2, <1>3, <1>6, <1>8, <1>9, Zenon

\* The last digit of a number, and the rest of it.
LEMMA LastDigit ==
    ASSUME NEW n \in Nat
    PROVE  \E q \in Nat, r \in 0 .. 9 : q = n \div 10 /\ r = n % 10 /\ n = 10 * q + r
<1>1. n \div 10 \in Nat /\ n % 10 \in 0 .. 9
  OBVIOUS
<1>2. PICK q \in Nat, r \in 0 .. 9 : q = n \div 10 /\ r = n % 10
  BY <1>1, Zenon
<1>3. n = 10 * q + r
  BY <1>2
<1>4. QED
  BY <1>2, <1>3, Zenon

\* Every code that CodeDigits can write.
LEMMA CodeIsWritten ==
    ASSUME NEW n \in -9 .. 999
    PROVE  Written(n)
<1>1. CASE n < 0
  <2>1. PICK a \in 0 .. 9 : a = -n /\ a + 1 = 1 - n
    BY <1>1
  <2>2. PICK d : d = <<Digits[a + 1]>>
    OBVIOUS
  <2>3. d \in Seq(Digit) /\ d # <<>> /\ d[1] # "-" /\ ~Contains(d, "|") /\ Value(d) = a
    BY <2>2, OneDigit, ZenonT(40)
  <2>4. CodeDigits(n) = <<"-", Digits[1 - n]>>
    BY <1>1 DEF CodeDigits
  <2>5. PICK x, y \in Byte : x = "-" /\ y = Digits[1 - n] /\ x # "|" /\ y # "|"
    <3>1. "-" \in Byte
      BY DEF Byte
    <3>2. Digits[a + 1] \in Byte /\ Digits[a + 1] # "|"
      BY DigitFacts DEF Digit
    <3>3. QED
      BY <2>1, <3>1, <3>2
  <2>6. CodeDigits(n) = <<x, y>> /\ d = <<y>>
    BY <2>1, <2>2, <2>4, <2>5, Zenon
  <2>7. <<x, y>> = <<x>> \o <<y>> /\ <<x, y>> \in Seq(Byte) /\ <<x, y>> # <<>>
    BY TwoCharacters, Zenon
  <2>8. ~Contains(<<x, y>>, "|")
    BY <2>5 DEF Contains
  <2>9. stoi(<<"-">> \o d) = -Value(d)
    BY <2>3, stoiOfDigits, Zenon
  <2>10. stoi(CodeDigits(n)) = -a
    BY <2>3, <2>5, <2>6, <2>7, <2>9, Zenon
  <2>11. -a = n
    BY <2>1
  <2>12. QED
    BY <2>6, <2>7, <2>8, <2>10, <2>11, ZenonT(40) DEF Written
<1>2. ASSUME NEW d \in Seq(Digit), d # <<>>, d[1] # "-", ~Contains(d, "|"), Value(d) = n,
             CodeDigits(n) = d
      PROVE  Written(n)
  <2>1. stoi(d) = Value(d)
    BY <1>2, stoiOfDigits, Zenon
  <2>2. d \in Seq(Byte)
    BY DigitsAreBytes
  <2>3. QED
    BY <1>2, <2>1, <2>2, ZenonT(40) DEF Written
<1>3. CASE n \in 0 .. 9
  <2>1. CodeDigits(n) = <<Digits[n + 1]>>
    BY <1>3 DEF CodeDigits
  <2>2. QED
    BY <1>2, <1>3, <2>1, OneDigit, Zenon
<1>4. CASE n \in 10 .. 99
  <2>1. PICK a, b \in 0 .. 9 : a = n \div 10 /\ b = n % 10 /\ 10 * a + b = n
    BY <1>4
  <2>2. CodeDigits(n) = <<Digits[a + 1], Digits[b + 1]>>
    BY <1>4, <2>1 DEF CodeDigits
  <2>3. PICK e : e = <<Digits[a + 1]>>
    OBVIOUS
  <2>4. e \in Seq(Digit) /\ e # <<>> /\ e[1] # "-" /\ ~Contains(e, "|") /\ Value(e) = a
    BY <2>3, OneDigit, ZenonT(40)
  <2>5. PICK d : d = Append(e, Digits[b + 1])
    OBVIOUS
  <2>6. d \in Seq(Digit) /\ d # <<>> /\ d[1] # "-" /\ ~Contains(d, "|") /\ Value(d) = 10 * Value(e) + b
    BY <2>4, <2>5, NextDigit, Zenon
  <2>7. CodeDigits(n) = d
    BY <2>2, <2>3, <2>5
  <2>8. Value(d) = n
    BY <2>1, <2>4, <2>6
  <2>9. QED
    BY <1>2, <2>6, <2>7, <2>8, Zenon
<1>5. CASE n \in 100 .. 999
  <2>1. PICK a, b, c \in 0 .. 9 :
            a = n \div 100 /\ b = (n \div 10) % 10 /\ c = n % 10 /\ 10 * (10 * a + b) + c = n
    <3>1. n \in Nat /\ n \div 10 \in 10 .. 99
      BY <1>5
    <3>2. PICK q \in Nat, c \in 0 .. 9 : q = n \div 10 /\ c = n % 10 /\ n = 10 * q + c
      BY <3>1, LastDigit, Zenon
    <3>3. PICK a \in Nat, b \in 0 .. 9 : a = q \div 10 /\ b = q % 10 /\ q = 10 * a + b
      BY LastDigit, Zenon
    <3>4. a \in 0 .. 9
      BY <3>1, <3>2, <3>3
    <3>5. n = 10 * (10 * a + b) + c
      BY <3>2, <3>3, Zenon
    <3>6. n \div 100 = a
      BY <3>1, <3>4, <3>5
    <3>7. QED
      BY <3>2, <3>3, <3>4, <3>5, <3>6, Zenon
  <2>2. CodeDigits(n) = <<Digits[a + 1], Digits[b + 1], Digits[c + 1]>>
    BY <1>5, <2>1 DEF CodeDigits
  <2>3. PICK e : e = <<Digits[a + 1]>>
    OBVIOUS
  <2>4. e \in Seq(Digit) /\ e # <<>> /\ e[1] # "-" /\ ~Contains(e, "|") /\ Value(e) = a
    BY <2>3, OneDigit, ZenonT(40)
  <2>5. PICK f : f = Append(e, Digits[b + 1])
    OBVIOUS
  <2>6. f \in Seq(Digit) /\ f # <<>> /\ f[1] # "-" /\ ~Contains(f, "|") /\ Value(f) = 10 * Value(e) + b
    BY <2>4, <2>5, NextDigit, Zenon
  <2>7. PICK d : d = Append(f, Digits[c + 1])
    OBVIOUS
  <2>8. d \in Seq(Digit) /\ d # <<>> /\ d[1] # "-" /\ ~Contains(d, "|") /\ Value(d) = 10 * Value(f) + c
    BY <2>6, <2>7, NextDigit, Zenon
  <2>9. CodeDigits(n) = d
    BY <2>2, <2>3, <2>5, <2>7
  <2>10. Value(d) = n
    BY <2>1, <2>4, <2>6, <2>8
  <2>11. QED
    BY <1>2, <2>8, <2>9, <2>10, Zenon
<1>6. QED
  BY <1>1, <1>3, <1>4, <1>5

\* What Parser finds in a request.
LEMMA RequestIsTakenApart ==
    ASSUME NEW first \in Seq(Byte), first # <<>>, ~Contains(first, "|"),
           NEW args \in Seq(Seq(Byte)), \A k \in DOMAIN args : ~Contains(args[k], "|"),
           NEW t, t = Join(first, args)
    PROVE  /\ CodeText(t) = first /\ Arguments(t) = args
           /\ ~TooShort(t) /\ ~Unframed(t)
           /\ EmptyArgument(t) <=> \E k \in DOMAIN args : args[k] = <<>>
<1>1. PICK bar \in Byte : bar = "|"
  BY BytesOfFrame, Zenon
<1>2. PICK q \in Seq(Byte) : q = <<"@">> \o first /\ Tail(q) = first
  BY JoinIsTerminated, Zenon
<1>3. PICK all \in Seq(Seq(Byte)) : all = <<q>> \o args
  <2>1. PICK D : D = Seq(Byte)
    OBVIOUS
  <2>2. q \in D /\ args \in Seq(D)
    BY <2>1
  <2>3. QED
    BY <2>1, <2>2, FirstAndRest
<1>4. PICK w \in Seq(Byte) : w = Terminated(all, bar)
  BY TerminatedType
<1>5. t = Append(w, bar)
  BY <1>1, <1>2, <1>3, <1>4, JoinIsTerminated, ZenonT(40)
<1>6. /\ Len(q) = 1 + Len(first) /\ Len(q) \in Nat /\ Len(q) >= 2
      /\ q[1] = "@" /\ ~Contains(q, "|")
  <2>1. PICK at \in Byte : at = "@" /\ at # bar
    BY <1>1, BytesOfFrame
  <2>2. PICK n \in Nat : n = Len(first) /\ n > 0
    OBVIOUS
  <2>3. PICK a \in Seq(Byte) : a = <<at>> /\ Len(a) = 1 /\ a[1] = at
    <3>1. <<at>> \in Seq(Byte)
      OBVIOUS
    <3>2. Len(<<at>>) = 1 /\ <<at>>[1] = at
      OBVIOUS
    <3>3. QED
      BY <3>1, <3>2, Zenon
  <2>4. Meets(q, a, 1, first, n)
    BY <1>2, <2>1, <2>2, <2>3, ConcatMeets, Zenon
  <2>5. Len(q) = 1 + n /\ q[1] = at /\ \A i \in 1 .. n : q[1 + i] = first[i]
    BY <2>3, <2>4 DEF Meets
  <2>6. \A i \in 1 .. n : first[i] # bar
    BY <1>1, <2>2 DEF Contains
  <2>7. ASSUME NEW i \in 1 .. (1 + n), q[i] = bar PROVE FALSE
    <3>1. i # 1
      BY <2>1, <2>5, <2>7
    <3>2. i - 1 \in 1 .. n /\ 1 + (i - 1) = i
      BY <3>1
    <3>3. q[1 + (i - 1)] = first[i - 1]
      BY <2>5, <3>2
    <3>4. QED
      BY <2>6, <2>7, <3>2, <3>3
  <2>8. ~Contains(q, "|")
    BY <1>1, <2>5, <2>7 DEF Contains
  <2>9. QED
    BY <2>1, <2>2, <2>5, <2>8
<1>7. \A k \in DOMAIN all : ~Contains(all[k], bar) /\ (k = 1 \/ \E j \in DOMAIN args : all[k] = args[j])
  <2>1. PICK n \in Nat : n = Len(args) /\ DOMAIN args = 1 .. n
    BY LenProperties
  <2>2. PICK D : D = Seq(Byte)
    OBVIOUS
  <2>3. q \in D /\ args \in Seq(D)
    BY <2>2
  <2>4. DOMAIN all = 1 .. (1 + n) /\ all[1] = q /\ \A j \in 1 .. n : all[1 + j] = args[j]
    <3>1. Before(<<q>> \o args, q, args, Len(args))
      BY <2>3, OneIsBefore, Zenon
    <3>2. QED
      BY <1>3, <2>1, <3>1, Zenon DEF Before
  <2>5. ASSUME NEW k \in 1 .. (1 + n)
        PROVE  ~Contains(all[k], bar) /\ (k = 1 \/ \E j \in 1 .. n : all[k] = args[j])
    <3>1. CASE k = 1
      BY <1>1, <1>6, <2>4, <3>1
    <3>2. CASE k # 1
      <4>1. k - 1 \in 1 .. n /\ 1 + (k - 1) = k
        BY <3>2
      <4>2. all[k] = args[k - 1]
        BY <2>4, <4>1
      <4>3. QED
        BY <1>1, <2>1, <4>1, <4>2, Zenon
    <3>3. QED
      BY <3>1, <3>2
  <2>6. QED
    BY <2>1, <2>4, <2>5, Zenon
<1>8. CodeText(t) = first /\ Arguments(t) = args
  <2>1. \A k \in DOMAIN all : ~Contains(all[k], bar)
    BY <1>7, Zenon
  <2>2. Taken(w, bar, all, <<>>)
    BY <1>4, <2>1, PiecesOfTerminated, Zenon
  <2>3. QED
    BY <1>1, <1>2, <1>3, <1>5, <2>2, PartsOfMessage, Zenon
<1>9. PICK z \in Seq(Byte) : z = Terminated(args, bar)
  BY TerminatedType
<1>10. PICK m \in Nat : m = Len(q) /\ m >= 2
  BY <1>6
<1>11. PICK l \in Nat : l = Len(w) /\ l >= m + 1 /\ w[1] = "@" /\ w[l] = bar
  <2>1. Makes(Append(q, bar), z, w)
    BY <1>3, <1>4, <1>9, TerminatedFirst, Zenon
  <2>2. PICK b \in Seq(Byte) : b = Append(q, bar)
    BY AppendProperties
  <2>3. Len(b) = m + 1 /\ b[1] = q[1]
    BY <1>10, <2>2, AppendProperties
  <2>4. Meets(w, b, m + 1, z, Len(z))
    BY <2>1, <2>2, <2>3, ConcatMeets, Zenon DEF Makes
  <2>5. Len(z) \in Nat
    BY LenProperties
  <2>6. Len(w) = m + 1 + Len(z) /\ w[1] = b[1]
    BY <1>10, <2>4, <2>5 DEF Meets
  <2>7. all # <<>>
    <3>1. PICK D : D = Seq(Byte)
      OBVIOUS
    <3>2. q \in D /\ args \in Seq(D)
      BY <3>1
    <3>3. <<q>> \o args # <<>>
      BY <3>2
    <3>4. QED
      BY <1>3, <3>3, Zenon
  <2>8. Closed(w, bar)
    BY <1>4, <2>7, TerminatedClosed, Zenon
  <2>9. w[Len(w)] = bar
    BY <2>8, Zenon DEF Closed
  <2>10. QED
    BY <1>6, <2>3, <2>5, <2>6, <2>9
<1>12. Len(t) = l + 1 /\ t[l + 1] = bar /\ \A i \in 1 .. l : t[i] = w[i]
  BY <1>5, <1>11, AppendProperties
<1>13. ~TooShort(t)
  BY <1>10, <1>11, <1>12 DEF TooShort
<1>14. ~Unframed(t)
  <2>1. 1 \in 1 .. l /\ l \in 1 .. l /\ (l + 1) - 1 = l
    BY <1>10, <1>11
  <2>2. t[1] = "@" /\ t[Len(t)] = bar /\ t[Len(t) - 1] = bar
    BY <1>11, <1>12, <2>1
  <2>3. QED
    BY <1>1, <2>2, Zenon DEF Unframed
<1>15. Front(t) = w
  <2>1. Front(Append(w, bar)) = w
    BY FrontLast
  <2>2. QED
    BY <1>5, <2>1, Zenon
<1>16. EmptyArgument(t) <=> Paired(w, bar)
  BY <1>1, <1>15, Zenon DEF EmptyArgument, same_char_in_a_row, Paired
<1>17. ASSUME NEW k \in DOMAIN args, args[k] = <<>> PROVE Paired(w, bar)
  <2>1. k + 1 \in DOMAIN all /\ k + 1 # 1 /\ all[k + 1] = <<>>
    <3>1. PICK n \in Nat : n = Len(args) /\ DOMAIN args = 1 .. n
      BY LenProperties
    <3>2. PICK D : D = Seq(Byte)
      OBVIOUS
    <3>3. q \in D /\ args \in Seq(D)
      BY <3>2
    <3>4. Before(<<q>> \o args, q, args, Len(args))
      BY <3>3, OneIsBefore, Zenon
    <3>5. DOMAIN all = 1 .. (1 + n) /\ all[1 + k] = args[k]
      BY <1>3, <3>1, <3>4, Zenon DEF Before
    <3>6. k + 1 \in 1 .. (1 + n) /\ k + 1 # 1 /\ 1 + k = k + 1
      BY <3>1
    <3>7. QED
      BY <1>17, <3>5, <3>6, Zenon
  <2>2. QED
    BY <1>4, <2>1, EmptyPiecePairs, Zenon
<1>18. ASSUME \A k \in DOMAIN args : args[k] # <<>> PROVE ~Paired(w, bar)
  <2>1. \A k \in DOMAIN all : ~Contains(all[k], bar) /\ (k = 1 \/ all[k] # <<>>)
    BY <1>7, <1>18, Zenon
  <2>2. QED
    BY <1>4, <2>1, FullPiecesPairNot, Zenon
<1>19. EmptyArgument(t) <=> \E k \in DOMAIN args : args[k] = <<>>
  BY <1>16, <1>17, <1>18, Zenon
<1>20. QED
  BY <1>8, <1>13, <1>14, <1>19, Zenon

\* A request without quotes or dashes passes the checks exactly if it has no empty
\* argument, and Parser finds its code and its arguments.
LEMMA RequestIsUnderstood ==
    ASSUME NEW m \in Alone \cup Mixed, m.request # Invalid,
           NEW t, t = m.text, ~HasQuoteOrDashes(t)
    PROVE  /\ stoi(CodeText(t)) = m.request.code /\ Arguments(t) = m.request.args
           /\ Verdict(t) = "none" <=> \A k \in DOMAIN m.request.args : m.request.args[k] # <<>>
<1>1. PICK c, args : c = m.request.code /\ args = m.request.args
  OBVIOUS
<1>2. /\ c \in -9 .. 999 /\ args \in Seq(Seq(STRING))
      /\ \A k \in DOMAIN args : ~Contains(args[k], "|")
      /\ Invalid \notin Int
  <2>1. /\ m.request.code \in -9 .. 999
        /\ m.request.args \in Seq(Seq(STRING))
        /\ \A k \in DOMAIN m.request.args : ~Contains(m.request.args[k], "|")
    BY RequestAssumption, Zenon
  <2>2. Invalid \notin Int
    BY RequestAssumption, Zenon
  <2>3. QED
    BY <1>1, <2>1, <2>2, Zenon
<1>3. args \in Seq(Seq(Byte))
  <2>1. PICK S, B : S = STRING /\ B = Byte
    BY Zenon
  <2>2. S \subseteq B
    BY <2>1, Zenon DEF Byte
  <2>3. \A x \in Seq(S) : x \in Seq(B)
    BY <2>2
  <2>4. PICK C, D : C = Seq(S) /\ D = Seq(B)
    OBVIOUS
  <2>5. C \subseteq D
    BY <2>3, <2>4, Zenon
  <2>6. \A x \in Seq(C) : x \in Seq(D)
    BY <2>5
  <2>7. QED
    BY <1>2, <2>1, <2>4, <2>6, Zenon
<1>4. PICK first : first = CodeDigits(c)
  OBVIOUS
<1>5. /\ first \in Seq(Byte) /\ first # <<>> /\ ~Contains(first, "|")
      /\ stoi(first) = c
  BY <1>2, <1>4, CodeIsWritten, ZenonT(40) DEF Written
<1>6. t = Join(first, args)
  BY <1>1, <1>4, SentAssumption, Zenon DEF Encode
<1>7. /\ CodeText(t) = first /\ Arguments(t) = args
      /\ ~TooShort(t) /\ ~Unframed(t)
      /\ EmptyArgument(t) <=> \E k \in DOMAIN args : args[k] = <<>>
  BY <1>2, <1>3, <1>5, <1>6, RequestIsTakenApart, Zenon
<1>8. stoi(CodeText(t)) = c /\ c # Invalid
  <2>1. c \in Int
    BY <1>2
  <2>2. QED
    BY <1>2, <1>5, <1>7, <2>1, Zenon
<1>9. Verdict(t) = "none" <=> ~EmptyArgument(t)
  BY <1>7, <1>8, Zenon DEF Verdict
<1>10. QED
  BY <1>1, <1>7, <1>8, <1>9, Zenon

\* A request that arrives by itself is accepted exactly if its code is in the table
\* and no argument is empty, and then with its own code and arguments.
THEOREM RequestUnderstoodHolds == RSpec => []RequestUnderstood
<1>1. ParseInv => RequestUnderstood
  <2> SUFFICES ASSUME ParseInv, Judged, NEW k \in DOMAIN sent,
                      NEW r, r = sent[k].request, r # Invalid, text = sent[k].text,
                      ~HasQuoteOrDashes(text)
               PROVE  /\ outcome = "accepted" <=>
                            /\ \E i \in 0 .. N - 1 : ALL_MESSAGES_CODES[i] = r.code
                            /\ \A j \in DOMAIN r.args : r.args[j] # <<>>
                      /\ outcome = "accepted" => code = r.code /\ Arguments(text) = r.args
    BY Zenon DEF RequestUnderstood
  <2>1. PICK m \in Alone \cup Mixed : m = sent[k]
    BY DEF ParseInv, ReceiveInv, BytesOK
  <2>2. /\ stoi(CodeText(text)) = r.code /\ Arguments(text) = r.args
        /\ Verdict(text) = "none" <=> \A j \in DOMAIN r.args : r.args[j] # <<>>
    BY <2>1, RequestIsUnderstood, Zenon
  <2>3. /\ outcome = "accepted" <=> Verdict(text) = "none" /\ Known(text)
        /\ outcome = "accepted" => code = stoi(CodeText(text))
    BY Zenon DEF ParseInv, Decided
  <2>4. Known(text) <=> \E i \in 0 .. N - 1 : ALL_MESSAGES_CODES[i] = r.code
    BY <2>2, Zenon DEF Known
  <2>5. QED
    BY <2>2, <2>3, <2>4, Zenon
<1>2. QED
  BY <1>1, ParseInit, ParseStep, PTL DEF RSpec
=============================================================================
