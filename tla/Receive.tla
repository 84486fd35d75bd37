------------------------------ MODULE Receive ------------------------------
(***************************************************************************)
(* How the bytes of a client become requests: Server::recvFunction reads   *)
(* what TCP has into _buffer, takes the text up to its first NUL for one   *)
(* message, and Parser accepts or refuses it.  TCP keeps the order of the  *)
(* bytes and nothing else: a request can arrive in pieces and two requests *)
(* can arrive as one.                                                      *)
(*                                                                         *)
(* _buffer is shared by all clients.  Before a recv, only as much of it is *)
(* cleared as the string in it is long.  A recv that fills it leaves no    *)
(* NUL, and the string goes on into the members behind it; clearing it the *)
(* next time overwrites them, the vector of clients first.                 *)
(***************************************************************************)
EXTENDS Parser

CONSTANTS
    Alone,      \* what clients send by itself, and
    Mixed,      \* what they send one after the other: [text, request]
    BufLen,     \* DEFAULT_BUFLEN
    MaxBytes    \* bound on the bytes sent

MinLength == 4   \* MIN_LENGTH_MESSAGR

ASSUME ReceiveAssumption ==
    /\ BufLen \in Nat /\ BufLen > MinLength /\ MaxBytes \in Nat

VARIABLES
    sent,       \* what clients have sent
    stream,     \* the bytes under way
    buffer,     \* _buffer
    chunk,      \* what the last recv returned
    text,       \* the message made of it
    junk,       \* the bytes that string(_buffer) read behind _buffer
    outcome,    \* of the last message
    server      \* "up", "closed" (the connection), "corrupt" (the memory)

input == <<sent, stream, buffer, chunk, text, junk, server>>
rvars == <<vars, input, outcome>>

\* A client puts a request together by the structure @msgcode|arg1|arg2||
CodeDigits(n) ==
    CASE n < 0 -> <<"-", Digits[1 - n]>>
      [] n \in 0 .. 9 -> <<Digits[n + 1]>>
      [] n \in 10 .. 99 -> <<Digits[(n \div 10) + 1], Digits[(n % 10) + 1]>>
      [] OTHER -> <<Digits[(n \div 100) + 1], Digits[((n \div 10) % 10) + 1], Digits[(n % 10) + 1]>>

Join(first, args) == <<"@">> \o first \o <<"|">> \o Terminated(args, "|") \o <<"|">>

Encode(request) == Join(CodeDigits(request.code), request.args)

\* A text is a request [code, args] or, with request = Invalid, anything else.
ASSUME SentAssumption ==
    \A m \in Alone \cup Mixed : m.request # Invalid => m.text = Encode(m.request)

\* The codes that CodeDigits writes; an argument has no separator in it.
ASSUME RequestAssumption ==
    /\ Invalid \notin Int
    /\ \A m \in Alone \cup Mixed : m.request # Invalid =>
          /\ m.request.code \in -9 .. 999
          /\ m.request.args \in Seq(Seq(STRING))
          /\ \A k \in DOMAIN m.request.args : ~Contains(m.request.args[k], "|")

\* Texts are made of bytes.
ASSUME TextsAssumption == \A m \in Alone \cup Mixed : m.text \in Seq(STRING)

NUL == "NUL"

\* The C string at the start of a sequence of bytes.
CString(bytes) == LET ends == {k \in DOMAIN bytes : bytes[k] = NUL}
                  IN  IF ends = {} THEN bytes ELSE SubSeq(bytes, 1, Min(ends) - 1)

RInit ==
    /\ code = 0 /\ left = 0 /\ right = 0 /\ pc = "recv"
    /\ sent = <<>> /\ stream = <<>>
    /\ buffer = [k \in 1 .. BufLen |-> NUL]
    /\ chunk = <<>> /\ text = <<>> /\ junk = <<>>
    /\ outcome = "none" /\ server = "up"
-----------------------------------------------------------------------------
send(m) ==
    /\ server = "up" /\ pc = "recv"
    /\ Len(FlattenSeq([k \in DOMAIN sent |-> sent[k].text])) + Len(m.text) <= MaxBytes
    /\ sent' = Append(sent, m)
    /\ stream' = stream \o m.text
    /\ UNCHANGED <<vars, buffer, chunk, text, junk, outcome, server>>

\* memset(_buffer, 0, strlen(_buffer)), and recv over it.
ClearedNever == buffer
Cleared == [k \in 1 .. BufLen |-> IF k <= Len(CString(buffer)) THEN NUL ELSE buffer[k]]

Filled(bytes) == [k \in 1 .. BufLen |-> IF k <= Len(bytes) THEN bytes[k] ELSE Cleared[k]]

\* recv returns fewer than MIN_LENGTH_MESSAGR bytes.
recvShort(k) ==
    /\ k < MinLength
    /\ server' = "closed"
    /\ UNCHANGED <<vars, sent, stream, buffer, chunk, text, junk, outcome>>

\* The text of a message is whatever string(_buffer) finds.
recvMessage(k) ==
    /\ k >= MinLength
    /\ chunk' = SubSeq(stream, 1, k)
    /\ stream' = SubSeq(stream, k + 1, Len(stream))
    /\ buffer' = Filled(chunk')
    /\ junk' \in IF Len(CString(buffer')) = BufLen THEN {<<>>, <<"junk">>} ELSE {<<>>}
    /\ text' = CString(buffer') \o junk'
    /\ pc' = "parse"
    /\ UNCHANGED <<code, left, right, sent, outcome, server>>

recv(k) ==
    /\ server = "up" /\ pc = "recv" /\ stream # <<>>
    /\ IF junk # <<>>
       THEN server' = "corrupt" /\ UNCHANGED <<vars, sent, stream, buffer, chunk, text, junk, outcome>>
       ELSE recvShort(k) \/ recvMessage(k)

\* The constructor of Parser, up to FIND_MSG_CODE.
parse ==
    /\ pc = "parse"
    /\ \/ /\ Verdict(text) # "none"
          /\ outcome' = Verdict(text)
          /\ pc' = "recv"
          /\ UNCHANGED <<code, left, right>>
       \/ /\ Verdict(text) = "none"
          /\ code' = stoi(CodeText(text)) /\ left' = 0 /\ right' = LastIndex
          /\ pc' = "loop"
          /\ UNCHANGED outcome
    /\ UNCHANGED input

search == FIND_MSG_CODE /\ UNCHANGED <<input, outcome>>

parsed ==
    /\ pc \in {"true", "false"}
    /\ outcome' = IF pc = "true" THEN "accepted" ELSE "InvalidCodeNumberException"
    /\ pc' = "recv"
    /\ UNCHANGED <<code, left, right, input>>

RNext ==
    \/ sent = <<>> /\ \E m \in Alone : send(m)
    \/ ToSet(sent) \subseteq Mixed /\ \E m \in Mixed : send(m)
    \/ \E k \in 1 .. BufLen : k <= Len(stream) /\ recv(k)
    \/ parse \/ search \/ parsed

\* The handling thread goes on; clients need not send.  Fairness of parse is
\* stated on what it does to pc: parse can always be taken at pc = "parse".
LeavesParse == pc = "parse" /\ pc' \in {"loop", "recv"}

RSpec == RInit /\ [][RNext]_rvars /\ WF_pc(LeavesParse) /\ WF_rvars(search \/ parsed)
-----------------------------------------------------------------------------
(***************************************************************************)
(* Properties                                                              *)
(***************************************************************************)

\* One text was read and judged.
Judged == pc = "recv" /\ outcome # "none"

\* The message is what recv returned, unless some client sent a NUL (then it can
\* be shorter, or end in what an earlier message, of any client, left in _buffer)
\* or recv filled the buffer (then it can go on behind it).
TextIsReceived ==
    \/ text = chunk
    \/ \E k \in DOMAIN sent : Contains(sent[k].text, NUL)
    \/ Len(chunk) = BufLen

\* However the stream is cut, if clients only send framed texts, a message that
\* is accepted is one of these texts, whole; only a text with an @ inside an
\* argument can be cut so that its end is taken for another request.
AcceptedWasSent ==
    /\ Judged /\ outcome = "accepted" /\ text = chunk
    /\ \A k \in DOMAIN sent : ~Unframed(sent[k].text) /\ ~EmptyArgument(sent[k].text)
    => \E k \in DOMAIN sent :
          /\ IsSuffix(text, sent[k].text)
          /\ Cardinality({j \in DOMAIN sent[k].text : sent[k].text[j] = "@"}) = 1 =>
                text = sent[k].text

\* A request that arrives by itself is understood: it is accepted exactly if its
\* code is in the table and no argument is empty, with its own code and arguments.
RequestUnderstood ==
    Judged =>
        \A k \in DOMAIN sent :
            LET r == sent[k].request
            IN  r # Invalid /\ text = sent[k].text /\ ~HasQuoteOrDashes(text) =>
                    /\ outcome = "accepted" <=>
                          /\ \E i \in 0 .. N - 1 : ALL_MESSAGES_CODES[i] = r.code
                          /\ \A j \in DOMAIN r.args : r.args[j] # <<>>
                    /\ outcome = "accepted" => code = r.code /\ Arguments(text) = r.args

\* What is accepted gives back the text: no character is lost between the
\* separators, and every argument has at least one.
NothingDropped ==
    Judged /\ outcome = "accepted" =>
        /\ Join(CodeText(text), Arguments(text)) = text
        /\ \A k \in DOMAIN Arguments(text) : Arguments(text)[k] # <<>>

\* Every message is judged: the search returns.
EveryMessageJudged == pc = "parse" ~> pc = "recv"
=============================================================================
