---------------------------- MODULE RequestReader ----------------------------
(***************************************************************************)
(* How connection_cb (mainloop.c) finds the end of a request in the bytes  *)
(* that arrive, and how manage_header_body (wsgi.c) takes the body out of  *)
(* the buffer for wsgi.input.                                              *)
(*                                                                         *)
(* A request is a few numbers; what the bytes say does not matter.         *)
(* Offsets count from the start of input_header.                           *)
(***************************************************************************)
EXTENDS Integers

CONSTANTS
    MaxBuff,        \* MAX_BUFF: the most bytes one read() returns
    MaxHead,        \* bound: bytes before the empty line
    MaxBody,        \* bound: bytes declared, and bytes after those
    MaxSays,        \* bound: what another "Content-Length: " says
    ClientFaults    \* what clients do that connection_cb does not expect

\* "other_case": the header is not spelled exactly "Content-Length: ";
\* "other_text": that text stands elsewhere too, in a header before it
\* ("X-Content-Length: 9"), in the URI or in the body;
\* "early_eof": the client shuts down before it sent the whole request.
Faults == {"other_case", "other_text", "early_eof"}

ASSUME ConstantsAssumption ==
    /\ MaxBuff \in Nat \ {0}
    /\ MaxHead \in Nat \ {0}
    /\ MaxBody \in Nat
    /\ MaxSays \in Nat /\ MaxSays >= MaxBody
    /\ ClientFaults \subseteq Faults

Null == -1      \* input_body is NULL; also: the request declares no length
CrLf2 == 4      \* the length of the empty line, CR LF CR LF

MaxTotal == MaxHead + CrLf2 + 2 * MaxBody

\* The first "Content-Length: " among all the bytes of a request, which is
\* what strstr finds: the offset after it, the offset after the number that
\* follows, and that number (0 for a negative one, which does as well).
LengthTexts == [at : 0 .. MaxTotal, end : 0 .. MaxTotal, says : 0 .. MaxSays]
NoLength == [at |-> Null, end |-> Null, says |-> Null]

\* headLen bytes, the empty line, as many bytes as declared, and more bytes
\* after those.
Requests ==
    [post : BOOLEAN, headLen : 1 .. MaxHead, declared : Null .. MaxBody,
     found : LengthTexts \cup {NoLength}, more : 0 .. MaxBody]

VARIABLES
    req,            \* what the client sends
    pos,            \* input_pos: the bytes that arrived
    bodyAt,         \* input_body, as an offset
    phase,          \* "reading", "writing" (write_cb is on), "served", "refused"
    input,          \* the bytes manage_header_body wrote to wsgi.input
    cutOff          \* history: the client shut down before its body's end

vars == <<req, pos, bodyAt, phase, input, cutOff>>

NoInput == [from |-> Null, len |-> 0]

BodyStart == req.headLen + CrLf2
Declared == IF req.declared = Null THEN 0 ELSE req.declared
BodyEnd == BodyStart + Declared
Total == BodyEnd + req.more

\* connection_cb sees the length the client declared, if it declared one.
LengthSeen ==
    IF req.declared = Null
        THEN req.found = NoLength
        ELSE req.found.end \in 1 .. req.headLen /\ req.found.says = req.declared

\* What a client sends.  A header that is spelled right is found, or
\* something before it is.
Sendable ==
    /\ req.found = NoLength \/ (req.found.at < req.found.end /\ req.found.end <= Total)
    /\ \/ req.declared = Null
       \/ req.found.end \in 1 .. req.headLen
       \/ "other_case" \in ClientFaults
    /\ LengthSeen \/ req.found = NoLength \/ "other_text" \in ClientFaults

Init ==
    /\ req \in Requests
    /\ Sendable
    /\ pos = 0
    /\ bodyAt = Null
    /\ phase = "reading"
    /\ input = NoInput
    /\ cutOff = FALSE

\* bodylength, with n bytes in the buffer: nothing when there is no such text
\* among them.  strtol of a number that is cut off is what the digits that
\* arrived make, which is no more than the number.
Seen(n) ==
    IF req.found = NoLength \/ n < req.found.at THEN {}
    ELSE IF n < req.found.end THEN 0 .. req.found.says
    ELSE {req.found.says}

\* Mutant: one byte more than the length is waited for.
BodyArrivedStrict(n, bodylength) == n > bodylength + CrLf2 + req.headLen

\* The test for the last byte of the body, with n bytes in the buffer.
BodyArrived(n, bodylength) == n >= bodylength + CrLf2 + req.headLen

\* What connection_cb does when the buffer holds n bytes.  It starts over
\* with every read: the empty line and the length are searched in the whole
\* buffer, and input_body is moved past the one only when there is the other
\* and all of a body arrived.
ReadToSkipping(n, skip) ==
    \/ /\ n < BodyStart
       /\ bodyAt' = Null
       /\ phase' = "reading"
    \/ /\ n >= BodyStart /\ Seen(n) = {}
       /\ bodyAt' = req.headLen
       /\ phase' = "writing"
    \/ /\ n >= BodyStart
       /\ \E bodylength \in Seen(n) : ~BodyArrived(n, bodylength)
       /\ bodyAt' = req.headLen
       /\ phase' = "reading"
    \/ /\ n >= BodyStart
       /\ \E bodylength \in Seen(n) : BodyArrived(n, bodylength)
       /\ bodyAt' = req.headLen + skip
       /\ phase' = "writing"

\* Mutant: input_body stays at the empty line.
ReadToAtEmptyLine(n) == ReadToSkipping(n, 0)

ReadTo(n) == ReadToSkipping(n, CrLf2)

\* One read() and what follows.
Read ==
    /\ phase = "reading"
    /\ \E r \in 1 .. MaxBuff :
        /\ pos + r <= Total
        /\ pos' = pos + r
        /\ ReadTo(pos + r)
    /\ UNCHANGED <<req, input, cutOff>>

\* read() returned 0: what arrived is the request.  A client may tire of
\* waiting for the answer to a whole request, too.  (With nothing read at
\* all: ReadEof and ReadNothing in MainLoop.)
Eof ==
    /\ phase = "reading" /\ pos > 0
    /\ pos < BodyEnd => "early_eof" \in ClientFaults
    /\ phase' = "writing"
    /\ cutOff' = (pos < BodyEnd)
    /\ UNCHANGED <<req, pos, bodyAt, input>>

\* python_handler refuses a POST without Content-Length (411), and may
\* refuse what is no complete header (501).
Refuse ==
    /\ phase = "writing"
    /\ (req.post /\ req.declared = Null) \/ pos < BodyStart
    /\ phase' = "refused"
    /\ UNCHANGED <<req, pos, bodyAt, input, cutOff>>

\* python_handler calls the application.  For a POST manage_header_body has
\* copied HTTP_CONTENT_LENGTH bytes from wherever input_body points; that
\* name is upper case however the client spelled it.
Serve ==
    /\ phase = "writing"
    /\ req.post => req.declared # Null
    /\ phase' = "served"
    /\ input' = IF req.post THEN [from |-> bodyAt, len |-> req.declared] ELSE NoInput
    /\ UNCHANGED <<req, pos, bodyAt, cutOff>>

Next == Read \/ Eof \/ Refuse \/ Serve

Spec == Init /\ [][Next]_vars

-----------------------------------------------------------------------------
(* Properties *)

\* Every variable has its type, and no read goes past the request.
TypeOK ==
    /\ req \in Requests
    /\ pos \in 0 .. Total
    /\ bodyAt \in {Null, req.headLen, BodyStart}
    /\ phase \in {"reading", "writing", "served", "refused"}
    /\ input \in [from : {Null, req.headLen, BodyStart}, len : 0 .. MaxBody]
    /\ cutOff \in BOOLEAN

\* However the reads split a POST, and whatever follows its body, wsgi.input
\* gets the declared bytes, all of them after the empty line, and all of them
\* have arrived: unless connection_cb could not see the length, or the client
\* shut down early.
BodyExact ==
    phase = "served" /\ req.post /\ LengthSeen /\ ~cutOff =>
        /\ input.len = req.declared
        /\ input.len > 0 => input.from = BodyStart
        /\ BodyEnd <= pos

\* connection_cb does not wait for bytes the client has no reason to send: a
\* request that has arrived is handed to write_cb by the read that completed
\* it, whether or not more bytes came with it.  The one exception is a request
\* with a text "Content-Length: " before its own header, or instead of it,
\* that claims more than the client declared: strstr takes the first in the
\* buffer for the header, wherever it is (mainloop.c:731).
CompleteIsAnswered ==
    phase = "reading" /\ BodyEnd <= pos =>
        req.found # NoLength /\ Declared < req.found.says

=============================================================================
