------------------------ MODULE ResponseWriterProofs ------------------------
(***************************************************************************)
(* The response on the wire is a prefix of the one the application gave,   *)
(* but for a header that failed once too often, for all sizes: proofs of   *)
(* the invariants of ResponseWriter.                                       *)
(***************************************************************************)
EXTENDS ResponseWriter, TLAPS

\* What python_handler and write_response leave for write_cb.
RequestInv ==
    /\ \A i \in Buffers : i > chunks => size[i] = 0
    /\ size[0] > 0
    /\ AsIter => chunks > 0
    /\ parked => kind = "list"

\* Where write_cb is in the body: buf is the chunk response_iter_sent says.
PlaceInv ==
    ~closed =>
        /\ buf = 0 => iter = -2
        /\ buf > 0 => buf = iter + 1 /\ buf <= chunks /\ ~head /\ kind # "iterable"
        /\ kind = "file" => buf <= 1 /\ (buf = NoBuf => iter \in {-2, -1})
        /\ AsIter /\ buf = NoBuf => iter + 1 < chunks
        /\ AsList => iter <= chunks

\* A chunk of a list failed: the next call of write_cb ends the response.
Ended == AsList /\ buf = NoBuf /\ iter >= chunks

\* A failed chunk is followed by nothing, and so is a failed header of
\* write_response_cb.
RetryInv ==
    ~closed =>
        /\ iter = -2 => retry <= MaxRetry
        /\ retry > MaxRetry + 1 => Ended
        /\ retry > MaxRetry /\ parked => Ended

\* On a working connection everything before the current buffer was written
\* and nothing after it.
Frontier == IF buf = NoBuf THEN iter + 2 ELSE buf

FrontierInv ==
    ~closed /\ ~Broken =>
        \A i \in Buffers :
            /\ i < Frontier => sent[i] = Asked(i)
            /\ i > Frontier \/ (i = Frontier /\ buf = NoBuf) => sent[i] = 0

\* As long as the client is there, what failed is the header or the chunk
\* that ended a list: the chunks before the current one were written.
ChunksInv ==
    ~closed /\ sock # "gone" /\ ~Ended =>
        \A i \in Buffers : 0 < i /\ i < Frontier => sent[i] = Asked(i)

SentInv == \A i \in Buffers : sent[i] <= size[i]

WireInv ==
    /\ PrefixSent
    /\ kind \notin {"file", "iterable"} => ClosedWhenSent

Shape == TypeOK /\ RequestInv /\ PlaceInv /\ RetryInv

\* The inductive invariant.
IInv == Shape /\ FrontierInv /\ ChunksInv /\ SentInv /\ WireInv

USE ConstantsAssumption DEF NoBuf, Buffers, AsList, AsIter

\* The constants as the arithmetic needs them.
LEMMA Constants ==
    /\ Block \in Int /\ Block > 1
    /\ MaxRetry \in Int /\ MaxRetry >= 0
    /\ MaxLen \in Int /\ MaxLen > 0
    /\ MaxChunks \in Int /\ MaxChunks > 0
  BY DEF ConstantsAssumption

\* What TypeOK says of numbers.
LEMMA Typing ==
    ASSUME TypeOK
    PROVE  /\ chunks \in Int /\ chunks >= 0 /\ chunks <= MaxChunks
           /\ iter \in Int /\ iter >= -2
           /\ buf \in Int /\ buf >= -1 /\ buf <= MaxChunks
           /\ retry \in Int /\ retry >= 0
           /\ \A i \in Buffers : /\ size[i] \in Int /\ size[i] >= 0
                                 /\ sent[i] \in Int /\ sent[i] >= 0
           /\ 0 \in Buffers /\ 1 \in Buffers
  BY Constants DEF TypeOK

\* write_cli is asked for no more than there is, and for all of the header.
LEMMA AskedBound ==
    ASSUME TypeOK, PlaceInv, ~closed, buf # NoBuf
    PROVE  /\ Asked(buf) \in Int /\ Asked(buf) <= size[buf]
           /\ kind # "file" \/ buf = 0 => Asked(buf) = size[buf]
<1>1. buf \in Buffers
  BY DEF TypeOK
<1>2. size[buf] \in Int /\ size[buf] >= 0
  BY <1>1, Typing
<1>3. CASE kind = "file" /\ buf # 0
  <2>1. buf = 1
    BY <1>3, Typing DEF PlaceInv
  <2>2. FileRead <= size[1] /\ FileRead \in Int
    BY <1>2, <2>1, Constants DEF FileRead
  <2> QED BY <1>3, <2>1, <2>2 DEF Asked
<1> QED BY <1>2, <1>3 DEF Asked

\* Everything holds when the handler returns.
LEMMA InitInv == Init => IInv
<1> SUFFICES ASSUME Init PROVE IInv
  OBVIOUS
<1>1. TypeOK
  <2>1. iter \in -2 .. MaxChunks + 1 /\ retry \in 0 .. MaxRetry + 2
    BY Constants DEF Init
  <2>2. sent \in [Buffers -> 0 .. MaxLen]
    BY Constants DEF Init
  <2>3. /\ kind \in Kinds /\ size \in [Buffers -> 0 .. MaxLen]
        /\ chunks \in 0 .. MaxChunks /\ head \in BOOLEAN /\ parked \in BOOLEAN
        /\ buf = NoBuf /\ sock \in {"ready", "full"}
        /\ closed = FALSE /\ inUse = FALSE /\ closable \in BOOLEAN
    BY DEF Init
  <2> QED BY <2>1, <2>2, <2>3 DEF TypeOK
<1>2. RequestInv
  BY DEF Init, RequestInv
<1>3. PlaceInv /\ RetryInv
  BY <1>1, Typing, Constants DEF Init, PlaceInv, RetryInv, Ended, TypeOK
<1>4. \A i \in Buffers : sent[i] = 0
  BY DEF Init
<1>5. FrontierInv /\ ChunksInv /\ SentInv /\ WireInv
  <2>1. FrontierInv
    BY <1>4, Constants DEF Init, FrontierInv, Frontier
  <2>2. SentInv
    BY <1>1, <1>4, Typing DEF SentInv
  <2>3. WireInv
    BY <1>4 DEF PrefixSent, Init, ClosedWhenSent, WireInv
  <2>4. ChunksInv
    BY Constants DEF Init, ChunksInv, Frontier
  <2> QED BY <2>1, <2>2, <2>3, <2>4
<1> QED BY <1>1, <1>2, <1>3, <1>5 DEF IInv, Shape

\* The three steps that leave write_cli, with the result it returns.
ReturnStep(ok) ==
    /\ buf # NoBuf /\ ~closed
    /\ Returned(ok)
    /\ UNCHANGED <<request, sent, sock>>
    /\ ok => Remaining(buf) = 0
    /\ \/ retry' = retry
       \/ /\ retry' = retry + 1 /\ retry >= MaxRetry
          /\ ~ok
    /\ ok \/ sock = "gone" \/ retry' = retry + 1

LEMMA StepReturns ==
    ASSUME WriteDone \/ ClientGone \/ GiveUp
    PROVE  \E ok \in BOOLEAN : ReturnStep(ok)
<1>1. ASSUME WriteDone PROVE ReturnStep(TRUE)
  BY <1>1 DEF WriteDone, InWriteCli, ReturnStep
<1>2. ASSUME ClientGone PROVE ReturnStep(FALSE)
  BY <1>2 DEF ClientGone, InWriteCli, ReturnStep
<1>3. ASSUME GiveUp PROVE ReturnStep(FALSE)
  BY <1>3 DEF GiveUp, InWriteCli, ReturnStep
<1> QED BY <1>1, <1>2, <1>3

\* The result goes to the caller write_cli has.
LEMMA Caller ==
    ASSUME NEW ok, Returned(ok)
    PROVE  /\ buf = 0 => HeaderReturned(ok)
           /\ buf > 0 /\ AsList => ListReturned(ok)
           /\ buf > 0 /\ kind = "file" => FileReturned
           /\ buf > 0 /\ AsIter => IterReturned(ok)
<1>1. buf > 0 => ~HeaderReturned(ok)
  BY DEF HeaderReturned
<1>2. ListReturned(ok) => buf > 0 /\ AsList
  BY DEF ListReturned
<1>3. FileReturned => buf > 0 /\ kind = "file"
  BY DEF FileReturned
<1>4. IterReturned(ok) => buf > 0 /\ AsIter
  BY DEF IterReturned
<1> QED BY <1>1, <1>2, <1>3, <1>4 DEF Returned

LEMMA ReturnShape == ASSUME Shape, NEW ok \in BOOLEAN, ReturnStep(ok) PROVE Shape'
<1> USE DEF Shape
<1>0. TypeOK /\ RequestInv /\ PlaceInv /\ RetryInv
  OBVIOUS
<1>1. RequestInv'
  BY <1>0 DEF RequestInv, ReturnStep, request
<1>2. retry <= MaxRetry + 1 /\ retry' \in 0 .. MaxRetry + 2
  BY <1>0, Typing, Constants DEF RetryInv, Ended, ReturnStep
<1>3. Returned(ok) /\ buf # NoBuf /\ ~closed
  BY DEF ReturnStep
<1>4. CASE buf = 0
  <2>1. HeaderReturned(ok)
    BY <1>3, <1>4, Caller
  <2>2. iter = -2 /\ retry <= MaxRetry
    BY <1>0, <1>3, <1>4 DEF PlaceInv, RetryInv
  <2>3. TypeOK'
    <3>1. iter' \in -2 .. MaxChunks + 1 /\ buf' \in Buffers \cup {NoBuf} /\ closed' \in BOOLEAN
      <4>1. (iter' = -1 /\ closed' = closed) \/ (iter' = iter /\ closed' = TRUE)
        BY <2>1 DEF HeaderReturned, CloseConnection
      <4>2. buf' = NoBuf
        BY <2>1 DEF HeaderReturned, CloseConnection
      <4>3. -1 \in -2 .. MaxChunks + 1
        BY Constants
      <4>4. iter' \in -2 .. MaxChunks + 1
        BY <1>0, <4>1, <4>3 DEF TypeOK
      <4>5. closed' \in BOOLEAN
        BY <1>0, <4>1 DEF TypeOK
      <4> QED BY <4>2, <4>4, <4>5
    <3> QED BY <1>0, <1>2, <2>1, <3>1 DEF HeaderReturned, TypeOK, ReturnStep, request
  <2>4. PlaceInv'
    BY <1>0, <1>3, <2>1, <2>2, Typing
       DEF HeaderReturned, CloseConnection, PlaceInv, RequestInv, ReturnStep, request
  <2>5. RetryInv'
    <3>1. CASE closed'
      BY <3>1 DEF RetryInv
    <3>2. CASE ~closed'
      <4>1. iter' = -1 /\ (parked => ok)
        BY <2>1, <3>2 DEF HeaderReturned, CloseConnection
      <4>2. ~(retry' > MaxRetry + 1) /\ iter' # -2
        BY <1>0, <2>2, <4>1, Typing, Constants DEF ReturnStep
      <4>3. parked' => retry' <= MaxRetry
        BY <1>0, <1>4, <2>2, <4>1, Typing, Constants DEF ReturnStep, request
      <4> QED BY <1>0, <1>2, <4>2, <4>3, Constants DEF RetryInv
    <3> QED BY <3>1, <3>2
  <2> QED BY <1>1, <2>3, <2>4, <2>5
<1>5. CASE buf > 0 /\ AsList
  <2>1. ListReturned(ok)
    BY <1>3, <1>5, Caller
  <2>2. TypeOK'
    BY <1>0, <1>2, <2>1, Typing, Constants DEF ListReturned, TypeOK, ReturnStep, request
  <2>3. PlaceInv'
    BY <1>0, <1>3, <1>5, <2>1, Typing DEF ListReturned, PlaceInv, ReturnStep, request
  <2>4. RetryInv'
    BY <1>0, <1>2, <1>3, <1>5, <2>1, Typing, Constants
       DEF ListReturned, PlaceInv, RetryInv, Ended, ReturnStep, request
  <2> QED BY <1>1, <2>2, <2>3, <2>4
<1>6. CASE buf > 0 /\ kind = "file"
  <2>1. FileReturned
    BY <1>3, <1>6, Caller
  <2>2. TypeOK'
    BY <1>0, <1>2, <2>1
       DEF FileReturned, StopAndClose, CloseConnection, TypeOK, ReturnStep, request
  <2>3. closed'
    BY <2>1 DEF FileReturned, StopAndClose, CloseConnection
  <2> QED BY <1>1, <2>2, <2>3 DEF PlaceInv, RetryInv
<1>7. CASE buf > 0 /\ AsIter
  <2>1. IterReturned(ok)
    BY <1>3, <1>7, Caller
  <2>2. TypeOK'
    BY <1>0, <1>2, <2>1
       DEF IterReturned, StopAndClose, CloseConnection, TypeOK, ReturnStep, request
  <2>3. CASE closed'
    BY <1>1, <2>2, <2>3 DEF PlaceInv, RetryInv
  <2>4. CASE ~closed'
    <3>1. ok /\ buf < chunks /\ buf' = NoBuf /\ iter' = iter /\ retry' = retry
      BY <2>1, <2>4 DEF IterReturned, StopAndClose, CloseConnection, ReturnStep
    <3>2. PlaceInv' /\ RetryInv'
      BY <1>0, <1>3, <1>7, <3>1, Typing DEF PlaceInv, RetryInv, Ended, ReturnStep, request
    <3> QED BY <1>1, <2>2, <3>2
  <2> QED BY <2>3, <2>4
<1>8. buf = 0 \/ (buf > 0 /\ kind # "iterable")
  BY <1>0, <1>3, Typing DEF PlaceInv
<1>9. kind \in AllKinds
  BY <1>0 DEF TypeOK
<1> QED BY <1>4, <1>5, <1>6, <1>7, <1>8, <1>9 DEF AllKinds

\* The parts that speak of the control only.
LEMMA ShapeStep == ASSUME Shape, [Next]_vars PROVE Shape'
<1> USE DEF Shape, Ended
<1>0. TypeOK /\ RequestInv /\ PlaceInv /\ RetryInv
  OBVIOUS
<1>1. CASE WriteCb
  <2>0. UNCHANGED request
    BY <1>1 DEF WriteCb, WriteHeader, EndOfHead, ListChunk, ListEnd,
       FileEmpty, FileBlock, IterChunk, NotWritable
  <2>1. RequestInv'
    BY <1>0, <2>0 DEF RequestInv, request
  <2>2. CASE WriteHeader
    BY <1>0, <2>1, <2>2, Typing, Constants DEF WriteHeader, Idle, TypeOK, PlaceInv,
       RetryInv, request
  <2>3. CASE EndOfHead
    BY <1>0, <2>1, <2>3 DEF EndOfHead, Idle, StopAndClose, CloseConnection, TypeOK,
       PlaceInv, RetryInv, request
  <2>4. CASE ListChunk
    BY <1>0, <2>1, <2>4, Typing, Constants DEF ListChunk, Idle, TypeOK, PlaceInv,
       RetryInv, request
  <2>5. CASE ListEnd
    BY <1>0, <2>1, <2>5, Typing, Constants, SMTT(20) DEF ListEnd, Idle, StopAndClose,
       CloseConnection, TypeOK, PlaceInv, RetryInv, request
  <2>6. CASE FileEmpty
    BY <1>0, <2>1, <2>6, Typing, Constants DEF FileEmpty, Idle, StopAndClose,
       CloseConnection, TypeOK, PlaceInv, RetryInv, request
  <2>7. CASE FileBlock
    BY <1>0, <2>1, <2>7, Typing, Constants DEF FileBlock, FileRead, Idle, TypeOK,
       PlaceInv, RetryInv, request
  <2>8. CASE IterChunk
    BY <1>0, <2>1, <2>8, Typing, Constants DEF IterChunk, Idle, TypeOK, PlaceInv,
       RetryInv, request
  <2>9. CASE NotWritable
    BY <1>0, <2>1, <2>9 DEF NotWritable, Idle, CloseConnection, TypeOK, PlaceInv,
       RetryInv, request
  <2> QED BY <1>1, <2>2, <2>3, <2>4, <2>5, <2>6, <2>7, <2>8, <2>9 DEF WriteCb
<1>2. CASE WriteSome
  <2>1. PICK r \in 1 .. Block : r <= Remaining(buf) /\ sent' = [sent EXCEPT ![buf] = @ + r]
    BY <1>2 DEF WriteSome
  <2>2. r \in Int /\ r >= 1
    BY Constants
  <2>3. buf \in Buffers /\ ~closed /\ buf # NoBuf
    BY <1>0, <1>2 DEF WriteSome, InWriteCli, TypeOK
  <2>4. sent[buf] + r \in 0 .. MaxLen
    <3>1. Asked(buf) \in Int /\ Asked(buf) <= size[buf]
      BY <1>0, <2>3, AskedBound
    <3>2. /\ size[buf] \in Int /\ size[buf] <= MaxLen
          /\ sent[buf] \in Int /\ sent[buf] >= 0
      BY <1>0, <2>3 DEF TypeOK
    <3>3. r \in Int /\ r >= 1 /\ sent[buf] + r <= Asked(buf)
      BY <2>1, <2>2, <3>1, <3>2 DEF Remaining
    <3> HIDE ConstantsAssumption DEF Buffers, AsList, AsIter
    <3> QED BY <3>1, <3>2, <3>3, Constants
  <2>5. TypeOK'
    BY <1>0, <1>2, <2>1, <2>3, <2>4 DEF WriteSome, TypeOK, request
  <2> QED BY <1>0, <1>2, <2>5 DEF WriteSome, RequestInv, PlaceInv, RetryInv, request
<1>3. CASE WriteError
  <2>1. retry < MaxRetry /\ retry' = retry + 1
        /\ UNCHANGED <<kind, size, chunks, head, parked, iter, buf, sent, sock,
                       closed, inUse, closable>>
    BY <1>3, Zenon DEF WriteError, request
  <2>2. retry' \in 0 .. MaxRetry + 2 /\ retry' <= MaxRetry
    BY <1>0, <2>1, Typing, Constants
  <2>3. TypeOK'
    BY <1>0, <2>1, <2>2 DEF TypeOK
  <2>4. RequestInv' /\ PlaceInv'
    BY <1>0, <2>1 DEF RequestInv, PlaceInv
  <2>5. RetryInv'
    BY <1>0, <2>1, <2>2, Typing, Constants DEF RetryInv
  <2> QED BY <2>3, <2>4, <2>5
<1>4. CASE WriteDone \/ ClientGone \/ GiveUp
  <2>1. PICK ok \in BOOLEAN : ReturnStep(ok)
    BY <1>4, StepReturns
  <2> QED BY <2>1, ReturnShape
<1>5. CASE ClientReads \/ ClientLeaves
  <2>1. sock' \in {"ready", "gone"} /\ (sock = "gone" => sock' = "gone")
        /\ UNCHANGED <<request, iter, buf, sent, retry, closed,
                       inUse, closable>>
    BY <1>5 DEF ClientReads, ClientLeaves
  <2> QED BY <1>0, <2>1 DEF TypeOK, RequestInv, PlaceInv, RetryInv, request
<1>6. CASE UNCHANGED vars
  BY <1>0, <1>6 DEF vars, TypeOK, RequestInv, PlaceInv, RetryInv
<1> QED BY <1>1, <1>2, <1>3, <1>4, <1>5, <1>6 DEF Next, WriteCli

\* Only a write to a working socket makes sent grow.
LEMMA WriteStep ==
    ASSUME IInv, WriteSome
    PROVE  FrontierInv' /\ ChunksInv' /\ SentInv' /\ WireInv'
<1>0. /\ TypeOK /\ PlaceInv /\ RetryInv /\ FrontierInv /\ ChunksInv /\ SentInv /\ WireInv
      /\ ~closed /\ buf # NoBuf /\ sock = "ready"
      /\ UNCHANGED <<kind, size, chunks, head, parked, iter, buf, retry, closed>>
  BY DEF IInv, Shape, WriteSome, InWriteCli, request
<1>1. PICK r \in 1 .. Block : r <= Remaining(buf) /\ sent' = [sent EXCEPT ![buf] = @ + r]
  BY DEF WriteSome
<1>2. r \in Int /\ r >= 1 /\ buf \in Buffers
  BY <1>0, Constants DEF TypeOK
<1>3. /\ sent'[buf] = sent[buf] + r
      /\ \A i \in Buffers : i # buf => sent'[i] = sent[i]
  BY <1>0, <1>1, <1>2 DEF TypeOK
<1>4. sent[buf] < size[buf] /\ sent'[buf] <= size[buf]
  BY <1>0, <1>1, <1>2, <1>3, AskedBound, Typing DEF Remaining
<1>5. SentInv'
  BY <1>0, <1>3, <1>4 DEF SentInv
<1>6. FrontierInv'
  <2>1. Frontier' = Frontier /\ Frontier = buf
    BY <1>0 DEF Frontier
  <2>2. \A i \in Buffers : Asked(i)' = Asked(i)
    BY <1>0 DEF Asked, FileRead
  <2>3. ~Broken' => ~Broken
    BY <1>0 DEF Broken
  <2> QED BY <1>0, <1>3, <2>1, <2>2, <2>3, Typing DEF FrontierInv
<1>8. ChunksInv'
  <2>1. Frontier' = Frontier /\ Frontier = buf
    BY <1>0 DEF Frontier
  <2>2. \A i \in Buffers : Asked(i)' = Asked(i)
    BY <1>0 DEF Asked, FileRead
  <2>3. \A i \in Buffers : 0 < i /\ i < Frontier => sent[i] = Asked(i)
    BY <1>0 DEF ChunksInv, Ended
  <2> QED BY <1>3, <2>1, <2>2, <2>3 DEF ChunksInv
<1>7. PrefixSent'
  <2> SUFFICES ASSUME NEW i \in Buffers, NEW j \in Buffers, i < j, sent'[j] > 0,
                      ~(i = 0 /\ ~parked /\ retry > MaxRetry)
               PROVE  Whole(i)'
    BY <1>0 DEF PrefixSent
  <2>1. PrefixSent
    BY <1>0 DEF WireInv
  <2>2. CASE j = buf
    <3>1. i = 0 => ~Broken
      BY <1>0, Typing, Constants DEF RetryInv, Ended, Broken
    <3>2. sent[i] = Asked(i)
      <4>1. CASE i = 0
        BY <1>0, <2>2, <3>1, <4>1 DEF FrontierInv, Frontier
      <4>2. CASE i # 0
        BY <1>0, <2>2, <4>2 DEF ChunksInv, Ended, Frontier
      <4> QED BY <4>1, <4>2
    <3>3. kind # "file" \/ i = 0
      BY <1>0, <2>2, Typing DEF PlaceInv
    <3>4. Asked(i) = size[i]
      BY <3>3 DEF Asked
    <3> QED BY <1>0, <1>3, <2>2, <3>2, <3>4, Typing DEF Whole
  <2>3. CASE j # buf
    <3>1. Whole(i)
      BY <1>3, <2>1, <2>3 DEF PrefixSent
    <3>2. i # buf
      BY <1>0, <1>4, <3>1, Typing DEF Whole
    <3> QED BY <1>0, <1>3, <3>1, <3>2 DEF Whole
  <2> QED BY <2>2, <2>3
<1> QED BY <1>0, <1>5, <1>6, <1>7, <1>8 DEF WireInv, ClosedWhenSent

\* When a connection that is not broken comes out of write_cli, the buffer
\* was written, and the frontier moves on to the next.
LEMMA ReturnWire ==
    ASSUME IInv, NEW ok \in BOOLEAN, ReturnStep(ok)
    PROVE  FrontierInv' /\ ChunksInv' /\ SentInv' /\ WireInv'
<1>0. /\ TypeOK /\ RequestInv /\ PlaceInv /\ FrontierInv /\ ChunksInv /\ SentInv /\ WireInv
      /\ Returned(ok) /\ ~closed /\ buf # NoBuf
      /\ UNCHANGED <<kind, size, chunks, head, parked, sent, sock>>
  BY DEF IInv, Shape, ReturnStep, request
<1>1. ~Broken' => ok /\ ~Broken /\ Remaining(buf) = 0
  BY <1>0, Typing, Constants DEF IInv, Shape, Broken, ReturnStep
<1>2. buf \in Buffers /\ 0 <= buf
  BY <1>0, Typing DEF TypeOK
<1>3. ~Broken' => \A i \in Buffers : /\ i <= buf => sent[i] = Asked(i)
                                     /\ i > buf => sent[i] = 0
  <2>1. Remaining(buf) = 0 => sent[buf] = Asked(buf)
    BY <1>0, <1>2, AskedBound, Typing DEF Remaining
  <2> QED BY <1>0, <1>1, <1>2, <2>1, Typing DEF FrontierInv, Frontier
<1>4. \A i \in Buffers : Asked(i)' = Asked(i)
  BY <1>0 DEF Asked, FileRead
<1>5. ~closed' /\ ~Broken' => buf' = NoBuf /\ iter' + 2 = buf + 1
  <2> SUFFICES ASSUME ~closed', ~Broken' PROVE buf' = NoBuf /\ iter' + 2 = buf + 1
    OBVIOUS
  <2>0. ok /\ (buf > 0 => buf = iter + 1)
    BY <1>0, <1>1 DEF PlaceInv
  <2>1. CASE HeaderReturned(ok)
    BY <2>1 DEF HeaderReturned, CloseConnection
  <2>2. CASE ListReturned(ok)
    BY <2>0, <2>2, <1>0, Typing DEF ListReturned
  <2>3. CASE FileReturned
    BY <2>3 DEF FileReturned, StopAndClose, CloseConnection
  <2>4. CASE IterReturned(ok)
    BY <2>0, <2>4, <1>0, Typing DEF IterReturned, StopAndClose, CloseConnection
  <2> QED BY <1>0, <2>1, <2>2, <2>3, <2>4 DEF Returned
<1>6. FrontierInv'
  <2> SUFFICES ASSUME ~closed', ~Broken' PROVE FrontierInv'
    BY DEF FrontierInv
  <2>0. \A i \in Buffers : /\ i <= buf => sent[i] = Asked(i)
                           /\ i > buf => sent[i] = 0
    BY <1>3
  <2>1. Frontier' = buf + 1 /\ buf' = NoBuf
    BY <1>5, Typing DEF Frontier
  <2>2. \A i \in Buffers : /\ i < Frontier' => sent'[i] = Asked(i)'
                           /\ i >= Frontier' => sent'[i] = 0
    BY <1>0, <1>2, <1>4, <2>0, <2>1, Typing, Constants
  <2> QED BY <2>1, <2>2, Constants, <1>0, Typing DEF FrontierInv
<1>7. SentInv' /\ PrefixSent'
  <2>1. retry <= retry' /\ retry' \in Int
    BY <1>0, Typing DEF ReturnStep
  <2> QED BY <1>0, <2>1, Typing, Constants DEF SentInv, WireInv, PrefixSent, Whole
<1>9. ChunksInv'
  <2> SUFFICES ASSUME ~closed', sock # "gone", ~Ended', NEW i \in Buffers,
                      0 < i, i < Frontier'
               PROVE  sent[i] = Asked(i)
    BY <1>0, <1>4 DEF ChunksInv
  <2>1. CASE buf = 0
    <3>1. HeaderReturned(ok)
      BY <1>0, <2>1, Caller
    <3>2. Frontier' = 1
      BY <3>1 DEF HeaderReturned, CloseConnection, Frontier
    <3> QED BY <3>2
  <2>2. CASE buf > 0
    <3>1. ~Ended /\ Frontier = buf
      BY <1>0 DEF Ended, Frontier
    <3>2. \A k \in Buffers : 0 < k /\ k < buf => sent[k] = Asked(k)
      BY <1>0, <3>1 DEF ChunksInv
    <3>3. ok /\ Frontier' = buf + 1
      <4>1. buf = iter + 1 /\ kind \in AllKinds /\ kind # "iterable" /\ chunks' = chunks
        BY <1>0, <2>2 DEF PlaceInv, TypeOK
      <4>2. CASE AsList
        <5>1. ListReturned(ok)
          BY <1>0, <2>2, <4>2, Caller
        <5>2. ok
          BY <1>0, <4>2, <5>1, Typing DEF ListReturned, Ended
        <5> QED BY <1>0, <4>1, <5>1, <5>2, Typing DEF ListReturned, Frontier
      <4>3. CASE kind = "file"
        BY <1>0, <2>2, <4>3, Caller DEF FileReturned, StopAndClose, CloseConnection
      <4>4. CASE AsIter
        <5>1. IterReturned(ok)
          BY <1>0, <2>2, <4>4, Caller
        <5> QED BY <1>0, <4>1, <5>1, Typing DEF IterReturned, StopAndClose, CloseConnection, Frontier
      <4> QED BY <4>1, <4>2, <4>3, <4>4 DEF AllKinds
    <3>4. sent[buf] = Asked(buf)
      BY <1>0, <1>2, <3>3, AskedBound, Typing DEF ReturnStep, Remaining
    <3> QED BY <1>2, <3>2, <3>3, <3>4
  <2> QED BY <1>2, <2>1, <2>2
<1>8. kind \notin {"file", "iterable"} => ClosedWhenSent'
  <2> SUFFICES ASSUME kind \notin {"file", "iterable"}, closed', ~Broken'
               PROVE  ~head' /\ \A i \in Buffers : Whole(i)'
    BY DEF ClosedWhenSent
  <2>0. \A i \in Buffers : /\ i <= buf => sent[i] = Asked(i)
                           /\ i > buf => sent[i] = 0
    BY <1>3
  <2>1. ok
    BY <1>1
  <2>2. IterReturned(ok)
    <3>1. ~HeaderReturned(ok)
      BY <1>0, <2>1 DEF HeaderReturned
    <3>2. ~ListReturned(ok)
      BY <1>0 DEF ListReturned
    <3>3. ~FileReturned
      BY DEF FileReturned
    <3> QED BY <1>0, <3>1, <3>2, <3>3 DEF Returned
  <2>3. buf = chunks /\ buf > 0
    BY <1>0, <2>1, <2>2 DEF IterReturned
  <2>4. ~head
    BY <1>0, <2>3 DEF PlaceInv
  <2>5. ASSUME NEW i \in Buffers PROVE Whole(i)'
    <3>1. Asked(i) = size[i]
      BY DEF Asked
    <3>2. i > chunks => size[i] = 0
      BY <1>0 DEF RequestInv
    <3>3. sent[i] = size[i]
      <4>1. chunks \in Int /\ i \in Int
        BY <1>0, Typing, Constants
      <4>2. CASE i <= chunks
        BY <2>0, <2>3, <3>1, <4>2
      <4>3. CASE i > chunks
        BY <2>0, <2>3, <3>2, <4>3
      <4> QED BY <4>1, <4>2, <4>3
    <3> QED BY <1>0, <3>3 DEF Whole
  <2> QED BY <1>0, <2>4, <2>5
<1> QED BY <1>0, <1>6, <1>7, <1>8, <1>9 DEF WireInv

\* Calls of write_cb put nothing on the wire; those that end a response do
\* so where the frontier is past its last chunk.
LEMMA CallWire ==
    ASSUME IInv, WriteCb
    PROVE  FrontierInv' /\ ChunksInv' /\ SentInv' /\ WireInv'
<1>0. /\ TypeOK /\ RequestInv /\ PlaceInv /\ FrontierInv /\ ChunksInv /\ SentInv /\ WireInv
      /\ ~closed /\ buf = NoBuf
      /\ UNCHANGED <<kind, size, chunks, head, parked, sent, retry, sock>>
  BY DEF IInv, Shape, WriteCb, WriteHeader, EndOfHead, ListChunk, ListEnd, FileEmpty,
     FileBlock, IterChunk, NotWritable, Idle, request
<1>1. Broken' = Broken /\ \A i \in Buffers : Asked(i)' = Asked(i)
  BY <1>0 DEF Broken, Asked, FileRead
<1>2. ~closed' => buf' = iter + 2 /\ buf' # NoBuf
  BY <1>0, Typing DEF WriteCb, WriteHeader, EndOfHead, ListChunk, ListEnd, FileEmpty,
     FileBlock, IterChunk, NotWritable, StopAndClose, CloseConnection
<1>3. FrontierInv'
  BY <1>0, <1>1, <1>2, Typing DEF FrontierInv, Frontier
<1>4. SentInv' /\ PrefixSent'
  BY <1>0 DEF SentInv, WireInv, PrefixSent, Whole
<1>6. ChunksInv'
  <2> SUFFICES ASSUME ~closed' PROVE ChunksInv'
    BY DEF ChunksInv
  <2>1. Frontier' = iter + 2 /\ Frontier = iter + 2
    BY <1>0, <1>2 DEF Frontier
  <2>2. ~Ended
    BY <1>0, Typing DEF Ended, WriteCb, WriteHeader, EndOfHead, ListChunk, ListEnd, FileEmpty,
       FileBlock, IterChunk, NotWritable, StopAndClose, CloseConnection
  <2>3. sock # "gone" => \A i \in Buffers : 0 < i /\ i < iter + 2 => sent[i] = Asked(i)
    BY <1>0, <2>1, <2>2 DEF ChunksInv
  <2> QED BY <1>0, <1>1, <2>1, <2>3 DEF ChunksInv
<1>5. kind \notin {"file", "iterable"} => ClosedWhenSent'
  <2> SUFFICES ASSUME kind \notin {"file", "iterable"}, closed', ~Broken'
               PROVE  \/ head' /\ Whole(0)' /\ \A i \in Buffers : i > 0 => sent'[i] = 0
                      \/ ~head' /\ \A i \in Buffers : Whole(i)'
    BY DEF ClosedWhenSent
  <2>1. EndOfHead \/ ListEnd
    BY <1>0 DEF WriteCb, WriteHeader, ListChunk, FileEmpty, FileBlock, IterChunk,
       NotWritable
  <2>0. ~Broken
    BY <1>1
  <2>2. \A i \in Buffers : /\ i < iter + 2 => sent[i] = size[i]
                           /\ i >= iter + 2 => sent[i] = 0
    BY <1>0, <2>0, Typing, Constants DEF FrontierInv, Frontier, Asked
  <2>3. CASE EndOfHead
    BY <1>0, <2>2, <2>3, Typing, Constants DEF EndOfHead, Whole
  <2>4. CASE ListEnd
    <3>1. \A i \in Buffers : i >= iter + 2 => size[i] = 0
      BY <1>0, <2>4, Typing, Constants DEF ListEnd, RequestInv
    <3> QED BY <1>0, <2>2, <2>4, <3>1, Typing, Constants DEF ListEnd, Whole
  <2> QED BY <2>1, <2>3, <2>4
<1> QED BY <1>0, <1>4, <1>3, <1>5, <1>6 DEF WireInv

\* The invariant holds in every state, for all sizes and kinds.
THEOREM Invariance == Spec => []IInv
<1>1. IInv /\ [Next]_vars => IInv'
  <2> SUFFICES ASSUME IInv, [Next]_vars PROVE IInv'
    OBVIOUS
  <2>1. Shape'
    BY ShapeStep DEF IInv
  <2>2. CASE WriteCb
    BY <2>1, <2>2, CallWire DEF IInv
  <2>3. CASE WriteSome
    BY <2>1, <2>3, WriteStep DEF IInv
  <2>4. CASE WriteDone \/ ClientGone \/ GiveUp
    BY <2>1, <2>4, StepReturns, ReturnWire DEF IInv
  <2>5. CASE WriteError \/ ClientReads \/ ClientLeaves \/ UNCHANGED vars
    <3>1. /\ UNCHANGED <<kind, size, chunks, head, parked, iter, buf, sent, closed>>
          /\ UNCHANGED closed /\ (Broken => Broken') /\ (sock = "gone" => sock' = "gone")
          /\ ~closed \/ Broken' = Broken
          /\ retry > MaxRetry => retry' > MaxRetry
      BY <2>5, Typing, Constants DEF IInv, Shape, WriteError, ClientReads, ClientLeaves,
         InWriteCli, request, vars, Broken
    <3>2. FrontierInv' /\ ChunksInv' /\ SentInv'
      BY <3>1 DEF IInv, FrontierInv, ChunksInv, Ended, Frontier, Asked, FileRead, SentInv
    <3>3. WireInv'
      BY <3>1 DEF IInv, WireInv, PrefixSent, ClosedWhenSent, Whole
    <3> QED BY <2>1, <3>2, <3>3 DEF IInv
  <2> QED BY <2>2, <2>3, <2>4, <2>5 DEF Next, WriteCli
<1> QED BY <1>1, InitInv, PTL DEF Spec

\* Type correctness; in particular retry is never more than two past its
\* limit, whatever fails.
THEOREM TypeCorrect == Spec => []TypeOK
<1>1. IInv => TypeOK
  BY DEF IInv, Shape
<1> QED BY <1>1, Invariance, PTL

\* No chunk follows a part of one before it, and none a part of a header
\* but one that failed more than MaxRetry times in write_cb: for all bodies of
\* all kinds, all sizes of writes and all failures of header and chunks.
THEOREM PrefixAlways == Spec => []PrefixSent
<1>1. IInv => PrefixSent
  BY DEF IInv, WireInv
<1> QED BY <1>1, Invariance, PTL

\* Lists and iterators are sent completely before the connection is closed,
\* unless it broke.
THEOREM CompleteAtClose == Spec => []StreamComplete
<1>1. IInv => StreamComplete
  BY DEF IInv, WireInv, StreamComplete
<1> QED BY <1>1, Invariance, PTL

-----------------------------------------------------------------------------
(* The file and its connection *)

\* Up to the first block the file is not in use, so that close() succeeds;
\* the connection of a file is closed by nothing that does not try it.
FileInv ==
    /\ FileIsClosed
    /\ kind = "file" /\ ~closed /\ buf <= 0 => ~inUse

LEMMA InitFile == Init => FileInv
  BY DEF Init, FileInv, FileIsClosed

\* Where write_cli returns.
LEMMA ReturnFile ==
    ASSUME Shape, FileInv, NEW ok \in BOOLEAN, ReturnStep(ok)
    PROVE  FileInv'
<1>0. /\ PlaceInv /\ RequestInv /\ Returned(ok) /\ buf # NoBuf /\ ~closed
      /\ UNCHANGED request /\ kind \in AllKinds
  BY DEF Shape, ReturnStep, TypeOK
<1>1. CASE kind # "file"
  BY <1>0, <1>1 DEF FileInv, FileIsClosed, request
<1>2. CASE kind = "file" /\ buf = 0
  <2>1. HeaderReturned(ok) /\ ~parked
    BY <1>0, <1>2, Caller DEF RequestInv
  <2>2. closed' = closed /\ inUse' = inUse
    BY <2>1 DEF HeaderReturned
  <2> QED BY <1>0, <1>2, <2>2 DEF FileInv, FileIsClosed
<1>3. CASE kind = "file" /\ buf > 0
  <2>1. FileReturned
    BY <1>0, <1>3, Caller
  <2>2. closed' /\ ~closable'
    BY <1>3, <2>1 DEF FileReturned, StopAndClose, CloseConnection
  <2> QED BY <2>2 DEF FileInv, FileIsClosed
<1>4. buf \in Int /\ buf >= -1
  BY Typing DEF Shape
<1> QED BY <1>0, <1>1, <1>2, <1>3, <1>4

LEMMA FileStep == ASSUME Shape, FileInv, [Next]_vars PROVE FileInv'
<1>0. TypeOK /\ PlaceInv
  BY DEF Shape
<1>1. CASE WriteHeader \/ ListChunk \/ ListEnd \/ IterChunk \/ NotWritable
  BY <1>0, <1>1 DEF WriteHeader, ListChunk, ListEnd, IterChunk, NotWritable, Idle,
     FileInv, FileIsClosed, FileRead, request
<1>2. CASE EndOfHead
  <2>1. closed' /\ kind' = kind /\ buf <= 0 /\ ~closed
    BY <1>2 DEF EndOfHead, StopAndClose, CloseConnection, Idle, request
  <2>2. kind = "file" => ~inUse
    BY <2>1 DEF FileInv
  <2>3. closable' = (closable /\ (kind # "file" \/ inUse))
    BY <1>2 DEF EndOfHead, StopAndClose
  <2>4. kind = "file" => ~closable'
    BY <2>2, <2>3, Zenon
  <2> QED BY <2>1, <2>4 DEF FileInv, FileIsClosed
<1>3. CASE FileEmpty
  BY <1>0, <1>3 DEF FileEmpty, StopAndClose, CloseConnection, Idle, FileInv,
     FileIsClosed, FileRead, request
<1>4. CASE FileBlock
  BY <1>0, <1>4 DEF FileBlock, Idle, FileInv, FileIsClosed, FileRead, request
<1>5. CASE WriteSome \/ WriteError \/ ClientReads \/ ClientLeaves \/ UNCHANGED vars
  <2>1. UNCHANGED <<request, buf, closed, inUse, closable>>
    BY <1>5 DEF WriteSome, WriteError, ClientReads, ClientLeaves, vars, request
  <2> QED BY <2>1 DEF FileInv, FileIsClosed, FileRead, request
<1>6. CASE WriteDone \/ ClientGone \/ GiveUp
  BY <1>6, StepReturns, ReturnFile
<1> QED
  BY <1>1, <1>2, <1>3, <1>4, <1>5, <1>6 DEF Next, WriteCb, WriteCli

\* A file is closed with its connection, whichever way the response ended,
\* if something could be read of it or nothing had to be.
THEOREM FileClosedAlways == Spec => []FileIsClosed
<1>1. Init => Shape /\ FileInv
  BY InitInv, InitFile DEF IInv
<1>2. Shape /\ FileInv /\ [Next]_vars => Shape' /\ FileInv'
  BY ShapeStep, FileStep
<1>3. FileInv => FileIsClosed
  BY DEF FileInv
<1> QED BY <1>1, <1>2, <1>3, PTL DEF Spec

=============================================================================
