---------------------------- MODULE ResponseWriter ----------------------------
(***************************************************************************)
(* How one response gets onto the socket (mainloop.c): the header by       *)
(* write_cb or write_response_cb, then one chunk per call of write_cb,     *)
(* each by write_cli, which loops around write() until all of its buffer   *)
(* is accepted or the connection is given up.                              *)
(*                                                                         *)
(* Buffer 0 is the header, buffer i is chunk i of what the application     *)
(* returned.  Bytes have no contents: sent[i] counts those of buffer i the *)
(* kernel took.  (write() of a positive count to a socket does not return  *)
(* zero, so the branch of write_cli for that is left out.)                 *)
(***************************************************************************)
EXTENDS Integers

CONSTANTS
    Kinds,          \* what the application may return
    Block,          \* MAX_BUFF
    MaxRetry,       \* MAX_RETRY
    MaxLen,         \* bound: bytes of a buffer
    MaxChunks       \* bound: chunks of a response

\* "list": a list or tuple; "file"; "iter": an iterator or a generator that
\* yields at least once; "empty_iter": one that never does; "iterable":
\* any other iterable, a string or a set say; "none": nothing, or it raised.
\* For the last the one chunk is the page python_handler makes, a list; for
\* "empty_iter" that list itself is taken for the first item, and skipped.
AllKinds == {"list", "file", "iter", "empty_iter", "iterable", "none"}

ASSUME ConstantsAssumption ==
    /\ Kinds \subseteq AllKinds
    /\ Block \in Nat \ {0, 1}
    /\ MaxRetry \in Nat
    /\ MaxLen \in Nat \ {0} /\ MaxChunks \in Nat \ {0}

NoBuf == -1
Buffers == 0 .. MaxChunks

VARIABLES
    kind,       \* what the application returned
    size,       \* size[i]: bytes of buffer i; 0 for what is no read buffer
    chunks,     \* how many chunks there are
    head,       \* the request is HEAD
    parked,     \* the response comes from write_response
    iter,       \* response_iter_sent
    buf,        \* the buffer write_cli is working on
    sent,       \* sent[i]: its bytes that were written
    retry,      \* retry
    sock,       \* "ready", "full" (EAGAIN) or "gone" (EPIPE, ECONNRESET)
    closed,     \* the connection is closed
    inUse,      \* PyFile_IncUseCount
    closable    \* the returned object has a close() that has not succeeded

request == <<kind, size, chunks, head, parked>>
vars == <<kind, size, chunks, head, parked, iter, buf, sent, retry,
          sock, closed, inUse, closable>>

Init ==
    /\ kind \in Kinds
    /\ size \in [Buffers -> 0 .. MaxLen] /\ size[0] > 0
    /\ chunks \in 0 .. MaxChunks
    /\ \A i \in Buffers : i > chunks => size[i] = 0
    /\ kind = "file" => \A i \in 1 .. chunks :
           size[i] \in 1 .. Block /\ (i < chunks => size[i] = Block)
    /\ kind = "iter" => chunks > 0
    /\ kind = "empty_iter" => chunks = 1 /\ size[1] = 0
    /\ kind = "none" => chunks = 1
    /\ head \in BOOLEAN
    /\ parked \in BOOLEAN
    /\ parked => kind = "list" /\ chunks > 0
    /\ iter = -2
    /\ buf = NoBuf
    /\ sent = [i \in Buffers |-> 0]
    /\ retry \in 0 .. MaxRetry
    /\ sock \in {"ready", "full"}
    /\ closed = FALSE
    /\ inUse = FALSE
    /\ closable \in BOOLEAN
    /\ closable <=> kind \in {"file", "iter", "empty_iter"}

\* Bytes write_cli was asked to send.  fread(buff, MAX_BUFF, sizeof(char), fp)
\* reads one item of MAX_BUFF bytes: it returns 1 for a full block, else 0.
FileRead == IF chunks > 0 /\ size[1] = Block THEN 1 ELSE 0
Asked(b) == IF kind = "file" /\ b # 0 THEN FileRead ELSE size[b]

AsList == kind \in {"list", "none"}
AsIter == kind \in {"iter", "empty_iter"}

\* write_cb may be called: it is not inside write_cli.
Idle == ~closed /\ buf = NoBuf

-----------------------------------------------------------------------------
(* The end of a response *)

\* stop = 2 and stop = 1.  write_cb calls close() of response_content, which
\* is the object the application returned only when that is no iterator.
CloseConnection == closed' = TRUE /\ buf' = NoBuf

\* close() of a file that is in use fails.
StopAndClose(use) ==
    /\ CloseConnection
    /\ inUse' = use
    /\ closable' = (closable /\ (kind # "file" \/ use))

-----------------------------------------------------------------------------
(* write_cb and write_response_cb up to write_cli *)

\* python_handler returned 1, or write_response_cb was called.  (An iterator
\* that ends at once looks like a handler that failed: its header is replaced
\* by that of a 500.)
WriteHeader ==
    /\ Idle /\ iter = -2
    /\ buf' = 0
    /\ UNCHANGED <<request, iter, sent, retry, sock, closed, inUse, closable>>

\* A HEAD request has no body.
EndOfHead ==
    /\ Idle /\ iter = -1 /\ head
    /\ StopAndClose(inUse)
    /\ UNCHANGED <<request, iter, sent, retry, sock>>

\* List or tuple: the next item ...
ListChunk ==
    /\ Idle /\ iter # -2 /\ ~head /\ AsList
    /\ iter + 1 < chunks
    /\ iter' = iter + 1
    /\ buf' = iter + 2
    /\ UNCHANGED <<request, sent, retry, sock, closed, inUse, closable>>

\* ... or the end.
ListEnd ==
    /\ Idle /\ iter # -2 /\ ~head /\ AsList
    /\ iter + 1 >= chunks
    /\ iter' = iter + 1
    /\ StopAndClose(inUse)
    /\ UNCHANGED <<request, sent, retry, sock>>

\* File: nothing was read, and the file is left in use ...
FileEmpty ==
    /\ Idle /\ iter = -1 /\ ~head /\ kind = "file"
    /\ FileRead = 0
    /\ iter' = 0
    /\ StopAndClose(TRUE)
    /\ UNCHANGED <<request, sent, retry, sock>>

\* ... or something was.
FileBlock ==
    /\ Idle /\ iter = -1 /\ ~head /\ kind = "file"
    /\ FileRead > 0
    /\ iter' = 0
    /\ inUse' = TRUE
    /\ buf' = 1
    /\ UNCHANGED <<request, sent, retry, sock, closed, closable>>

\* Iterator: the item PyIter_Next returned last.
IterChunk ==
    /\ Idle /\ iter # -2 /\ ~head /\ AsIter
    /\ iter' = iter + 1
    /\ buf' = iter + 2
    /\ UNCHANGED <<request, sent, retry, sock, closed, inUse, closable>>

\* "Result must be a list, a fileobject or an iterable object"
NotWritable ==
    /\ Idle /\ iter # -2 /\ ~head /\ kind = "iterable"
    /\ CloseConnection
    /\ UNCHANGED <<request, iter, sent, retry, sock, inUse, closable>>

-----------------------------------------------------------------------------
(* write_cli *)

Remaining(b) == Asked(b) - sent[b]

InWriteCli == buf # NoBuf /\ ~closed

\* write() takes some bytes, at most a block.
WriteSome ==
    /\ InWriteCli /\ sock = "ready"
    /\ \E r \in 1 .. Block :
        /\ r <= Remaining(buf)
        /\ sent' = [sent EXCEPT ![buf] = @ + r]
    /\ sock' \in {"ready", "full"}
    /\ UNCHANGED <<request, iter, buf, retry, closed, inUse, closable>>

\* write() fails, not with EAGAIN: sleep and try again.
WriteError ==
    /\ InWriteCli /\ sock # "gone" /\ Remaining(buf) > 0
    /\ retry < MaxRetry
    /\ retry' = retry + 1
    /\ UNCHANGED <<request, iter, buf, sent, sock, closed, inUse, closable>>

\* What the callers do when write_cli returns 0 or 1.  Nobody looks at the
\* result for the header, except write_response_cb.
HeaderReturned(ok) ==
    /\ buf = 0
    /\ \/ /\ parked => ok
          /\ iter' = -1
          /\ buf' = NoBuf
          /\ UNCHANGED closed
       \/ /\ parked /\ ~ok
          /\ CloseConnection
          /\ UNCHANGED iter
    /\ UNCHANGED <<inUse, closable>>

\* Mutant: the rest of a list is tried after a failure.
ListReturnedGoesOn(ok) ==
    /\ buf > 0 /\ AsList
    /\ buf' = NoBuf
    /\ UNCHANGED <<iter, closed, inUse, closable>>

ListReturned(ok) ==
    /\ buf > 0 /\ AsList
    /\ iter' = IF ok THEN iter ELSE chunks
    /\ buf' = NoBuf
    /\ UNCHANGED <<closed, inUse, closable>>

\* Mutant: the use count is forgotten.
FileReturnedInUse ==
    /\ buf > 0 /\ kind = "file"
    /\ StopAndClose(inUse)
    /\ UNCHANGED iter

\* len < MAX_BUFF, since fread returned 1: the file is done.
FileReturned ==
    /\ buf > 0 /\ kind = "file"
    /\ StopAndClose(FALSE)
    /\ UNCHANGED iter

\* Mutant: the end is seen an item too early.
IterReturnedEarly(ok) ==
    /\ buf > 0 /\ AsIter
    /\ \/ /\ ok /\ buf + 1 < chunks
          /\ buf' = NoBuf
          /\ UNCHANGED <<closed, inUse, closable>>
       \/ /\ ~ok \/ buf + 1 >= chunks
          /\ StopAndClose(inUse)
    /\ UNCHANGED iter

\* After each item the next one is asked for; when there is none, or the
\* write failed, that is the end.
IterReturned(ok) ==
    /\ buf > 0 /\ AsIter
    /\ \/ /\ ok /\ buf < chunks
          /\ buf' = NoBuf
          /\ UNCHANGED <<closed, inUse, closable>>
       \/ /\ ~ok \/ buf = chunks
          /\ StopAndClose(inUse)
    /\ UNCHANGED iter

Returned(ok) ==
    HeaderReturned(ok) \/ ListReturned(ok) \/ FileReturned \/ IterReturned(ok)

\* All of the buffer was written.
WriteDone ==
    /\ InWriteCli /\ Remaining(buf) = 0
    /\ Returned(TRUE)
    /\ UNCHANGED <<request, sent, retry, sock>>

\* Mutant: EPIPE is retried like EAGAIN.
ClientGoneIgnored ==
    /\ InWriteCli /\ sock = "gone" /\ Remaining(buf) > 0
    /\ UNCHANGED vars

\* EPIPE or ECONNRESET.
ClientGone ==
    /\ InWriteCli /\ sock = "gone" /\ Remaining(buf) > 0
    /\ Returned(FALSE)
    /\ UNCHANGED <<request, sent, retry, sock>>

\* One failure too many.
GiveUp ==
    /\ InWriteCli /\ sock # "gone" /\ Remaining(buf) > 0
    /\ retry >= MaxRetry
    /\ retry' = retry + 1
    /\ Returned(FALSE)
    /\ UNCHANGED <<request, sent, sock>>

-----------------------------------------------------------------------------
(* The client *)

ClientReads ==
    /\ ~closed /\ sock = "full"
    /\ sock' = "ready"
    /\ UNCHANGED <<request, iter, buf, sent, retry, closed, inUse, closable>>

ClientLeaves ==
    /\ ~closed /\ sock # "gone"
    /\ sock' = "gone"
    /\ UNCHANGED <<request, iter, buf, sent, retry, closed, inUse, closable>>

-----------------------------------------------------------------------------
WriteCb ==
    \/ WriteHeader \/ EndOfHead
    \/ ListChunk \/ ListEnd
    \/ FileEmpty \/ FileBlock
    \/ IterChunk
    \/ NotWritable

WriteCli == WriteSome \/ WriteError \/ WriteDone \/ ClientGone \/ GiveUp

Next == WriteCb \/ WriteCli \/ ClientReads \/ ClientLeaves

Spec == Init /\ [][Next]_vars

\* The loop calls write_cb while ev_write is active, and write_cli runs on.
\* EAGAIN changes nothing: write_cli goes round its loop.
\* A client that stays reads what it was sent: one that does not keeps
\* write_cli, and so the whole server, in that loop.
FairSpec == Spec /\ WF_vars(WriteCb) /\ WF_vars(WriteCli) /\ WF_vars(ClientReads)

-----------------------------------------------------------------------------
(* Properties *)

\* Every variable has its type.  A failed header and a failed chunk can each
\* push retry one past MAX_RETRY.
TypeOK ==
    /\ kind \in Kinds
    /\ size \in [Buffers -> 0 .. MaxLen]
    /\ chunks \in 0 .. MaxChunks
    /\ head \in BOOLEAN
    /\ parked \in BOOLEAN
    /\ iter \in -2 .. MaxChunks + 1
    /\ buf \in Buffers \cup {NoBuf}
    /\ sent \in [Buffers -> 0 .. MaxLen]
    /\ retry \in 0 .. MaxRetry + 2
    /\ sock \in {"ready", "full", "gone"}
    /\ closed \in BOOLEAN
    /\ inUse \in BOOLEAN
    /\ closable \in BOOLEAN

Whole(b) == sent[b] = size[b]
Broken == sock = "gone" \/ retry > MaxRetry

\* However often write() failed, no chunk follows one that is not whole, and
\* none follows the rest of a header, but for one case: the header failed once
\* too often while the socket works still.  Then write_cb, which does not look
\* at the result (mainloop.c:518) and counts it as sent, goes on with the
\* body; write_response_cb closes the connection instead.
PrefixSent ==
    \A i, j \in Buffers :
        i < j /\ sent[j] > 0 =>
            Whole(i) \/ (i = 0 /\ ~parked /\ retry > MaxRetry)

\* A connection is closed when its response was sent, header and body (no
\* body for HEAD), or when it is broken, and never for anything else.
ClosedWhenSent ==
    closed =>
        \/ Broken
        \/ head /\ Whole(0) /\ \A i \in Buffers : i > 0 => sent[i] = 0
        \/ ~head /\ \A i \in Buffers : Whole(i)

\* So it is for lists and iterators, whatever they yield.
StreamComplete == AsList \/ AsIter => ClosedWhenSent

\* A file is closed with its connection, whichever way the response ended,
\* unless fread returned nothing: then it is still marked in use, and its
\* close() fails.
FileIsClosed ==
    closed /\ kind = "file" /\ (head \/ FileRead > 0) => ~closable

\* Every response ends, if the client reads.
ResponseEnds == <>closed

=============================================================================
