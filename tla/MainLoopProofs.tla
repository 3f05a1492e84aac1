--------------------------- MODULE MainLoopProofs ---------------------------
(***************************************************************************)
(* Safety of MainLoop for any number of connections and ids, any           *)
(* MAX_RETRY and any length of body, provided the application keeps to the *)
(* rules (AppFaults = {}).                                                 *)
(***************************************************************************)
EXTENDS MainLoop, TLAPS

\* The thread is in application code exactly when a struct is on its stack,
\* and that struct is the one whose callback was interrupted.
FrameInv ==
    /\ arg # NoConn <=> fn \in {"handler", "timeout"}
    /\ arg # NoConn =>
        /\ cli[arg] = "open"
        /\ ~evRead[arg]
        /\ iter[arg] = -2
        /\ fn = "handler" => evWrite[arg] = "write_cb"
        /\ fn = "timeout" => evWrite[arg] = "off" /\ ~timer[arg]

\* A struct that is not open is watched by nothing; an open one that is not
\* on the stack is driven by exactly one watcher.
DriverInv ==
    \A c \in Conn :
        /\ Watched(c) => cli[c] = "open"
        /\ cli[c] = "open" /\ c # arg => Watched(c)
        /\ evRead[c] => evWrite[c] = "off" /\ ~timer[c]
        /\ timer[c] /\ c # arg => evWrite[c] = "off"

\* Only write_cb runs once the header is out.
HeaderInv ==
    \A c \in Conn :
        /\ heads[c] = IF iter[c] = -2 THEN 0 ELSE 1
        /\ evRead[c] \/ timer[c] \/ evWrite[c] = "write_response_cb"
               => iter[c] = -2
        /\ cli[c] # "open" => iter[c] = -2

\* The inductive invariant.
IInv ==
    /\ TypeOK
    /\ FrameInv
    /\ CurrentExact
    /\ DriverInv
    /\ HeaderInv
    /\ RegistryExact


-----------------------------------------------------------------------------
(* Every action preserves the invariant. *)

\* accept_cb: a zeroed struct starts out driven by its read watcher.
LEMMA AcceptStep ==
  ASSUME AppFaults = {}, IInv, NEW c \in Conn, Accept(c)
  PROVE  IInv'
<1> USE ConstantsAssumption DEF IInv, TypeOK, Iter, WriteCallbacks, Accept
<1>1. TypeOK'  BY DEF TypeOK
<1>2. FrameInv'  BY DEF FrameInv
<1>3. CurrentExact'  BY DEF CurrentExact
<1>4. DriverInv'  BY DEF DriverInv, Watched
<1>5. HeaderInv'  BY DEF HeaderInv
<1>6. RegistryExact'  BY DEF DriverInv, Watched, RegistryExact, Waiting
<1> QED
  BY <1>1, <1>2, <1>3, <1>4, <1>5, <1>6 DEF IInv

\* connection_cb with an incomplete request.
LEMMA ReadMoreStep ==
  ASSUME AppFaults = {}, IInv, NEW c \in Conn, ReadMore(c)
  PROVE  IInv'
<1> USE ConstantsAssumption DEF IInv, TypeOK, Iter, WriteCallbacks,
       ReadMore, Runs
<1>1. TypeOK'  BY DEF TypeOK
<1>2. FrameInv'  BY DEF FrameInv
<1>3. CurrentExact'  BY DEF CurrentExact
<1>4. DriverInv'  BY DEF DriverInv, Watched
<1>5. HeaderInv'  BY DEF HeaderInv
<1>6. RegistryExact'  BY DEF RegistryExact, Waiting
<1> QED
  BY <1>1, <1>2, <1>3, <1>4, <1>5, <1>6 DEF IInv

\* connection_cb with a complete request: the read watcher hands over to
\* write_cb.
LEMMA ReadRequestStep ==
  ASSUME AppFaults = {}, IInv, NEW c \in Conn, ReadRequest(c)
  PROVE  IInv'
<1> USE ConstantsAssumption DEF IInv, TypeOK, Iter, WriteCallbacks,
       ReadRequest, StartWriting, Runs
<1>1. TypeOK'  BY DEF TypeOK
<1>2. FrameInv'  BY DEF FrameInv
<1>3. CurrentExact'  BY DEF CurrentExact
<1>4. DriverInv'  BY DEF DriverInv, Watched
<1>5. HeaderInv'  BY DEF HeaderInv
<1>6. RegistryExact'  BY DEF RegistryExact, Waiting
<1> QED
  BY <1>1, <1>2, <1>3, <1>4, <1>5, <1>6 DEF IInv

\* connection_cb at end of file, taken for a request.
LEMMA ReadEofStep ==
  ASSUME AppFaults = {}, IInv, NEW c \in Conn, ReadEof(c)
  PROVE  IInv'
<1> USE ConstantsAssumption DEF IInv, TypeOK, Iter, WriteCallbacks, ReadEof,
       StartWriting, Runs
<1>1. TypeOK'  BY DEF TypeOK
<1>2. FrameInv'  BY DEF FrameInv
<1>3. CurrentExact'  BY DEF CurrentExact
<1>4. DriverInv'  BY DEF DriverInv, Watched
<1>5. HeaderInv'  BY DEF HeaderInv
<1>6. RegistryExact'  BY DEF RegistryExact, Waiting
<1> QED
  BY <1>1, <1>2, <1>3, <1>4, <1>5, <1>6 DEF IInv

\* connection_cb at end of file: the struct is forgotten, but nothing
\* points to it.
LEMMA ReadNothingStep ==
  ASSUME AppFaults = {}, IInv, NEW c \in Conn, ReadNothing(c)
  PROVE  IInv'
<1> USE ConstantsAssumption DEF IInv, TypeOK, Iter, WriteCallbacks,
       ReadNothing, Runs
<1>1. TypeOK'  BY DEF TypeOK
<1>2. FrameInv'  BY DEF FrameInv
<1>3. CurrentExact'  BY DEF CurrentExact
<1>4. DriverInv'  BY DEF DriverInv, Watched
<1>5. HeaderInv'  BY DEF HeaderInv
<1>6. RegistryExact'  BY DEF RegistryExact, Waiting
<1> QED
  BY <1>1, <1>2, <1>3, <1>4, <1>5, <1>6 DEF IInv

\* connection_cb after a failed read.
LEMMA ReadErrorStep ==
  ASSUME AppFaults = {}, IInv, NEW c \in Conn, ReadError(c)
  PROVE  IInv'
<1> USE ConstantsAssumption DEF IInv, TypeOK, Iter, WriteCallbacks,
       ReadError, Runs
<1>1. TypeOK'  BY DEF TypeOK
<1>2. FrameInv'  BY DEF FrameInv
<1>3. CurrentExact'  BY DEF CurrentExact
<1>4. DriverInv'  BY DEF DriverInv, Watched
<1>5. HeaderInv'  BY DEF HeaderInv
<1>6. RegistryExact'  BY DEF RegistryExact, Waiting
<1> QED
  BY <1>1, <1>2, <1>3, <1>4, <1>5, <1>6 DEF IInv

\* connection_cb after the last failed read closes an unregistered client.
LEMMA ReadGivesUpStep ==
  ASSUME AppFaults = {}, IInv, NEW c \in Conn, ReadGivesUp(c)
  PROVE  IInv'
<1> USE ConstantsAssumption DEF IInv, TypeOK, Iter, WriteCallbacks,
       ReadGivesUp, Runs, CloseConnection
<1>1. TypeOK'  BY DEF TypeOK
<1>2. FrameInv'  BY DEF FrameInv
<1>3. CurrentExact'  BY DEF CurrentExact
<1>4. DriverInv'  BY DEF DriverInv, Watched
<1>5. HeaderInv'  BY DEF HeaderInv
<1>6. RegistryExact'  BY DEF DriverInv, RegistryExact, Waiting
<1> QED
  BY <1>1, <1>2, <1>3, <1>4, <1>5, <1>6 DEF IInv

\* write_cb refusing a request: a client at iter -2 that runs write_cb
\* never registered.
LEMMA WriteHttpErrorStep ==
  ASSUME AppFaults = {}, IInv, NEW c \in Conn, WriteHttpError(c)
  PROVE  IInv'
<1> USE ConstantsAssumption DEF IInv, TypeOK, Iter, WriteCallbacks,
       WriteHttpError, Answers, Runs, CloseConnection
<1>1. TypeOK'  BY DEF TypeOK
<1>2. FrameInv'  BY DEF FrameInv
<1>3. CurrentExact'  BY DEF CurrentExact
<1>4. DriverInv'  BY DEF FrameInv, DriverInv, Watched
<1>5. HeaderInv'  BY DEF HeaderInv
<1>6. RegistryExact'  BY DEF FrameInv, DriverInv, RegistryExact, Waiting
<1> QED
  BY <1>1, <1>2, <1>3, <1>4, <1>5, <1>6 DEF IInv

\* write_cb answering OPTIONS.
LEMMA WriteOptionsStep ==
  ASSUME AppFaults = {}, IInv, NEW c \in Conn, WriteOptions(c)
  PROVE  IInv'
<1> USE ConstantsAssumption DEF IInv, TypeOK, Iter, WriteCallbacks,
       WriteOptions, Answers, Runs, HeaderSent
<1>1. TypeOK'  BY DEF TypeOK
<1>2. FrameInv'  BY DEF FrameInv
<1>3. CurrentExact'  BY DEF CurrentExact
<1>4. DriverInv'  BY DEF DriverInv, Watched
<1>5. HeaderInv'  BY DEF FrameInv, DriverInv, HeaderInv
<1>6. RegistryExact'  BY DEF RegistryExact, Waiting
<1> QED
  BY <1>1, <1>2, <1>3, <1>4, <1>5, <1>6 DEF IInv

\* write_cb entering the application.
LEMMA HandlerStartStep ==
  ASSUME AppFaults = {}, IInv, NEW c \in Conn, HandlerStart(c)
  PROVE  IInv'
<1> USE ConstantsAssumption DEF IInv, TypeOK, Iter, WriteCallbacks,
       HandlerStart, Answers, Runs, clients
<1>1. TypeOK'  BY DEF TypeOK
<1>2. FrameInv'  BY DEF FrameInv, DriverInv
<1>3. CurrentExact'  BY DEF CurrentExact
<1>4. DriverInv'  BY DEF FrameInv, DriverInv, Watched
<1>5. HeaderInv'  BY DEF HeaderInv
<1>6. RegistryExact'  BY DEF RegistryExact, Waiting
<1> QED
  BY <1>1, <1>2, <1>3, <1>4, <1>5, <1>6 DEF IInv

\* write_cb after the handler returned content.
LEMMA HandlerReturnsContentStep ==
  ASSUME AppFaults = {}, IInv, NEW c \in Conn, HandlerReturnsContent(c)
  PROVE  IInv'
<1> USE ConstantsAssumption DEF IInv, TypeOK, Iter, WriteCallbacks,
       HandlerReturnsContent, InHandler, Allowed, HeaderSent
<1>1. TypeOK'  BY DEF FrameInv
<1>2. FrameInv'  BY DEF FrameInv
<1>3. CurrentExact'  BY DEF CurrentExact
<1>4. DriverInv'  BY DEF FrameInv, DriverInv, Watched
<1>5. HeaderInv'  BY DEF FrameInv, HeaderInv
<1>6. RegistryExact'  BY DEF RegistryExact, Waiting
<1> QED
  BY <1>1, <1>2, <1>3, <1>4, <1>5, <1>6 DEF IInv

\* write_cb after the handler returned True: the timer takes over.
LEMMA HandlerReturnsTrueStep ==
  ASSUME AppFaults = {}, IInv, NEW c \in Conn, HandlerReturnsTrue(c)
  PROVE  IInv'
<1> USE ConstantsAssumption DEF IInv, TypeOK, Iter, WriteCallbacks,
       HandlerReturnsTrue, InHandler, Allowed
<1>1. TypeOK'  BY DEF TypeOK
<1>2. FrameInv'  BY DEF FrameInv
<1>3. CurrentExact'  BY DEF CurrentExact
<1>4. DriverInv'  BY DEF DriverInv, Watched
<1>5. HeaderInv'  BY DEF HeaderInv
<1>6. RegistryExact'  BY DEF RegistryExact, Waiting
<1> QED
  BY <1>1, <1>2, <1>3, <1>4, <1>5, <1>6 DEF IInv

\* write_cb sending a piece of the body.
LEMMA WriteChunkStep ==
  ASSUME AppFaults = {}, IInv, NEW c \in Conn, WriteChunk(c)
  PROVE  IInv'
<1> USE ConstantsAssumption DEF IInv, TypeOK, Iter, WriteCallbacks,
       WriteChunk, Answers, Runs
<1>1. TypeOK'  BY DEF TypeOK
<1>2. FrameInv'  BY DEF FrameInv
<1>3. CurrentExact'  BY DEF CurrentExact
<1>4. DriverInv'  BY DEF DriverInv, Watched
<1>5. HeaderInv'  BY DEF HeaderInv
<1>6. RegistryExact'  BY DEF RegistryExact, Waiting
<1> QED
  BY <1>1, <1>2, <1>3, <1>4, <1>5, <1>6 DEF IInv

\* write_cb ending: an answered client has no registration left to dangle.
LEMMA WriteEndStep ==
  ASSUME AppFaults = {}, IInv, NEW c \in Conn, WriteEnd(c)
  PROVE  IInv'
<1> USE ConstantsAssumption DEF IInv, TypeOK, Iter, WriteCallbacks,
       WriteEnd, Answers, Runs, CloseConnection
<1>1. TypeOK'  BY DEF TypeOK
<1>2. FrameInv'  BY DEF FrameInv
<1>3. CurrentExact'  BY DEF CurrentExact
<1>4. DriverInv'  BY DEF DriverInv, Watched, HeaderInv
<1>5. HeaderInv'  BY DEF HeaderInv
<1>6. RegistryExact'  BY DEF HeaderInv, RegistryExact, Waiting
<1> QED
  BY <1>1, <1>2, <1>3, <1>4, <1>5, <1>6 DEF IInv

\* register_client: the id was free, so the entries stay one to one.
LEMMA RegisterClientStep ==
  ASSUME AppFaults = {}, IInv, NEW c \in Conn, NEW p \in PyId,
         RegisterClient(c, p)
  PROVE  IInv'
<1> USE ConstantsAssumption DEF IInv, TypeOK, Iter, WriteCallbacks,
       RegisterClient, InHandler, Allowed
<1>1. TypeOK'  BY DEF TypeOK
<1>2. FrameInv'  BY DEF FrameInv
<1>3. CurrentExact'  BY DEF CurrentExact
<1>4. DriverInv'  BY DEF FrameInv, DriverInv, Watched
<1>5. HeaderInv'  BY DEF FrameInv, HeaderInv
<1>6. RegistryExact'  BY DEF RegistryExact, Waiting
<1> QED
  BY <1>1, <1>2, <1>3, <1>4, <1>5, <1>6 DEF IInv

\* write_response: the entry it finds is that of a waiting client, never
\* of the one being served or expired.
LEMMA WriteResponseStep ==
  ASSUME AppFaults = {}, IInv, NEW p \in PyId, WriteResponse(p)
  PROVE  IInv'
<1> USE ConstantsAssumption DEF IInv, TypeOK, Iter, WriteCallbacks,
       WriteResponse, Allowed, Unregister
<1>1. TypeOK'  BY DEF TypeOK
<1>2. FrameInv'  BY DEF FrameInv, CurrentExact
<1>3. CurrentExact'  BY DEF CurrentExact
<1>4. DriverInv'  BY DEF DriverInv, Watched, RegistryExact, Waiting
<1>5. HeaderInv'  BY DEF HeaderInv, RegistryExact, Waiting
<1>6. RegistryExact'  BY DEF RegistryExact, Waiting
<1> QED
  BY <1>1, <1>2, <1>3, <1>4, <1>5, <1>6 DEF IInv

\* write_response_cb having written the header.
LEMMA WriteResponseHeaderStep ==
  ASSUME AppFaults = {}, IInv, NEW c \in Conn, WriteResponseHeader(c)
  PROVE  IInv'
<1> USE ConstantsAssumption DEF IInv, TypeOK, Iter, WriteCallbacks,
       WriteResponseHeader, Runs, HeaderSent
<1>1. TypeOK'  BY DEF HeaderInv
<1>2. FrameInv'  BY DEF FrameInv
<1>3. CurrentExact'  BY DEF CurrentExact
<1>4. DriverInv'  BY DEF DriverInv, Watched
<1>5. HeaderInv'  BY DEF DriverInv, HeaderInv
<1>6. RegistryExact'  BY DEF FrameInv, DriverInv, RegistryExact, Waiting
<1> QED
  BY <1>1, <1>2, <1>3, <1>4, <1>5, <1>6 DEF IInv

\* write_response_cb having failed: the client is already unregistered.
LEMMA WriteResponseFailsStep ==
  ASSUME AppFaults = {}, IInv, NEW c \in Conn, WriteResponseFails(c)
  PROVE  IInv'
<1> USE ConstantsAssumption DEF IInv, TypeOK, Iter, WriteCallbacks,
       WriteResponseFails, Runs, CloseConnection
<1>1. TypeOK'  BY DEF TypeOK
<1>2. FrameInv'  BY DEF FrameInv
<1>3. CurrentExact'  BY DEF CurrentExact
<1>4. DriverInv'  BY DEF DriverInv, Watched
<1>5. HeaderInv'  BY DEF HeaderInv
<1>6. RegistryExact'  BY DEF FrameInv, DriverInv, RegistryExact, Waiting
<1> QED
  BY <1>1, <1>2, <1>3, <1>4, <1>5, <1>6 DEF IInv

\* timeout_cb calling the application.
LEMMA TimeoutStartStep ==
  ASSUME AppFaults = {}, IInv, NEW c \in Conn, TimeoutStart(c)
  PROVE  IInv'
<1> USE ConstantsAssumption DEF IInv, TypeOK, Iter, WriteCallbacks,
       TimeoutStart, Runs
<1>1. TypeOK'  BY DEF TypeOK
<1>2. FrameInv'  BY DEF FrameInv, HeaderInv
<1>3. CurrentExact'  BY DEF CurrentExact
<1>4. DriverInv'  BY DEF FrameInv, DriverInv, Watched
<1>5. HeaderInv'  BY DEF HeaderInv
<1>6. RegistryExact'  BY DEF RegistryExact, Waiting
<1> QED
  BY <1>1, <1>2, <1>3, <1>4, <1>5, <1>6 DEF IInv

\* timeout_cb after that call: it removes its own entry and nobody else's.
LEMMA TimeoutEndStep ==
  ASSUME AppFaults = {}, IInv, NEW c \in Conn, TimeoutEnd(c)
  PROVE  IInv'
<1> USE ConstantsAssumption DEF IInv, TypeOK, Iter, WriteCallbacks,
       TimeoutEnd, Unregister, CloseConnection
<1>1. TypeOK'  BY DEF TypeOK
<1>2. FrameInv'  BY DEF FrameInv
<1>3. CurrentExact'  BY DEF CurrentExact
<1>4. DriverInv'  BY DEF FrameInv, DriverInv, Watched
<1>5. HeaderInv'  BY DEF HeaderInv
<1>6. RegistryExact'  BY DEF FrameInv, RegistryExact, Waiting
<1> QED
  BY <1>1, <1>2, <1>3, <1>4, <1>5, <1>6 DEF IInv

\* The signal callbacks.
LEMMA SigintStep ==
  ASSUME AppFaults = {}, IInv, Sigint
  PROVE  IInv'
<1> USE ConstantsAssumption DEF IInv, TypeOK, Iter, WriteCallbacks, Sigint,
       clients
<1>1. TypeOK'  BY DEF TypeOK
<1>2. FrameInv'  BY DEF FrameInv
<1>3. CurrentExact'  BY DEF CurrentExact
<1>4. DriverInv'  BY DEF DriverInv, Watched
<1>5. HeaderInv'  BY DEF HeaderInv
<1>6. RegistryExact'  BY DEF RegistryExact, Waiting
<1> QED
  BY <1>1, <1>2, <1>3, <1>4, <1>5, <1>6 DEF IInv

\* py_run_loop after ev_loop: the registry is destroyed.
LEMMA LoopReturnsStep ==
  ASSUME AppFaults = {}, IInv, LoopReturns
  PROVE  IInv'
<1> USE ConstantsAssumption DEF IInv, TypeOK, Iter, WriteCallbacks,
       LoopReturns, clients
<1>1. TypeOK'  BY DEF TypeOK
<1>2. FrameInv'  BY DEF FrameInv
<1>3. CurrentExact'  BY DEF CurrentExact
<1>4. DriverInv'  BY DEF DriverInv, Watched
<1>5. HeaderInv'  BY DEF HeaderInv
<1>6. RegistryExact'  BY DEF RegistryExact
<1> QED
  BY <1>1, <1>2, <1>3, <1>4, <1>5, <1>6 DEF IInv
-----------------------------------------------------------------------------
(* Theorems *)

\* No struct exists when the loop starts.
LEMMA InitIInv == Init => IInv
<1> SUFFICES ASSUME Init  PROVE IInv
  OBVIOUS
<1> USE ConstantsAssumption DEF Init
<1>1. TypeOK
  <2>1. iter \in [Conn -> Iter] /\ retry \in [Conn -> 0 .. MaxRetry]
    BY DEF Iter
  <2> QED
    BY <2>1 DEF TypeOK, WriteCallbacks
<1>2. FrameInv       BY DEF FrameInv
<1>3. CurrentExact   BY DEF CurrentExact
<1>4. DriverInv      BY DEF DriverInv, Watched
<1>5. HeaderInv      BY DEF HeaderInv
<1>6. RegistryExact  BY DEF RegistryExact, Waiting
<1> QED
  BY <1>1, <1>2, <1>3, <1>4, <1>5, <1>6 DEF IInv

\* One lemma per action makes the invariant inductive.
LEMMA NextIInv ==
  ASSUME AppFaults = {}, IInv, [Next]_vars
  PROVE  IInv'
<1>1. CASE \E c \in Conn : Connection(c)
  <2>1. PICK c \in Conn : Connection(c)
    BY <1>1
  <2>2. CASE \E p \in PyId : RegisterClient(c, p)
    BY <2>2, RegisterClientStep
  <2>3. CASE ~ \E p \in PyId : RegisterClient(c, p)
    BY <2>1, <2>3, AcceptStep, ReadMoreStep, ReadRequestStep, ReadEofStep,
       ReadNothingStep, ReadErrorStep, ReadGivesUpStep, WriteHttpErrorStep,
       WriteOptionsStep, HandlerStartStep, HandlerReturnsContentStep,
       HandlerReturnsTrueStep, WriteChunkStep, WriteEndStep,
       WriteResponseHeaderStep, WriteResponseFailsStep, TimeoutStartStep,
       TimeoutEndStep
       DEF Connection
  <2> QED
    BY <2>2, <2>3
<1>2. CASE \E p \in PyId : WriteResponse(p)
  BY <1>2, WriteResponseStep
<1>3. CASE Sigint
  BY <1>3, SigintStep
<1>4. CASE LoopReturns
  BY <1>4, LoopReturnsStep
<1>5. CASE UNCHANGED vars
  BY <1>5 DEF vars, IInv, TypeOK, FrameInv, CurrentExact, DriverInv,
     HeaderInv, RegistryExact, Watched, Waiting, Iter, WriteCallbacks
<1> QED
  BY <1>1, <1>2, <1>3, <1>4, <1>5 DEF Next

\* With a disciplined application the invariant holds for ever.
THEOREM Invariance ==
  ASSUME AppFaults = {}
  PROVE  Spec => []IInv
<1>1. Init => IInv
  BY InitIInv
<1>2. IInv /\ [Next]_vars => IInv'
  BY NextIInv
<1> QED
  BY <1>1, <1>2, PTL DEF Spec

\* Type correctness: among others, a connection survives at most MAX_RETRY
\* failed reads, whatever the application and the network do.
THEOREM TypeCorrect ==
  ASSUME AppFaults = {}
  PROVE  Spec => []TypeOK
<1>1. IInv => TypeOK
  BY DEF IInv
<1> QED
  BY <1>1, Invariance, PTL

\* Nothing ever points to a struct close_connection freed, although that
\* function stops no watcher and removes no registration.
THEOREM NoUseAfterFree ==
  ASSUME AppFaults = {}
  PROVE  Spec => []NoDanglingPointer
<1>1. IInv => NoDanglingPointer
  BY ConstantsAssumption DEF IInv, TypeOK, FrameInv, CurrentExact, DriverInv,
     RegistryExact, NoDanglingPointer, Watched, Waiting
<1> QED
  BY <1>1, Invariance, PTL

\* Between callbacks every open connection has exactly one active watcher.
THEOREM OneDriverAlways ==
  ASSUME AppFaults = {}
  PROVE  Spec => []OneDriver
<1>1. IInv => OneDriver
  BY ConstantsAssumption
     DEF IInv, TypeOK, FrameInv, DriverInv, OneDriver, Watched
<1> QED
  BY <1>1, Invariance, PTL

\* write_response finds exactly the clients that wait, each under its own id.
THEOREM RegistryCorrect ==
  ASSUME AppFaults = {}
  PROVE  Spec => []RegistryExact
<1>1. IInv => RegistryExact
  BY DEF IInv
<1> QED
  BY <1>1, Invariance, PTL

\* A response has exactly one header, on both paths to write_cb.
THEOREM OneHeaderAlways ==
  ASSUME AppFaults = {}
  PROVE  Spec => []OneHeader
<1>1. IInv => OneHeader
  BY DEF IInv, HeaderInv, OneHeader
<1> QED
  BY <1>1, Invariance, PTL

\* _current_client is the client whose handler runs, and NULL otherwise, on
\* each of the ways out of python_handler.
THEOREM CurrentAlways ==
  ASSUME AppFaults = {}
  PROVE  Spec => []CurrentExact
<1>1. IInv => CurrentExact
  BY DEF IInv
<1> QED
  BY <1>1, Invariance, PTL

\* A client for which write_response was called never expires.
THEOREM AnswerBeatsTimeout ==
  ASSUME AppFaults = {}
  PROVE  Spec => AnsweredNeverExpires
<1> DEFINE Answered(c) == evWrite[c] = "write_response_cb"
<1> DEFINE Safe(c) == ~timer'[c] /\ ~(fn' = "timeout" /\ arg' = c)
<1>1. ASSUME IInv, [Next]_vars, NEW c \in Conn, Answered(c)
      PROVE  Safe(c)
  <2>1. ~timer[c] /\ arg # c
    BY <1>1, ConstantsAssumption DEF IInv, FrameInv, DriverInv, TypeOK
  <2>2. CASE \E d \in Conn : Connection(d)
    <3>1. PICK d \in Conn : Connection(d)
      BY <2>2
    <3> USE <1>1, <2>1 DEF IInv, TypeOK
    <3>2. CASE Accept(d) \/ ReadMore(d) \/ ReadRequest(d) \/ ReadEof(d)
               \/ ReadNothing(d) \/ ReadError(d) \/ ReadGivesUp(d)
      BY <3>2 DEF Accept, ReadMore, ReadRequest, ReadEof, StartWriting,
                  ReadNothing, ReadError, ReadGivesUp
    <3>3. CASE WriteHttpError(d) \/ WriteOptions(d) \/ HandlerStart(d)
               \/ WriteChunk(d) \/ WriteEnd(d)
      BY <3>3 DEF WriteHttpError, WriteOptions, HandlerStart, WriteChunk,
                  WriteEnd, clients
    <3>4. CASE HandlerReturnsContent(d) \/ HandlerReturnsTrue(d)
               \/ \E p \in PyId : RegisterClient(d, p)
      BY <3>4 DEF HandlerReturnsContent, HandlerReturnsTrue, RegisterClient,
                  InHandler
    <3>5. CASE WriteResponseHeader(d) \/ WriteResponseFails(d)
               \/ TimeoutStart(d) \/ TimeoutEnd(d)
      BY <3>5, ConstantsAssumption
         DEF WriteResponseHeader, WriteResponseFails, TimeoutStart, TimeoutEnd
    <3> QED
      BY <3>1, <3>2, <3>3, <3>4, <3>5 DEF Connection
  <2>3. CASE \E p \in PyId : WriteResponse(p)
    BY <1>1, <2>1, <2>3 DEF WriteResponse, IInv, TypeOK
  <2>4. CASE Sigint \/ LoopReturns \/ UNCHANGED vars
    BY <2>1, <2>4 DEF Sigint, LoopReturns, clients, vars
  <2> QED
    BY <1>1, <2>2, <2>3, <2>4 DEF Next
<1>2. IInv /\ [Next]_vars => [\A c \in Conn : Answered(c) => Safe(c)]_vars
  BY <1>1
<1> QED
  BY <1>2, Invariance, PTL DEF Spec, AnsweredNeverExpires

-----------------------------------------------------------------------------
(* MainLoop implements the safety part of DeferredResponse, for any number *)
(* of connections and ids, when the application keeps to the rules.        *)

Same(c) == StatusOf(c)' = StatusOf(c) /\ TicketOf(c)' = TicketOf(c)

\* A step that changes how one connection is seen is a move of that one.
LEMMA MoveOf ==
  ASSUME NEW c \in Conn, NEW from, NEW to, NEW t,
         StatusOf(c) = from, StatusOf(c)' = to, TicketOf(c)' = t,
         \A o \in Conn : o # c => Same(o),
         UNCHANGED unloop
  PROVE  Abstract!Move(c, from, to, t)
  BY DEF Abstract!Move, Same

\* A step that changes how no connection is seen is none at all.
LEMMA StutterOf ==
  ASSUME \A o \in Conn : Same(o), UNCHANGED unloop
  PROVE  UNCHANGED Abstract!vars
  BY DEF Abstract!vars, Same

\* Whatever leaves the watchers, iter, id, cli and the stack alone.
LEMMA SameIfUntouched ==
  ASSUME NEW o \in Conn,
         cli'[o] = cli[o], timer'[o] = timer[o], evWrite'[o] = evWrite[o],
         iter'[o] = iter[o], id'[o] = id[o],
         (fn' = "timeout" /\ arg' = o) <=> (fn = "timeout" /\ arg = o)
  PROVE  Same(o)
  BY DEF Same, StatusOf, TicketOf, Waiting

-----------------------------------------------------------------------------
(* One lemma per group of actions. *)

\* accept_cb is Connect; reading is seen by nobody, unless it ends in a close.
LEMMA ReadingRefines ==
  ASSUME IInv, NEW c \in Conn,
         \/ Accept(c) \/ ReadMore(c) \/ ReadRequest(c) \/ ReadEof(c)
         \/ ReadNothing(c) \/ ReadError(c) \/ ReadGivesUp(c)
  PROVE  Abstract!Next \/ UNCHANGED Abstract!vars
<1> USE ConstantsAssumption DEF IInv, TypeOK, DriverInv, HeaderInv, FrameInv, Runs
<1>1. CASE Accept(c)
  <2>1. \A o \in Conn : o # c => Same(o)
    BY <1>1, SameIfUntouched DEF Accept
  <2>2. Abstract!Connect(c)
    BY <1>1, <2>1, MoveOf
       DEF Accept, Abstract!Connect, StatusOf, TicketOf, Waiting, Watched
  <2> QED
    BY <2>2 DEF Abstract!Next
<1>2. CASE ReadMore(c) \/ ReadError(c)
  <2>1. \A o \in Conn : Same(o)
    BY <1>2, SameIfUntouched DEF ReadMore, ReadError
  <2> QED
    BY <1>2, <2>1, StutterOf DEF ReadMore, ReadError
<1>3. CASE ReadRequest(c) \/ ReadEof(c)
  <2>1. \A o \in Conn : o # c => Same(o)
    BY <1>3, SameIfUntouched DEF ReadRequest, ReadEof, StartWriting
  <2>2. Same(c)
    BY <1>3 DEF ReadRequest, ReadEof, StartWriting, Same, StatusOf, TicketOf,
                Waiting
  <2> QED
    BY <1>3, <2>1, <2>2, StutterOf DEF ReadRequest, ReadEof, StartWriting
<1>4. CASE ReadNothing(c) \/ ReadGivesUp(c)
  <2>1. \A o \in Conn : o # c => Same(o)
    BY <1>4, SameIfUntouched DEF ReadNothing, ReadGivesUp, CloseConnection
  <2>2. Abstract!Finish(c)
    BY <1>4, <2>1, MoveOf
       DEF ReadNothing, ReadGivesUp, CloseConnection, Abstract!Finish,
           StatusOf, TicketOf, Waiting, Watched
  <2> QED
    BY <2>2 DEF Abstract!Next
<1> QED
  BY <1>1, <1>2, <1>3, <1>4

\* write_cb: Respond when the header goes out, Finish when it closes.
LEMMA WritingRefines ==
  ASSUME AppFaults = {}, IInv, NEW c \in Conn,
         \/ WriteHttpError(c) \/ WriteOptions(c) \/ HandlerStart(c)
         \/ HandlerReturnsContent(c) \/ HandlerReturnsTrue(c)
         \/ WriteChunk(c) \/ WriteEnd(c)
  PROVE  Abstract!Next \/ UNCHANGED Abstract!vars
<1> USE ConstantsAssumption
    DEF IInv, TypeOK, DriverInv, HeaderInv, FrameInv, Runs, Answers, InHandler,
        Allowed
<1>1. CASE WriteOptions(c) \/ HandlerReturnsContent(c)
  <2>1. \A o \in Conn : o # c => Same(o)
    BY <1>1, SameIfUntouched DEF WriteOptions, HandlerReturnsContent, HeaderSent
  <2>2. Abstract!Respond(c)
    BY <1>1, <2>1, MoveOf
       DEF WriteOptions, HandlerReturnsContent, HeaderSent, Abstract!Respond,
           StatusOf, TicketOf, Waiting
  <2> QED
    BY <2>2 DEF Abstract!Next
<1>2. CASE HandlerStart(c)
  <2>1. \A o \in Conn : Same(o)
    BY <1>2, SameIfUntouched DEF HandlerStart, clients
  <2> QED
    BY <1>2, <2>1, StutterOf DEF HandlerStart
<1>3. CASE HandlerReturnsTrue(c) \/ WriteChunk(c)
  <2>1. \A o \in Conn : o # c => Same(o)
    BY <1>3, SameIfUntouched DEF HandlerReturnsTrue, WriteChunk
  <2>2. Same(c)
    BY <1>3 DEF HandlerReturnsTrue, WriteChunk, Same, StatusOf, TicketOf, Waiting
  <2> QED
    BY <1>3, <2>1, <2>2, StutterOf DEF HandlerReturnsTrue, WriteChunk
<1>4. CASE WriteHttpError(c) \/ WriteEnd(c)
  <2>1. \A o \in Conn : o # c => Same(o)
    BY <1>4, SameIfUntouched DEF WriteHttpError, WriteEnd, CloseConnection
  <2>2. Abstract!Finish(c)
    BY <1>4, <2>1, MoveOf
       DEF WriteHttpError, WriteEnd, CloseConnection, Abstract!Finish,
           StatusOf, TicketOf, Waiting
  <2> QED
    BY <2>2 DEF Abstract!Next
<1> QED
  BY <1>1, <1>2, <1>3, <1>4

\* register_client is Park, and the ticket is new because the id was free.
LEMMA RegisterRefines ==
  ASSUME AppFaults = {}, IInv, NEW c \in Conn, NEW p \in PyId,
         RegisterClient(c, p)
  PROVE  Abstract!Next
<1> USE ConstantsAssumption
    DEF IInv, TypeOK, FrameInv, InHandler, Allowed, RegisterClient
<1>1. \A o \in Conn : o # c => Same(o)
  BY SameIfUntouched
<1>2. \A o \in Conn : StatusOf(o) = "waiting" => TicketOf(o) # p
  BY DEF StatusOf, TicketOf, Waiting, RegistryExact
<1>3. Abstract!Move(c, "request", "waiting", p)
  BY <1>1, MoveOf DEF StatusOf, TicketOf, Waiting
<1> QED
  BY <1>2, <1>3 DEF Abstract!Next, Abstract!Park

\* write_response is Answer, for the connection that holds the ticket.
LEMMA WriteResponseRefines ==
  ASSUME AppFaults = {}, IInv, NEW p \in PyId, WriteResponse(p)
  PROVE  Abstract!Next
<1> USE ConstantsAssumption DEF IInv, TypeOK, Allowed, WriteResponse
<1> DEFINE c == rb[p]
<1>1. /\ c \in Conn /\ timer[c] /\ cli[c] = "open"
      /\ ~(fn = "timeout" /\ arg = c)
  BY DEF RegistryExact, Waiting, DriverInv, Watched
<1>2. \A o \in Conn : o # c => Same(o)
  BY <1>1, SameIfUntouched
<1>3. Abstract!Answer(c)
  BY <1>1, <1>2, MoveOf DEF Abstract!Answer, StatusOf, TicketOf, Waiting
<1> QED
  BY <1>1, <1>3 DEF Abstract!Next

\* write_response_cb goes on with the response or finishes it.
LEMMA WriteResponseCbRefines ==
  ASSUME IInv, NEW c \in Conn, WriteResponseHeader(c) \/ WriteResponseFails(c)
  PROVE  Abstract!Next \/ UNCHANGED Abstract!vars
<1> USE ConstantsAssumption
    DEF IInv, TypeOK, DriverInv, HeaderInv, FrameInv, Runs
<1>1. CASE WriteResponseHeader(c)
  <2>1. \A o \in Conn : o # c => Same(o)
    BY <1>1, SameIfUntouched DEF WriteResponseHeader, HeaderSent
  <2>2. Same(c)
    BY <1>1 DEF WriteResponseHeader, HeaderSent, Same, StatusOf, TicketOf, Waiting
  <2> QED
    BY <1>1, <2>1, <2>2, StutterOf DEF WriteResponseHeader
<1>2. CASE WriteResponseFails(c)
  <2>1. \A o \in Conn : o # c => Same(o)
    BY <1>2, SameIfUntouched DEF WriteResponseFails, CloseConnection
  <2>2. Abstract!Finish(c)
    BY <1>2, <2>1, MoveOf
       DEF WriteResponseFails, CloseConnection, Abstract!Finish, StatusOf,
           TicketOf, Waiting
  <2> QED
    BY <2>2 DEF Abstract!Next
<1> QED
  BY <1>1, <1>2

\* timeout_cb expires the client when it has called the application.
LEMMA TimeoutRefines ==
  ASSUME IInv, NEW c \in Conn, TimeoutStart(c) \/ TimeoutEnd(c)
  PROVE  Abstract!Next \/ UNCHANGED Abstract!vars
<1> USE ConstantsAssumption DEF IInv, TypeOK, DriverInv, FrameInv, Runs
<1>1. CASE TimeoutStart(c)
  <2>1. \A o \in Conn : o # c => Same(o)
    BY <1>1, SameIfUntouched DEF TimeoutStart
  <2>2. Same(c)
    BY <1>1 DEF TimeoutStart, Same, StatusOf, TicketOf, Waiting
  <2> QED
    BY <1>1, <2>1, <2>2, StutterOf DEF TimeoutStart
<1>2. CASE TimeoutEnd(c)
  <2>1. \A o \in Conn : o # c => Same(o)
    BY <1>2, SameIfUntouched DEF TimeoutEnd, CloseConnection
  <2>2. Abstract!Expire(c)
    BY <1>2, <2>1, MoveOf
       DEF TimeoutEnd, CloseConnection, Abstract!Expire, StatusOf, TicketOf,
           Waiting
  <2> QED
    BY <2>2 DEF Abstract!Next
<1> QED
  BY <1>1, <1>2

\* The signals stop the server; the end of ev_loop changes nothing more.
LEMMA StopRefines ==
  ASSUME IInv, Sigint \/ LoopReturns \/ UNCHANGED vars
  PROVE  Abstract!Next \/ UNCHANGED Abstract!vars
<1>1. \A o \in Conn : Same(o)
  BY SameIfUntouched DEF Sigint, LoopReturns, clients, vars
<1>2. CASE Sigint
  BY <1>1, <1>2 DEF Sigint, Same, Abstract!Next, Abstract!Stop
<1>3. CASE LoopReturns \/ UNCHANGED vars
  BY <1>1, <1>3, StutterOf DEF LoopReturns, vars
<1> QED
  BY <1>2, <1>3

-----------------------------------------------------------------------------
\* No connection, no ticket.
LEMMA InitRefines == Init => Abstract!Init
  BY DEF Init, Abstract!Init, StatusOf, TicketOf, Waiting

\* Every step is a step of DeferredResponse or none.
LEMMA NextRefines ==
  ASSUME AppFaults = {}, IInv, [Next]_vars
  PROVE  Abstract!Next \/ UNCHANGED Abstract!vars
<1>1. CASE \E c \in Conn : Connection(c)
  BY <1>1, ReadingRefines, WritingRefines, RegisterRefines,
     WriteResponseCbRefines, TimeoutRefines DEF Connection
<1>2. CASE \E p \in PyId : WriteResponse(p)
  BY <1>2, WriteResponseRefines
<1>3. CASE Sigint \/ LoopReturns \/ UNCHANGED vars
  BY <1>3, StopRefines
<1> QED
  BY <1>1, <1>2, <1>3 DEF Next

\* register_client, write_response and the timeout keep the promise of
\* DeferredResponse: a parked client is answered or expires, never both and
\* never twice, and an answer goes to the connection that holds the id.
THEOREM Refinement ==
  ASSUME AppFaults = {}
  PROVE  Spec => Abstract!Init /\ [][Abstract!Next]_(Abstract!vars)
<1>1. IInv /\ [Next]_vars => [Abstract!Next]_(Abstract!vars)
  BY NextRefines
<1> QED
  BY <1>1, InitRefines, Invariance, PTL DEF Spec

=============================================================================
