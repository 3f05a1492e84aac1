------------------------------ MODULE DeferSpec ------------------------------
(***************************************************************************)
(* What evwsgi.defer promises: a call is put behind the calls that wait.   *)
(* They are executed one after the other, in order, each once, and all of  *)
(* them in the end.  A combined call is not added if the same call is      *)
(* present already: one that waits and will do its work, or the one that   *)
(* is executed just now, and then it is lost.                              *)
(***************************************************************************)
EXTENDS Sequences

CONSTANTS
    Task,           \* a deferred call: a function and its one argument
    NoTask          \* no call

VARIABLES
    waiting,        \* the calls that were not started yet, oldest first
    executing,      \* the call that is executed, or NoTask
    owed            \* the calls that were not started since last asked for

vars == <<waiting, executing, owed>>

Waits(t) == \E i \in DOMAIN waiting : waiting[i] = t

Init ==
    /\ waiting = <<>>
    /\ executing = NoTask
    /\ owed = {}

Defer(t) ==
    /\ waiting' = Append(waiting, t)
    /\ owed' = owed \cup {t}
    /\ UNCHANGED executing

Present(t) == Waits(t) \/ t = executing

DeferCombined(t) ==
    \/ ~Present(t) /\ Defer(t)
    \/ /\ Present(t)
       /\ owed' = owed \cup {t}
       /\ UNCHANGED <<waiting, executing>>

Start ==
    /\ executing = NoTask /\ waiting # <<>>
    /\ executing' = Head(waiting)
    /\ waiting' = Tail(waiting)
    /\ owed' = owed \ {t \in {Head(waiting)} : ~Waits(t)'}

Finish ==
    /\ executing # NoTask
    /\ executing' = NoTask
    /\ UNCHANGED <<waiting, owed>>

Next ==
    \/ \E t \in Task : Defer(t) \/ DeferCombined(t)
    \/ Start \/ Finish

Spec == Init /\ [][Next]_vars /\ WF_vars(Start) /\ WF_vars(Finish)
=============================================================================
