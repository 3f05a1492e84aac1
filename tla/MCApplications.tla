---------------------------- MODULE MCApplications ----------------------------
(***************************************************************************)
(* An instance of Applications: every site behind every order of wrappers. *)
(***************************************************************************)
EXTENDS Applications

Orders == {<<>>, <<"gzip">>, <<"log">>, <<"gzip", "log">>, <<"log", "gzip">>}

\* A name as it should be, another for the same file, one that is normalised
\* to it but cannot be written, one that display refuses, and none.
Pages == {"home", "./home", "home/", "-home", ""}
Normed == [p \in Pages |-> IF p \in {"home/", "./home"} THEN "home" ELSE p]
Files == [p \in Pages |-> IF p = "./home" THEN "home" ELSE p]

=============================================================================
