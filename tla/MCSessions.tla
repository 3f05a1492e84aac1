------------------------------ MODULE MCSessions ------------------------------
(***************************************************************************)
(* An instance of Sessions: browsers, requests and ids are interchangeable. *)
(***************************************************************************)
EXTENDS Sessions, TLC

Symmetry == Permutations(Browser) \cup Permutations(Request) \cup Permutations(Id)

=============================================================================
