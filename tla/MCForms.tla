-------------------------------- MODULE MCForms --------------------------------
(***************************************************************************)
(* An instance of Forms: two widgets of any class, one of them private in  *)
(* the list of fields or not.                                              *)
(***************************************************************************)
EXTENDS Forms, TLC

Texts == {"", "-1", "12", "2011-01-01", "2011-01/01", "2011/01/01", "2011-01-01 10:10:10"}

Lengths == [v \in Texts |->
    CASE v = "" -> 0
      [] v \in {"-1", "12"} -> 2
      [] v = "2011-01-01 10:10:10" -> 19
      [] OTHER -> 10]

SignsOf == [v \in Texts |->
    CASE v = "2011-01-01" -> {4, 7}
      [] v = "2011-01/01" -> {4}
      [] v = "2011-01-01 10:10:10" -> {4, 7, 13, 16}
      [] OTHER -> {}]

Lists == {<<"a">>, <<"a", "b">>, <<"b", "_c", "a">>}

\* "a" is of any class, "b" is a required number or a checkbox.
Definition(class, required, default, options) ==
    [class |-> class, labelled |-> class # Hidden, required |-> required,
     default |-> default, class_ |-> TRUE, options |-> options]

Options(class) == IF class.base = "select" THEN {None, {"-1", "12"}} ELSE {None}

DefinitionsOf(class) ==
    {Definition(class, TRUE, "", options) : options \in Options(class)} \cup
    {Definition(class, FALSE, "12", options) : options \in Options(class)}

Widgets2 ==
    {"a" :> a @@ "b" :> b @@ "_c" :> Definition(Text, FALSE, "", None) :
        a \in UNION {DefinitionsOf(class) : class \in Classes},
        b \in {Definition(Integer, TRUE, "", None), Definition(Check, TRUE, "", None)}}

\* One of the fields is sent, or both.
Sent ==
    {"a" :> v : v \in Texts} \cup {"b" :> "12"} \cup {"a" :> v @@ "b" :> "-1" : v \in {"", "12"}}

=============================================================================
