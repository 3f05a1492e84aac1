----------------------------- MODULE StartResponse -----------------------------
(***************************************************************************)
(* base.py: the Start_response object of a request, in which the           *)
(* application leaves the status, headers and cookies that write_cb sends. *)
(* Header and cookie names are strings, "" is a value nobody looks at.     *)
(* An operator that raises returns Raised.                                 *)
(***************************************************************************)
EXTENDS Sequences

Raised == [raised |-> TRUE]

\* Start_response(), with the headers python_handler adds.
Fresh ==
    [raised |-> FALSE, code |-> 200,
     headers |-> [h \in {"Date", "Server"} |-> ""],
     cookies |-> <<>>]

\* A dictionary d after d.update(new).
Updated(d, new) ==
    [k \in DOMAIN d \cup DOMAIN new |-> IF k \in DOMAIN new THEN new[k] ELSE d[k]]

\* __call__: status.split(" ", 1) has to give two parts.  Headers of the
\* same name are replaced, others are left.
Call(r, status, headers) ==
    IF ~status.reason THEN Raised
    ELSE [r EXCEPT !.code = status.code, !.headers = Updated(@, headers)]

Status(code) == [code |-> code, reason |-> TRUE]

\* add_header
AddHeader(r, name, value) ==
    [r EXCEPT !.headers = Updated(@, [h \in {name} |-> value])]

NoCookies(r) == r.cookies = <<>>

\* set_cookie, without and with max_age, which a cookie keeps when it is
\* set again.  (An expiry given as a datetime raises NameError.)
SetCookie(r, key, value) ==
    [r EXCEPT !.cookies = Updated(@, [k \in {key} |->
        [value |-> value,
         age |-> IF key \in DOMAIN r.cookies THEN r.cookies[key].age ELSE "session"]])]

\* delete_cookie, which needs a cookie set by this response.
DeleteCookie(r, key) ==
    IF NoCookies(r) THEN Raised
    ELSE [SetCookie(r, key, "") EXCEPT !.cookies[key].age = "0"]

\* What __str__ makes of it.
Header(r) == [code |-> r.code, headers |-> r.headers, cookies |-> r.cookies]

=============================================================================
