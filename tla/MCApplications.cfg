\* Every site, wrapped in every way.
SPECIFICATION Spec
CONSTANTS
    Site = {"static", "cgi", "wiki", "hello", "account"}
    Stacks <- Orders
    Version = {"v1", "v2", "v3"}
    Hollow = {"v3"}
    Page <- Pages
    Norm <- Normed
    FileOf <- Files
    Writable = {"home", "./home", "-home"}
    Lettered = {"home", "home/"}
    Content = {"t1", "t2"}
    Key = {"COOKIE", "REFERER"}
    Value = {"x", "y"}
INVARIANT HeadersTrue
INVARIANT ClientIsCurrent
INVARIANT LogIsTrue
INVARIANT SavedIsShown
