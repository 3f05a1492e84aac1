\* Two widgets of any class shared by all the forms of one request after another.
SPECIFICATION Spec
CONSTANTS
    Value <- Texts
    Blank = ""
    MinusOne = "-1"
    Length <- Lengths
    Signs <- SignsOf
    Number = {"-1", "12"}
    Field = {"a", "b", "_c"}
    Private = {"_c"}
    Form = {f1}
    Fields <- Lists
    Made <- Widgets2
    Inputs <- Sent
INVARIANT PageIsFresh
INVARIANT PageShowsInput
INVARIANT NoErrorMeansValid
