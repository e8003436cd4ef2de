------------------------------ MODULE MCProcedures ------------------------------
(* Procedures with one and two parameters, by reference and BYVAL, and a    *)
(* FUNCTION, all sharing two names with the variables of the program.       *)
EXTENDS Procedures

SubV  == [params |-> <<"a">>, byval |-> <<TRUE>>, result |-> NoName]
SubBA == [params |-> <<"b", "a">>, byval |-> <<FALSE, FALSE>>, result |-> NoName]
FnA   == [params |-> <<"a">>, byval |-> <<FALSE>>, result |-> "b"]

AllProcedures == {SubV, SubBA, FnA}

================================================================================
