-------------------------------- MODULE MCFiles --------------------------------
(* Files of a few bytes: items with a comma, a blank, and nothing in them,  *)
(* a number, and records of two bytes with one or two fields.               *)
EXTENDS Files

String(t) == [string |-> TRUE, text |-> t]
Number(t) == [string |-> FALSE, text |-> t]
WriteLine(items) == [write |-> TRUE, items |-> items]
PrintLine(items) == [write |-> FALSE, items |-> items]

SomeLines ==
    { WriteLine(<<String(<<>>)>>),
      WriteLine(<<Number(<<"1">>), String(<<Space, Comma>>)>>) }
PrintAndWrite ==
    { WriteLine(<<Number(<<"1">>)>>), PrintLine(<<String(<<"1", Nul, "1">>)>>) }

Field(v, w) == [var |-> v, width |-> w]
Both(f, g) == [n \in {"f", "g"} |-> IF n = "f" THEN f ELSE g]
Assign(s) == [v \in {"a"} |-> s]

TextFiles ==
    [numbers |-> 0..2,
     modes |-> Both({"input", "output", "append"}, {"input"}),
     moved |-> {"f", "g"}, lines |-> SomeLines,
     lists |-> {}, texts |-> Assign({}), places |-> {}, bytes |-> 10]
RewoundFile ==
    [numbers |-> {0, 1}, modes |-> Both({"input", "output", "random"}, {}),
     moved |-> {"f"}, lines |-> PrintAndWrite,
     lists |-> {}, texts |-> Assign({}), places |-> {1}, bytes |-> 4]
RecordFile ==
    [numbers |-> {1}, modes |-> Both({"random"}, {}), moved |-> {}, lines |-> {},
     lists |-> { <<Field("a", 1), Field("b", 1)>> },
     texts |-> Assign({<<"x">>}), places |-> {0, 2}, bytes |-> 4]
OverflowFile ==
    [RecordFile EXCEPT !.lists = { <<Field("b", 1), Field("a", 2)>> },
                       !.places = {0}, !.bytes = 2]
ByteFile ==
    [numbers |-> {0, 1}, modes |-> Both({"binary"}, {}), moved |-> {}, lines |-> {},
     lists |-> {}, texts |-> Assign({<<"x">>, <<"x", "x">>}), places |-> {0, 2},
     bytes |-> 2]

(* The same record read and written on two numbers.                         *)
TwoNumbers  == {[RecordFile EXCEPT !.numbers = {1, 2}]}
EachKind    == {TextFiles, RewoundFile, RecordFile, OverflowFile, ByteFile}

================================================================================
