-------------------------------- MODULE MCDataPool --------------------------------
(* A variable and an array element of three types; three items.             *)
EXTENDS DataPool

Least32 == LongMin

(* start: DATA 33.5#, 2.5 : l: DATA "5".  A 4-bit INTEGER does not hold 33.5, *)
(* a 6-bit SINGLE rounds it.                                                *)
MCPool   == <<Num("DOUBLE", <<67, 2>>), Num("SINGLE", <<5, 2>>), Text(<<5, 1>>)>>
LargePool == <<Num("DOUBLE", <<200, 1>>), Long(9), Long(9)>>   \* for an 8-bit LONG
MCDataAt == [start |-> 0, l |-> 2]
MCLists  == {<<"x", "a">>, <<"a", "x">>, <<"param">>}
SingleRange == -6..8
MCLetValues == {Num("DOUBLE", <<-3, 2>>)}
================================================================================
