--------------------------------- MODULE MCArrays ---------------------------------
(* Arrays of one and two dimensions.                                        *)
EXTENDS Arrays

(* Lower bounds at and above 0, dimensions of different sizes, none.        *)
AllDims == {<< <<0, 1>> >>, << <<0, 1>>, <<1, 1>> >>, << <<1, 0>> >>}

(* The first is in the bounds of some arrays of one dimension only, the     *)
(* second in those of arrays of two.                                        *)
AllSubscripts == {<<1>>, <<1, 1>>}

================================================================================
