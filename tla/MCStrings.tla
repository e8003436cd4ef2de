------------------------------- MODULE MCStrings -------------------------------
(* Two string variables, one record and two texts.  The variables are       *)
(* interchangeable.                                                         *)
EXTENDS Strings, TLC

CONSTANTS a, b, r1, nothing, some

TwoVars     == {a, b}
OneRecord   == {r1}
TwoTexts    == {nothing, some}

OneRecordBlocks  == nothing :> 1 @@ some :> 2 @@ r1 :> 3

Symmetric == Permutations(TwoVars)

================================================================================
