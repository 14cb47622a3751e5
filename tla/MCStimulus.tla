------------------------------ MODULE MCStimulus ------------------------------
(***************************************************************************)
(* Instances of Stimulus: two elements, one of which may hold the other.   *)
(***************************************************************************)
EXTENDS Stimulus, TLC

CONSTANTS e1, e2, a, b

Lists == e1 :> {<<a, b>>, <<b, a>>, <<a, a>>} @@ e2 :> {<<a>>}
===============================================================================
