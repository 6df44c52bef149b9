------------------------------- MODULE Inputs -------------------------------
(***************************************************************************)
(* The pure parts of cce are operators; each is checked against what it    *)
(* is for on a bounded set of inputs.  A behaviour of the `engine` run     *)
(* picks one: input.of says which operator it is for.                      *)
(***************************************************************************)
VARIABLE input

NoInput == [of |-> "none"]
For(op) == input.of = op
=============================================================================
