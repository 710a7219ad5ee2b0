---- MODULE MCGateway ----
(* Instance of Gateway for TLC: two inquiries at a time, a budget of two,  *)
(* calls that cost up to two, one inquiry a day that Redis does not        *)
(* answer; one request per window of three buckets (12 in the code) whose  *)
(* keys live four (13), scripts that lag by one, five buckets of time and  *)
(* four executions of the script.                                          *)
EXTENDS Gateway, TLC

CONSTANTS i1, i2

MCInquiries == {i1, i2}
Symmetry == Permutations(MCInquiries)
====
