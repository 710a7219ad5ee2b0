---- MODULE MCConfigRollout ----
(* Instance of ConfigRollout for TLC: three uploads of two contents, so    *)
(* that the first can come back, a channel of two (with the third the      *)
(* poller waits), one inquiry at a time and one restart.                   *)
EXTENDS ConfigRollout

CONSTANTS a, b, i1

MCContents == {a, b}
MCInquiries == {i1}
====
