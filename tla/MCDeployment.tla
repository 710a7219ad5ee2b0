---- MODULE MCDeployment ----
(* Instance of Deployment for TLC: as MCConfigRollout, with two outages,   *)
(* delays of two and three units, and a daemon with and without a limit    *)
(* of two attempts.                                                        *)
EXTENDS Deployment

CONSTANTS a, b, i1

MCContents == {a, b}
MCInquiries == {i1}
MCRetryLimits == {0, 2}
====
