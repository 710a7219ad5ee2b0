---- MODULE MCCircuitBreaker ----
(* Instance of CircuitBreaker for TLC.  Thresholds and durations are cut   *)
(* down in proportion: two failures instead of five, a window of one tick  *)
(* (10s), a cooldown of two (30s).  Three requests are enough for two late *)
(* outcomes to race with a probe.                                          *)
EXTENDS CircuitBreaker

CONSTANTS p1, r1, r2, r3

MCProviders == {p1}
MCRequests == {r1, r2, r3}
====
