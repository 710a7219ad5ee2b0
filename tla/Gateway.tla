---- MODULE Gateway ----
(***************************************************************************)
(* HotPipeline.Execute with both of its limits: HotPath, where an inquiry  *)
(* enters only after RateLimit has let it pass, as it runs in all daemons  *)
(* at once.  Their counters are different keys of the same Redis; a day    *)
(* may end at any time.                                                    *)
(***************************************************************************)
EXTENDS HotPath

CONSTANTS Window, TTL, RPM, MaxLag, MaxTime, MaxScripts  \* see RateLimit

VARIABLES now, count, touched, check, admitted, overtaken

rateVars == <<now, count, touched, check, admitted, overtaken>>

Rate == INSTANCE RateLimit

ASSUME GatewayAssumption == Rate!RateLimitAssumption

GatewayInit == Init /\ Rate!Init

\* Step 5 of Execute.
CheckRate(i) ==
    /\ inquiry[i] = Idle
    /\ Rate!Check(i)
    /\ UNCHANGED vars

\* Step 6: the budget admits the inquiry, or refuses it.
CheckBudget(i) ==
    /\ Rate!Leave(i)
    /\ \/ Admit(i) \/ AdmitUnchecked(i)
       \/ spent > Limit /\ UNCHANGED vars

\* Steps 7 to 10.
CallAndRecord(i) ==
    /\ \/ CallFails(i) \/ (\E c \in 0 .. MaxCost : Answer(i, c))
       \/ Block(i) \/ Record(i) \/ RecordFails(i)
    /\ UNCHANGED rateVars

GatewayNext ==
    \/ \E i \in Inquiries : CheckRate(i) \/ CheckBudget(i) \/ CallAndRecord(i)
    \/ Rate!Tick /\ UNCHANGED vars
    \/ NewDay /\ UNCHANGED rateVars

GatewaySpec == GatewayInit /\ [][GatewayNext]_<<vars, rateVars>>

----
\* What RateLimit guarantees of its window holds of the inquiries that go on
\* to the budget and the provider.
WindowBounded == Rate!WindowBounded
====
