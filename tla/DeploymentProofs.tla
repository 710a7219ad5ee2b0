---- MODULE DeploymentProofs ----
(***************************************************************************)
(* The rollout of configurations through a daemon's life, for any number   *)
(* of configurations, inquiries, restarts and outages, any capacity of the *)
(* channel and any delays of the probe.                                    *)
(*                                                                         *)
(* A component never goes back because rows only get newer on the way from *)
(* the table to the components (OldestFirst).  ReportedIsHeld and          *)
(* NoStaleRules need to know what a half finished applyConfig leaves       *)
(* behind: new rows before the component in work, one old row after it     *)
(* (HalfApplied).  On the side of the probe, Deadlines says how much of    *)
(* the time the server is up can already have passed unnoticed.            *)
(***************************************************************************)
EXTENDS Deployment, TLAPS

\* Rows get newer from the components to applyConfig, the channel and the
\* poller.
OldestFirst ==
    /\ applying <= Len(rows) /\ forwarding <= Len(rows)
    /\ \A c \in Components : installed[c] <= Len(rows)
    /\ \A j \in 1 .. Len(configChan) :
          /\ configChan[j] <= Len(rows)
          /\ \A k \in 1 .. Len(configChan) :
                j <= k => configChan[j] <= configChan[k]
          /\ applying <= configChan[j]
          /\ \A c \in Components : installed[c] <= configChan[j]
          /\ forwarding # None => configChan[j] <= forwarding
    /\ applying # None => \A c \in Components : installed[c] <= applying
    /\ forwarding # None =>
          /\ applying <= forwarding
          /\ \A c \in Components : installed[c] <= forwarding

\* What applyConfig leaves behind.
HalfApplied ==
    \E r \in Row \cup {None} :
       IF applying = None THEN Uniform(r)
       ELSE /\ applied < Len(ApplyOrder)
            /\ \A n \in 1 .. Len(ApplyOrder) :
                  installed[ApplyOrder[n]] = IF n <= applied THEN applying ELSE r

\* The proxies are up only when all components are configured, and inquiries
\* are under way only when the proxies are up.
Configured ==
    /\ serving => \A c \in Components : installed[c] # None
    /\ \A i \in Inquiries : inquiry[i].step > 0 => serving

\* No component is behind what was installed when an inquiry arrived.
AboveFloor ==
    \A i \in Inquiries : \A c \in Components : installed[c] >= inquiry[i].floor

\* The time a server has been up, what is left of a check or a wait, and
\* elapsed, hang together.
Deadlines ==
    /\ Prober!TypeOK
    /\ ~up => upFor = 0
    /\ Prober!Probing => upFor <= elapsed
    /\ phase = "checking" =>
          /\ left <= HttpTimeout /\ upFor + left <= Prober!Patience
          /\ sawDown => upFor + left <= HttpTimeout
    /\ phase = "waiting" =>
          upFor + left <= HttpTimeout + MaxDelay + MaxDelay \div 2
    /\ upFor <= Prober!Patience

\* A process that does not run holds nothing of a configuration.
BlankBefore ==
    phase # "running" => version = NoVersion /\ ~serving /\ configChan = <<>>

RolloutInv ==
    /\ TypeOK
    /\ OldestFirst /\ HalfApplied /\ Configured /\ AboveFloor
    /\ NoStaleRules /\ ReportedIsHeld

----
(* The orders of applyConfig and Execute.                                  *)

LEMMA Orders ==
    /\ Len(ApplyOrder) = 7 /\ Len(ReadOrder) = 8
    /\ \A n \in 1 .. 7 : ApplyOrder[n] \in Components
    /\ \A c \in Components : \E n \in 1 .. 7 : c = ApplyOrder[n]
    /\ \A m, n \in 1 .. 7 : ApplyOrder[m] = ApplyOrder[n] => m = n
    /\ \A n \in 1 .. 8 : ReadOrder[n] \in Components
    /\ "dispatcher" \in Components
<1>1. Len(ApplyOrder) = 7 /\ Len(ReadOrder) = 8
  BY DEF ApplyOrder, ReadOrder
<1>2. \A n \in 1 .. 7 : ApplyOrder[n] \in Components
  BY <1>1 DEF Components
<1>3. \A c \in Components : \E n \in 1 .. 7 : c = ApplyOrder[n]
  BY <1>1 DEF Components
<1>4. \A m, n \in 1 .. 7 : ApplyOrder[m] = ApplyOrder[n] => m = n
  BY DEF ApplyOrder
<1>5. /\ ApplyOrder[1] = "dispatcher" /\ ApplyOrder[2] = "prompts"
      /\ ApplyOrder[3] = "skills" /\ ApplyOrder[5] = "guardrail"
      /\ ApplyOrder[6] = "budget" /\ ApplyOrder[7] = "ratelimit"
  BY DEF ApplyOrder
<1>6. \A n \in 1 .. 8 :
         ReadOrder[n] \in {"dispatcher", "prompts", "skills", "guardrail",
                           "budget", "ratelimit"}
  BY DEF ReadOrder
<1>7. QED
  BY <1>1, <1>2, <1>3, <1>4, <1>5, <1>6

\* Rows are numbers, wherever they are held.
LEMMA Numbers ==
    ASSUME TypeOK
    PROVE  /\ applying \in Nat /\ forwarding \in Nat
           /\ Len(rows) \in Nat /\ Len(configChan) \in Nat
           /\ \A c \in Components : installed[c] \in Nat
           /\ \A j \in 1 .. Len(configChan) : configChan[j] \in Nat
           /\ \A i \in Inquiries : inquiry[i].floor \in Nat
<1>1. Row \cup {None} \subseteq Nat
  BY DEF Row, None
<1>2. applying \in Nat /\ forwarding \in Nat
  BY <1>1 DEF TypeOK
<1>3. Len(rows) \in Nat /\ Len(configChan) \in Nat
  BY DEF TypeOK
<1>4. \A c \in Components : installed[c] \in Nat
  BY <1>1 DEF TypeOK
<1>5. \A j \in 1 .. Len(configChan) : configChan[j] \in Nat
  BY <1>1 DEF TypeOK
<1>6. \A i \in Inquiries : inquiry[i].floor \in Nat
  BY <1>1 DEF TypeOK
<1>7. QED
  BY <1>2, <1>3, <1>4, <1>5, <1>6

----
(* The rollout: its initial state and its steps.                           *)

LEMMA RolloutInit == Init => RolloutInv
<1> SUFFICES ASSUME Init
             PROVE  RolloutInv
  OBVIOUS
<1>1. /\ rows = <<>> /\ configChan = <<>> /\ Len(rows) = 0
      /\ Len(configChan) = 0
      /\ version = NoVersion /\ forwarding = 0 /\ applying = 0 /\ applied = 0
      /\ serving = FALSE /\ restarts = 0
      /\ \A c \in Components : installed[c] = 0
      /\ \A i \in Inquiries : inquiry[i] = Idle
  BY DEF Init, None
<1>2. TypeOK
  <2>1. rows \in Seq(Contents) /\ configChan \in Seq(Row)
    BY <1>1
  <2>2. installed \in [Components -> Row \cup {None}]
    BY DEF Init
  <2>3. Idle \in [step : 0 .. 9, used : SUBSET (Row \cup {None}),
                  floor : Row \cup {None}]
    BY DEF Idle, None
  <2>4. inquiry \in [Inquiries ->
           [step : 0 .. Len(ReadOrder) + 1, used : SUBSET (Row \cup {None}),
            floor : Row \cup {None}]]
    BY <2>3, Orders DEF Init
  <2>5. /\ applied \in 0 .. Len(ApplyOrder) /\ restarts \in 0 .. MaxRestarts
        /\ Len(rows) <= MaxUploads /\ Len(configChan) <= ChanCap
    BY <1>1, Orders, RolloutAssumption
  <2>6. QED
    BY <1>1, <2>1, <2>2, <2>4, <2>5 DEF TypeOK, None
<1>3. OldestFirst /\ Configured
  BY <1>1 DEF OldestFirst, Configured, Idle, None
<1>4. AboveFloor
  BY <1>1 DEF AboveFloor, Idle
<1>5. HalfApplied
  BY <1>1 DEF HalfApplied, Uniform, None
<1>6. NoStaleRules /\ ReportedIsHeld
  BY <1>1 DEF NoStaleRules, ReportedIsHeld, Idle
<1>7. QED
  BY <1>2, <1>3, <1>4, <1>5, <1>6 DEF RolloutInv

LEMMA UploadKeeps ==
    ASSUME RolloutInv, NEW c \in Contents, Upload(c)
    PROVE  RolloutInv'
<1> USE DEF RolloutInv
<1>1. /\ version' = version /\ forwarding' = forwarding
      /\ configChan' = configChan /\ applying' = applying
      /\ applied' = applied /\ installed' = installed /\ serving' = serving
      /\ inquiry' = inquiry /\ restarts' = restarts
  BY DEF Upload, poll, apply
<1>2. rows \in Seq(Contents) /\ Len(rows) \in Nat /\ Len(rows) < MaxUploads
  BY DEF Upload, TypeOK
<1>3. /\ rows' \in Seq(Contents) /\ Len(rows') = Len(rows) + 1
      /\ \A r \in 1 .. Len(rows) : rows'[r] = rows[r]
  BY <1>2 DEF Upload
<1>4. TypeOK'
  BY <1>1, <1>2, <1>3, RolloutAssumption DEF TypeOK
<1>5. \A n \in Nat : n <= Len(rows) => n <= Len(rows')
  BY <1>2, <1>3
<1>6. OldestFirst'
  BY <1>1, <1>5, Numbers DEF OldestFirst
<1>7. HalfApplied' /\ Configured' /\ AboveFloor' /\ NoStaleRules'
  BY <1>1 DEF HalfApplied, Configured, AboveFloor, NoStaleRules, Uniform
<1>8. ReportedIsHeld'
  BY <1>1, <1>2, <1>3 DEF ReportedIsHeld, Uniform
<1>9. QED
  BY <1>4, <1>6, <1>7, <1>8

LEMMA PollKeeps ==
    ASSUME RolloutInv, Poll
    PROVE  RolloutInv'
<1> USE DEF RolloutInv
<1>1. /\ rows' = rows /\ configChan' = configChan /\ applying' = applying
      /\ applied' = applied /\ installed' = installed /\ serving' = serving
      /\ inquiry' = inquiry /\ restarts' = restarts
      /\ forwarding = None /\ forwarding' = Len(rows)
      /\ version' = rows[Len(rows)]
  BY DEF Poll, server, apply
<1>2. Len(rows) \in Row /\ rows[Len(rows)] \in Contents
  BY DEF Poll, TypeOK, Row
<1>3. TypeOK'
  BY <1>1, <1>2 DEF TypeOK
<1>4. OldestFirst'
  BY <1>1, <1>2 DEF OldestFirst, Row
<1>5. HalfApplied' /\ Configured' /\ AboveFloor' /\ NoStaleRules'
  BY <1>1 DEF HalfApplied, Configured, AboveFloor, NoStaleRules, Uniform
<1>6. ReportedIsHeld'
  BY <1>1, <1>2 DEF ReportedIsHeld, Row, None
<1>7. QED
  BY <1>3, <1>4, <1>5, <1>6
LEMMA ForwardKeeps ==
    ASSUME RolloutInv, Forward
    PROVE  RolloutInv'
<1> USE DEF RolloutInv
<1>1. /\ rows' = rows /\ version' = version /\ applying' = applying
      /\ applied' = applied /\ installed' = installed /\ serving' = serving
      /\ inquiry' = inquiry /\ restarts' = restarts
      /\ forwarding # None /\ forwarding' = None
      /\ configChan' = Append(configChan, forwarding)
      /\ Len(configChan) < ChanCap
  BY DEF Forward, server, apply
<1>2. forwarding \in Row /\ configChan \in Seq(Row) /\ ChanCap \in Nat
  BY <1>1, RolloutAssumption DEF TypeOK
<1>3. /\ configChan' \in Seq(Row)
      /\ Len(configChan') = Len(configChan) + 1
      /\ configChan'[Len(configChan) + 1] = forwarding
      /\ \A j \in 1 .. Len(configChan) : configChan'[j] = configChan[j]
  BY <1>1, <1>2
<1>4. TypeOK'
  <2>1. Len(configChan') <= ChanCap
    BY <1>1, <1>2, <1>3, Numbers
  <2>2. QED
    BY <1>1, <1>3, <2>1 DEF TypeOK
<1>5. OldestFirst'
  <2>1. \A j \in 1 .. Len(configChan') :
           j \in 1 .. Len(configChan) \/ j = Len(configChan) + 1
    BY <1>3, Numbers
  <2>2. ASSUME NEW j \in 1 .. Len(configChan')
        PROVE  /\ configChan'[j] <= Len(rows)
               /\ \A k \in 1 .. Len(configChan') :
                     j <= k => configChan'[j] <= configChan'[k]
               /\ applying <= configChan'[j]
               /\ \A c \in Components : installed[c] <= configChan'[j]
    <3>1. CASE j \in 1 .. Len(configChan)
      BY <1>1, <1>3, <2>1, <3>1 DEF OldestFirst
    <3>2. CASE j = Len(configChan) + 1
      BY <1>1, <1>3, <2>1, <3>2, Numbers DEF OldestFirst
    <3>3. QED
      BY <2>1, <3>1, <3>2
  <2>3. QED
    BY <1>1, <2>2, Numbers DEF OldestFirst, None
<1>6. HalfApplied' /\ Configured' /\ AboveFloor' /\ NoStaleRules'
  BY <1>1 DEF HalfApplied, Configured, AboveFloor, NoStaleRules, Uniform
<1>7. ReportedIsHeld'
  <2>1. configChan' # <<>>
    BY <1>3, Numbers
  <2>2. QED
    BY <1>1, <1>3, <2>1 DEF ReportedIsHeld, None
<1>8. QED
  BY <1>4, <1>5, <1>6, <1>7

LEMMA ReceiveKeeps ==
    ASSUME RolloutInv, Receive
    PROVE  RolloutInv'
<1> USE DEF RolloutInv
<1>1. /\ rows' = rows /\ version' = version /\ forwarding' = forwarding
      /\ installed' = installed /\ serving' = serving
      /\ inquiry' = inquiry /\ restarts' = restarts
      /\ applying = None /\ applying' = Head(configChan) /\ applied' = 0
      /\ configChan' = Tail(configChan) /\ configChan # <<>>
  BY DEF Receive, server
<1>2. configChan \in Seq(Row) /\ Len(configChan) \in Nat \ {0}
  BY <1>1 DEF TypeOK
<1>3. /\ configChan' \in Seq(Row)
      /\ Len(configChan') = Len(configChan) - 1
      /\ applying' = configChan[1] /\ applying' \in Row
      /\ \A j \in 1 .. Len(configChan') :
            j + 1 \in 1 .. Len(configChan) /\ configChan'[j] = configChan[j + 1]
  BY <1>1, <1>2
<1>4. TypeOK'
  <2>1. applied' \in 0 .. Len(ApplyOrder)
    BY <1>1, Orders
  <2>2. Len(configChan') <= ChanCap
    BY <1>2, <1>3, RolloutAssumption DEF TypeOK
  <2>3. QED
    BY <1>1, <1>3, <2>1, <2>2 DEF TypeOK
<1>5. applying' # None
  BY <1>3 DEF Row, None
<1>6. OldestFirst'
  <2>1. ASSUME NEW j \in 1 .. Len(configChan')
        PROVE  /\ configChan'[j] <= Len(rows)
               /\ \A k \in 1 .. Len(configChan') :
                     j <= k => configChan'[j] <= configChan'[k]
               /\ applying' <= configChan'[j]
               /\ \A c \in Components : installed[c] <= configChan'[j]
               /\ forwarding # None => configChan'[j] <= forwarding
    BY <1>2, <1>3 DEF OldestFirst
  <2>2. /\ applying' <= Len(rows)
        /\ \A c \in Components : installed[c] <= applying'
        /\ forwarding # None => applying' <= forwarding
    BY <1>2, <1>3 DEF OldestFirst
  <2>3. QED
    BY <1>1, <2>1, <2>2 DEF OldestFirst
<1>7. HalfApplied'
  BY <1>1, <1>5, Orders DEF HalfApplied, Uniform
<1>8. Configured' /\ AboveFloor' /\ NoStaleRules'
  BY <1>1 DEF Configured, AboveFloor, NoStaleRules
<1>9. ReportedIsHeld'
  <2>1. CASE Len(configChan) = 1
    <3>1. configChan' = <<>>
      BY <1>3, <2>1
    <3>2. QED
      BY <1>1, <1>3, <1>5, <2>1, <3>1 DEF ReportedIsHeld
  <2>2. CASE Len(configChan) # 1
    <3>1. /\ configChan' # <<>>
          /\ configChan'[Len(configChan')] = configChan[Len(configChan)]
      BY <1>2, <1>3, <2>2
    <3>2. QED
      BY <1>1, <1>3, <1>5, <3>1 DEF ReportedIsHeld
  <2>3. QED
    BY <2>1, <2>2
<1>10. QED
  BY <1>4, <1>6, <1>7, <1>8, <1>9

\* A component is installed: the one whose turn it is.
LEMMA ApplyKeeps ==
    ASSUME RolloutInv, Apply
    PROVE  RolloutInv'
<1> USE DEF RolloutInv
<1>1. /\ rows' = rows /\ version' = version /\ forwarding' = forwarding
      /\ configChan' = configChan
      /\ inquiry' = inquiry /\ restarts' = restarts
      /\ applying # None /\ applied' = applied + 1
  BY DEF Apply, server, poll
<1>2. PICK r \in Row \cup {None} :
         /\ applied < 7
         /\ \A n \in 1 .. 7 :
               installed[ApplyOrder[n]] = IF n <= applied THEN applying ELSE r
  BY <1>1, Orders DEF HalfApplied
<1>3. applied \in 0 .. 6 /\ applied + 1 \in 1 .. 7
  BY <1>2, Orders DEF TypeOK
<1>4. applying \in Row
  BY <1>1 DEF TypeOK
<1>5. /\ installed' = [installed EXCEPT ![ApplyOrder[applied + 1]] = applying]
      /\ applying' = IF applied + 1 = 7 THEN None ELSE applying
      /\ serving' = (serving \/ applied + 1 = 7)
  BY Orders DEF Apply
<1>6. \A n \in 1 .. 7 :
         installed'[ApplyOrder[n]] = IF n <= applied + 1 THEN applying ELSE r
  BY <1>2, <1>3, <1>5, Orders DEF TypeOK
<1>7. \A c \in Components :
         installed'[c] = applying \/ installed'[c] = installed[c]
  BY <1>5 DEF TypeOK
<1>8. \A c \in Components : installed'[c] >= installed[c]
  BY <1>1, <1>4, <1>7, Numbers DEF OldestFirst, Row
<1>9. applied + 1 = 7 => \A c \in Components : installed'[c] = applying
  BY <1>6, Orders
<1>10. TypeOK'
  <2>1. installed' \in [Components -> Row \cup {None}]
    BY <1>4, <1>5 DEF TypeOK
  <2>2. applying' \in Row \cup {None} /\ serving' \in BOOLEAN
    BY <1>4, <1>5 DEF TypeOK
  <2>3. applied' \in 0 .. Len(ApplyOrder)
    BY <1>1, <1>3, Orders
  <2>4. QED
    BY <1>1, <2>1, <2>2, <2>3 DEF TypeOK
<1>11. OldestFirst'
  <2>1. applying' = None \/ applying' = applying
    BY <1>5
  <2>2. /\ applying' <= Len(rows)
        /\ forwarding # None => applying' <= forwarding
    BY <2>1, Numbers DEF OldestFirst, None
  <2>3. \A j \in 1 .. Len(configChan) :
           /\ applying' <= configChan[j]
           /\ \A c \in Components : installed'[c] <= configChan[j]
    BY <1>7, <2>1, Numbers DEF OldestFirst, None
  <2>4. \A c \in Components :
           /\ installed'[c] <= Len(rows)
           /\ forwarding # None => installed'[c] <= forwarding
           /\ applying' # None => installed'[c] <= applying'
    BY <1>1, <1>7, <2>1, Numbers DEF OldestFirst
  <2>5. QED
    BY <1>1, <2>2, <2>3, <2>4 DEF OldestFirst
<1>12. HalfApplied'
  <2>1. CASE applied + 1 = 7
    BY <1>4, <1>5, <1>9, <2>1 DEF HalfApplied, Uniform
  <2>2. CASE applied + 1 # 7
    <3>1. applying' = applying /\ applied + 1 < 7
      BY <1>3, <1>5, <2>2
    <3>2. QED
      BY <1>1, <1>6, <3>1, Orders DEF HalfApplied
  <2>3. QED
    BY <2>1, <2>2
<1>13. Configured'
  <2>1. serving' => \A c \in Components : installed'[c] # None
    BY <1>1, <1>5, <1>7, <1>9 DEF Configured
  <2>2. QED
    BY <1>1, <1>5, <2>1 DEF Configured
<1>14. AboveFloor'
  BY <1>1, <1>8, <1>10, Numbers DEF AboveFloor, TypeOK, Row, None
<1>15. NoStaleRules'
  BY <1>1 DEF NoStaleRules
<1>16. ReportedIsHeld'
  <2>1. CASE applied + 1 = 7
    <3>1. applying' = None /\ installed'["dispatcher"] = applying
      BY <1>5, <1>9, <2>1, Orders
    <3>2. QED
      BY <1>1, <1>9, <2>1, <3>1 DEF ReportedIsHeld, Uniform
  <2>2. CASE applied + 1 # 7
    BY <1>1, <1>5, <2>2 DEF ReportedIsHeld
  <2>3. QED
    BY <2>1, <2>2
<1>17. QED
  BY <1>10, <1>11, <1>12, <1>13, <1>14, <1>15, <1>16

\* A new process begins with nothing, as at the very start.
LEMMA RestartKeeps ==
    ASSUME RolloutInv, Restart
    PROVE  RolloutInv'
<1> USE DEF RolloutInv
<1>1. /\ rows' = rows /\ version' = NoVersion /\ forwarding' = None
      /\ configChan' = <<>> /\ Len(configChan') = 0
      /\ applying' = None /\ applied' = 0
      /\ serving' = FALSE
      /\ installed' = [c \in Components |-> None]
      /\ inquiry' = [i \in Inquiries |-> Idle]
      /\ restarts' = restarts + 1 /\ restarts < MaxRestarts
  BY DEF Restart, Blank, server
<1>2. /\ \A c \in Components : installed'[c] = 0
      /\ \A i \in Inquiries : inquiry'[i] = Idle
      /\ applying' = 0 /\ forwarding' = 0
  BY <1>1 DEF None
<1>3. TypeOK'
  <2>1. configChan' \in Seq(Row) /\ Len(configChan') <= ChanCap
    BY <1>1, RolloutAssumption
  <2>2. Idle \in [step : 0 .. 9, used : SUBSET (Row \cup {None}),
                  floor : Row \cup {None}]
    BY DEF Idle, None
  <2>3. inquiry' \in [Inquiries ->
           [step : 0 .. Len(ReadOrder) + 1, used : SUBSET (Row \cup {None}),
            floor : Row \cup {None}]]
    BY <1>1, <2>2, Orders
  <2>4. restarts' \in 0 .. MaxRestarts /\ applied' \in 0 .. Len(ApplyOrder)
    BY <1>1, RolloutAssumption, Orders DEF TypeOK
  <2>5. installed' \in [Components -> Row \cup {None}]
    BY <1>1
  <2>6. QED
    BY <1>1, <2>1, <2>3, <2>4, <2>5 DEF TypeOK
<1>4. OldestFirst' /\ Configured'
  BY <1>1, <1>2, Numbers DEF OldestFirst, Configured, Idle, None
<1>5. AboveFloor'
  BY <1>2 DEF AboveFloor, Idle
<1>6. HalfApplied'
  BY <1>1, <1>2 DEF HalfApplied, Uniform, None
<1>7. NoStaleRules' /\ ReportedIsHeld'
  BY <1>1, <1>2 DEF NoStaleRules, ReportedIsHeld, Idle
<1>8. QED
  BY <1>3, <1>4, <1>5, <1>6, <1>7

\* Inquiries read; they change nothing but themselves.
LEMMA InquiryKeeps ==
    ASSUME RolloutInv, NEW i \in Inquiries, Begin(i) \/ Read(i) \/ End(i)
    PROVE  RolloutInv'
<1> USE DEF RolloutInv
<1>1. /\ rows' = rows /\ version' = version /\ forwarding' = forwarding
      /\ configChan' = configChan /\ applying' = applying
      /\ applied' = applied /\ installed' = installed /\ serving' = serving
      /\ restarts' = restarts
  BY DEF Begin, Read, End, server, poll, apply
<1> DEFINE Steps == [step : 0 .. Len(ReadOrder) + 1,
                     used : SUBSET (Row \cup {None}), floor : Row \cup {None}]
<1>2. inquiry \in [Inquiries -> Steps]
  BY DEF TypeOK
<1>3. ASSUME NEW x \in Steps, inquiry' = [inquiry EXCEPT ![i] = x],
             x.step > 0 => serving,
             \A c \in Components : installed[c] >= x.floor,
             \A q \in x.used : q >= x.floor /\ q # None
      PROVE  RolloutInv'
  <2>1. inquiry' \in [Inquiries -> Steps]
    BY <1>2, <1>3
  <2>2. TypeOK'
    BY <1>1, <2>1 DEF TypeOK
  <2>3. \A j \in Inquiries : inquiry'[j] = IF j = i THEN x ELSE inquiry[j]
    BY <1>2, <1>3
  <2>4. Configured' /\ AboveFloor' /\ NoStaleRules'
    BY <1>1, <1>3, <2>3 DEF Configured, AboveFloor, NoStaleRules
  <2>5. OldestFirst' /\ HalfApplied' /\ ReportedIsHeld'
    BY <1>1 DEF OldestFirst, HalfApplied, ReportedIsHeld, Uniform
  <2>6. QED
    BY <2>2, <2>4, <2>5
<1>4. CASE Begin(i)
  <2>1. PICK r \in Row \cup {0} :
           /\ \A c \in Components : installed[c] >= r
           /\ inquiry' = [inquiry EXCEPT ![i] =
                            [step |-> 1, used |-> {}, floor |-> r]]
    BY <1>4 DEF Begin
  <2>2. [step |-> 1, used |-> {}, floor |-> r] \in Steps
    BY <2>1, Orders DEF None
  <2>3. serving
    BY <1>4 DEF Begin
  <2>4. QED
    BY <1>3, <2>1, <2>2, <2>3
<1>5. CASE Read(i)
  <2> DEFINE q == installed[ReadOrder[inquiry[i].step]]
             x == [step |-> inquiry[i].step + 1,
                   used |-> inquiry[i].used \cup {q}, floor |-> inquiry[i].floor]
  <2>1. inquiry[i].step \in 1 .. 8 /\ inquiry[i] \in Steps
    BY <1>2, <1>5, Orders DEF Read
  <2>2. q \in Row \cup {None} /\ q >= inquiry[i].floor /\ q # None
    BY <2>1, Orders DEF TypeOK, AboveFloor, Configured
  <2>3. inquiry' = [inquiry EXCEPT ![i] = x]
    BY <1>2, <1>5, <2>1 DEF Read
  <2>4. /\ x.step = inquiry[i].step + 1 /\ x.used = inquiry[i].used \cup {q}
        /\ x.floor = inquiry[i].floor /\ x \in Steps
    <3>1. /\ inquiry[i].step + 1 \in 0 .. Len(ReadOrder) + 1
          /\ inquiry[i].used \cup {q} \in SUBSET (Row \cup {None})
          /\ inquiry[i].floor \in Row \cup {None}
      BY <2>1, <2>2, Orders
    <3>2. QED
      BY <3>1
  <2>5. x.step > 0 => serving
    BY <2>1, <2>4 DEF Configured
  <2>6. \A c \in Components : installed[c] >= x.floor
    BY <2>4 DEF AboveFloor
  <2>7. \A p \in x.used : p >= x.floor /\ p # None
    BY <2>2, <2>4 DEF NoStaleRules
  <2>8. QED
    BY <1>3, <2>3, <2>4, <2>5, <2>6, <2>7
<1>6. CASE End(i)
  <2>1. Idle \in Steps
    BY Orders DEF Idle, None
  <2>2. /\ Idle.step > 0 => serving
        /\ \A c \in Components : installed[c] >= Idle.floor
        /\ \A q \in Idle.used : q >= Idle.floor /\ q # None
    BY Numbers DEF Idle
  <2>3. QED
    BY <1>3, <1>6, <2>1, <2>2 DEF End
<1>7. QED
  BY <1>4, <1>5, <1>6

----
\* Every step of the rollout keeps its invariant.
LEMMA RolloutStep == RolloutInv /\ [Next]_vars => RolloutInv'
<1> SUFFICES ASSUME RolloutInv, [Next]_vars
             PROVE  RolloutInv'
  OBVIOUS
<1>1. CASE UNCHANGED vars
  BY <1>1 DEF vars, server, poll, apply, RolloutInv, TypeOK, OldestFirst,
              HalfApplied, Configured, AboveFloor, NoStaleRules,
              ReportedIsHeld, Uniform
<1>2. CASE Next
  BY <1>2, UploadKeeps, PollKeeps, ForwardKeeps, ReceiveKeeps, ApplyKeeps,
     RestartKeeps, InquiryKeeps DEF Next
<1>3. QED
  BY <1>1, <1>2

----
(* The probe.                                                              *)

LEMMA Halves ==
    ASSUME NEW d \in Nat, NEW m \in Nat, d <= m
    PROVE  d \div 2 \in Nat /\ d \div 2 <= m \div 2 /\ m \div 2 \in Nat
  OBVIOUS

LEMMA Durations ==
    /\ InitialDelay \in Nat /\ MaxDelay \in Nat /\ InitialDelay <= MaxDelay
    /\ HttpTimeout \in Nat \ {0} /\ ProbeLimit \in Nat \ {0}
    /\ MaxDelay \div 2 \in Nat
    /\ Prober!Patience = 2 * HttpTimeout + MaxDelay + MaxDelay \div 2
<1>1. /\ InitialDelay \in Nat /\ MaxDelay \in Nat /\ InitialDelay <= MaxDelay
      /\ HttpTimeout \in Nat \ {0} /\ ProbeLimit \in Nat \ {0}
  BY DeploymentAssumption DEF Prober!ProbeAssumption
<1>2. QED
  BY <1>1, Halves DEF Prober!Patience

LEMMA ProbeInit == DeploymentInit => Deadlines /\ BlankBefore
<1> SUFFICES ASSUME DeploymentInit
             PROVE  Deadlines /\ BlankBefore
  OBVIOUS
<1>1. /\ up \in BOOLEAN /\ upFor = 0 /\ phase = "checking"
      /\ maxRetries \in RetryLimits /\ attempt = 1
      /\ delay = InitialDelay /\ left = HttpTimeout
      /\ sawDown = ~up /\ elapsed = 0
  BY DEF DeploymentInit, Prober!Init
<1>2. Prober!TypeOK
  BY <1>1, Durations DEF Prober!TypeOK
<1>3. Deadlines
  BY <1>1, <1>2, Durations DEF Deadlines
<1>4. BlankBefore
  BY DEF DeploymentInit, Init, BlankBefore
<1>5. QED
  BY <1>3, <1>4

\* Arithmetic of the deadlines.
LEMMA Earlier ==
    ASSUME NEW p \in Nat, NEW q \in Nat, NEW r \in Nat, NEW b \in Nat,
           p <= q, q + r <= b
    PROVE  p + r <= b
  OBVIOUS

\* The server goes away and comes back.
LEMMA NetworkKeeps ==
    ASSUME Deadlines, Prober!Outage \/ Prober!Recover
    PROVE  Deadlines'
<1>1. /\ phase' = phase /\ maxRetries' = maxRetries /\ attempt' = attempt
      /\ delay' = delay /\ left' = left /\ elapsed' = elapsed
      /\ upFor' = 0 \/ (upFor' = upFor /\ up')
      /\ up' \in BOOLEAN /\ sawDown' \in BOOLEAN
      /\ ~up' => upFor' = 0
      /\ sawDown' => sawDown \/ upFor' = 0
  BY DEF Deadlines, Prober!Outage, Prober!Recover, Prober!loop, Prober!TypeOK
<1>2. upFor' \in Nat /\ upFor' <= upFor /\ upFor \in Nat /\ left \in Nat
  BY <1>1 DEF Deadlines, Prober!TypeOK
<1>3. Prober!TypeOK'
  BY <1>1, <1>2, Durations DEF Deadlines, Prober!TypeOK
<1>4. Prober!Probing' => upFor' <= elapsed'
  BY <1>1, <1>2 DEF Deadlines, Prober!Probing, Prober!TypeOK
<1>5. \A b \in Nat : upFor + left <= b => upFor' + left' <= b
  BY <1>1, <1>2, Earlier
<1>6. upFor' = 0 => upFor' + left' = left
  BY <1>1, <1>2
<1>7. /\ Prober!Patience \in Nat /\ HttpTimeout \in Nat
      /\ HttpTimeout + MaxDelay + MaxDelay \div 2 \in Nat
  BY Durations
<1>8. phase' = "checking" =>
         /\ left' <= HttpTimeout /\ upFor' + left' <= Prober!Patience
         /\ sawDown' => upFor' + left' <= HttpTimeout
  BY <1>1, <1>5, <1>6, <1>7 DEF Deadlines
<1>9. phase' = "waiting" =>
         upFor' + left' <= HttpTimeout + MaxDelay + MaxDelay \div 2
  BY <1>1, <1>5, <1>7 DEF Deadlines
<1>10. upFor' <= Prober!Patience
  BY <1>2, <1>7 DEF Deadlines
<1>11. QED
  BY <1>1, <1>3, <1>4, <1>8, <1>9, <1>10 DEF Deadlines

\* Run returns, or the process is killed: what is left is of no account.
LEMMA ReturnKeeps ==
    ASSUME Deadlines, Prober!Probing,
           NEW outcome \in {"running", "dead"}, Prober!Return(outcome),
           up' = up, upFor' = upFor, maxRetries' = maxRetries
    PROVE  Deadlines'
<1>1. /\ phase' = outcome /\ attempt' = 1 /\ delay' = InitialDelay
      /\ left' = 0 /\ sawDown' = FALSE /\ elapsed' = 0
  BY DEF Prober!Return
<1>2. phase' # "checking" /\ phase' # "waiting"
  BY <1>1
<1>3. Prober!TypeOK'
  <2>1. /\ delay' \in InitialDelay .. MaxDelay /\ elapsed' \in 0 .. ProbeLimit
        /\ left' \in 0 .. HttpTimeout + MaxDelay + MaxDelay \div 2
        /\ attempt' \in Nat \ {0}
    <3>1. /\ InitialDelay \in InitialDelay .. MaxDelay /\ 0 \in 0 .. ProbeLimit
          /\ 0 \in 0 .. HttpTimeout + MaxDelay + MaxDelay \div 2
          /\ 1 \in Nat \ {0}
      BY Durations
    <3>2. QED
      BY <1>1, <3>1
  <2>4. sawDown' \in BOOLEAN
    BY <1>1
  <2>2. phase' \in {"checking", "waiting", "running", "dead"}
    BY <1>1
  <2>3. QED
    BY <2>1, <2>2, <2>4 DEF Deadlines, Prober!TypeOK
<1>4. ~Prober!Probing'
  BY <1>2 DEF Prober!Probing
<1>5. QED
  BY <1>2, <1>3, <1>4 DEF Deadlines

\* The check fails and the loop waits.
LEMMA WaitKeeps ==
    ASSUME Deadlines, phase = "checking", sawDown,
           NEW jitter \in 0 .. delay \div 2 - 1,
           left' = delay + jitter, phase' = "waiting", sawDown' = FALSE,
           up' = up, upFor' = upFor, maxRetries' = maxRetries,
           attempt' = attempt, delay' = delay, elapsed' = elapsed
    PROVE  Deadlines'
<1>1. /\ delay \in Nat /\ delay <= MaxDelay /\ upFor \in Nat /\ left \in Nat
      /\ upFor + left <= HttpTimeout
  BY Durations DEF Deadlines, Prober!TypeOK
<1>2. delay \div 2 \in Nat /\ delay \div 2 <= MaxDelay \div 2
  BY <1>1, Durations, Halves
<1>3. left' \in Nat /\ left' <= MaxDelay + MaxDelay \div 2
  BY <1>1, <1>2, Durations
<1>4. upFor <= HttpTimeout
  BY <1>1, Durations
<1>5. upFor + left' <= HttpTimeout + MaxDelay + MaxDelay \div 2
  BY <1>1, <1>3, <1>4, Durations
<1>6. left' \in 0 .. HttpTimeout + MaxDelay + MaxDelay \div 2
  BY <1>3, Durations
<1>7. Prober!TypeOK'
  BY <1>6 DEF Deadlines, Prober!TypeOK
<1>8. Prober!Probing => upFor <= elapsed
  BY DEF Deadlines
<1>9. QED
  BY <1>5, <1>7, <1>8 DEF Deadlines, Prober!Probing

\* The next check goes out.
LEMMA RetryKeeps ==
    ASSUME Deadlines, Prober!Retry
    PROVE  Deadlines'
<1>1. /\ phase = "waiting" /\ left = 0
      /\ phase' = "checking" /\ left' = HttpTimeout /\ sawDown' = ~up
      /\ up' = up /\ upFor' = upFor /\ maxRetries' = maxRetries
      /\ elapsed' = elapsed
      /\ attempt' \in {attempt, attempt + 1}
      /\ delay' = 2 * delay \/ delay' = MaxDelay
      /\ delay' <= MaxDelay
  BY Durations DEF Prober!Retry, Prober!network, Prober!NextDelay, Deadlines,
                   Prober!TypeOK
<1>2. upFor \in Nat /\ upFor <= HttpTimeout + MaxDelay + MaxDelay \div 2
  BY <1>1, Durations DEF Deadlines, Prober!TypeOK
<1>3. upFor' + left' <= Prober!Patience
  BY <1>1, <1>2, Durations
<1>4. sawDown' => upFor' + left' <= HttpTimeout
  <2>1. 0 + HttpTimeout <= HttpTimeout
    BY Durations
  <2>2. QED
    BY <1>1, <2>1 DEF Deadlines
<1>5. delay' \in InitialDelay .. MaxDelay
  BY <1>1, Durations DEF Deadlines, Prober!TypeOK
<1>6. left' \in 0 .. HttpTimeout + MaxDelay + MaxDelay \div 2
  BY <1>1, Durations
<1>7. attempt' \in Nat \ {0}
  BY <1>1 DEF Deadlines, Prober!TypeOK
<1>8. Prober!TypeOK'
  BY <1>1, <1>5, <1>6, <1>7 DEF Deadlines, Prober!TypeOK
<1>9. left' <= HttpTimeout
  BY <1>1, Durations
<1>10. QED
  BY <1>1, <1>3, <1>4, <1>8, <1>9 DEF Deadlines, Prober!Probing

\* A unit of time.
LEMMA TickKeeps ==
    ASSUME Deadlines, Prober!Tick
    PROVE  Deadlines'
<1>1. /\ Prober!Probing /\ left > 0 /\ elapsed < ProbeLimit
      /\ left' = left - 1 /\ elapsed' = elapsed + 1
      /\ up' = up /\ phase' = phase /\ maxRetries' = maxRetries
      /\ attempt' = attempt /\ delay' = delay /\ sawDown' = sawDown
  BY DEF Prober!Tick, Prober!loop
<1>2. upFor' = IF up THEN upFor + 1 ELSE 0
  BY DEF Prober!Tick
<1>3. /\ left \in Nat \ {0} /\ upFor \in Nat /\ elapsed \in Nat
      /\ left <= HttpTimeout + MaxDelay + MaxDelay \div 2
  BY <1>1, Durations DEF Deadlines, Prober!TypeOK
<1>4. upFor <= elapsed
  BY <1>1 DEF Deadlines
<1>5. upFor' \in Nat /\ upFor' <= elapsed' /\ upFor' + left' <= upFor + left
  BY <1>1, <1>2, <1>3, <1>4
<1>6. left' \in Nat /\ upFor' + left' \in Nat /\ upFor + left \in Nat
  <2>1. left' \in Nat
    BY <1>1, <1>3
  <2>2. upFor' \in Nat
    BY <1>5
  <2>3. upFor' + left' \in Nat
    <3>1. \A p, q \in Nat : p + q \in Nat
      OBVIOUS
    <3>2. QED
      BY <2>1, <2>2, <3>1
  <2>4. upFor + left \in Nat
    BY <1>3
  <2>5. QED
    BY <2>1, <2>3, <2>4
<1>7. \A b \in Nat : upFor + left <= b => upFor' + left' <= b
  <2>1. \A p, q, b \in Nat : p <= q /\ q <= b => p <= b
    OBVIOUS
  <2>2. upFor' + left' <= upFor + left
    BY <1>5
  <2>3. QED
    BY <1>6, <2>1, <2>2
<1>8. /\ Prober!Patience \in Nat /\ HttpTimeout \in Nat
      /\ HttpTimeout + MaxDelay + MaxDelay \div 2 \in Nat
      /\ HttpTimeout + MaxDelay + MaxDelay \div 2 <= Prober!Patience
  BY Durations
<1>9. Prober!TypeOK'
  <2>1. upFor' \in 0 .. ProbeLimit /\ elapsed' \in 0 .. ProbeLimit
    BY <1>1, <1>3, <1>5, Durations
  <2>2. left' \in 0 .. HttpTimeout + MaxDelay + MaxDelay \div 2
    BY <1>1, <1>3, <1>8
  <2>3. QED
    BY <1>1, <2>1, <2>2 DEF Deadlines, Prober!TypeOK
<1>10. phase = "checking" => left' <= HttpTimeout
  BY <1>1, <1>3, <1>8 DEF Deadlines
<1>11. phase' = "checking" =>
         /\ left' <= HttpTimeout /\ upFor' + left' <= Prober!Patience
         /\ sawDown' => upFor' + left' <= HttpTimeout
  BY <1>1, <1>7, <1>8, <1>10 DEF Deadlines
<1>12. phase' = "waiting" =>
         upFor' + left' <= HttpTimeout + MaxDelay + MaxDelay \div 2
  BY <1>1, <1>7, <1>8 DEF Deadlines
<1>13. upFor' + left' <= Prober!Patience
  <2>1. phase = "checking" \/ phase = "waiting"
    BY <1>1 DEF Prober!Probing
  <2>2. \A b \in Nat : b <= HttpTimeout + MaxDelay + MaxDelay \div 2
                          => b <= Prober!Patience
    BY <1>8
  <2>3. QED
    BY <1>1, <1>6, <1>11, <1>12, <2>1, <2>2
<1>14. upFor' <= Prober!Patience
  <2>1. \A p, q, b \in Nat : p + q <= b => p <= b
    OBVIOUS
  <2>2. QED
    BY <1>5, <1>6, <1>8, <1>13, <2>1
<1>15. ~up' => upFor' = 0
  BY <1>1, <1>2
<1>16. QED
  BY <1>5, <1>9, <1>11, <1>12, <1>14, <1>15 DEF Deadlines

LEMMA ProbeKeeps ==
    ASSUME Deadlines, Prober!Step \/ Prober!Killed
    PROVE  Deadlines'
<1>1. CASE Prober!CheckSucceeds
  BY <1>1, ReturnKeeps
     DEF Prober!CheckSucceeds, Prober!network, Prober!Probing
<1>2. CASE Prober!CheckFails
  <2>1. /\ phase = "checking" /\ sawDown /\ up' = up /\ upFor' = upFor
        /\ maxRetries' = maxRetries
    BY <1>2 DEF Prober!CheckFails, Prober!network
  <2>2. CASE Prober!Return("dead")
    BY <2>1, <2>2, ReturnKeeps DEF Prober!Probing
  <2>3. CASE ~Prober!Return("dead")
    BY <1>2, <2>1, <2>3, WaitKeeps DEF Prober!CheckFails
  <2>4. QED
    BY <2>2, <2>3
<1>3. CASE Prober!Retry
  BY <1>3, RetryKeeps
<1>4. CASE Prober!GiveUp \/ Prober!Killed
  BY <1>4, ReturnKeeps DEF Prober!GiveUp, Prober!Killed, Prober!network
<1>5. CASE Prober!Tick
  BY <1>5, TickKeeps
<1>6. QED
  BY <1>1, <1>2, <1>3, <1>4, <1>5 DEF Prober!Step

LEMMA StartKeeps ==
    ASSUME Deadlines, Prober!Start
    PROVE  Deadlines'
<1>1. /\ phase' = "checking" /\ attempt' = 1
      /\ delay' = InitialDelay /\ left' = HttpTimeout
      /\ upFor' = 0 /\ sawDown' = ~up /\ elapsed' = 0
      /\ up' = up /\ maxRetries' = maxRetries
  BY DEF Prober!Start
<1>2. Prober!TypeOK'
  BY <1>1, Durations DEF Deadlines, Prober!TypeOK
<1>3. /\ 0 + HttpTimeout <= Prober!Patience /\ 0 <= Prober!Patience
      /\ 0 + HttpTimeout <= HttpTimeout
  BY Durations
<1>4. upFor' <= elapsed'
  BY <1>1
<1>5. phase' # "waiting"
  BY <1>1
<1>6. /\ left' <= HttpTimeout /\ upFor' + left' <= Prober!Patience
      /\ upFor' + left' <= HttpTimeout /\ upFor' <= Prober!Patience
      /\ upFor' = 0
  BY <1>1, <1>3, Durations
<1>7. QED
  BY <1>2, <1>4, <1>5, <1>6 DEF Deadlines

\* The rollout does not touch the probe.
LEMMA ProbeStands ==
    ASSUME Deadlines, UNCHANGED probe
    PROVE  Deadlines'
<1>1. /\ up' = up /\ upFor' = upFor /\ phase' = phase
      /\ maxRetries' = maxRetries /\ attempt' = attempt /\ delay' = delay
      /\ left' = left /\ sawDown' = sawDown /\ elapsed' = elapsed
  BY DEF probe
<1>2. Prober!TypeOK'
  BY <1>1 DEF Deadlines, Prober!TypeOK
<1>3. QED
  BY <1>1, <1>2 DEF Deadlines, Prober!Probing

----
(* The deployment as a whole.                                              *)

Inv == RolloutInv /\ Deadlines /\ BlankBefore /\ outages \in 0 .. MaxOutages

\* Steps of the network and of the probe, of the writers, and of the daemon
\* that is past its probe.
LEMMA StepCases ==
    DeploymentNext =>
       \/ Outage \/ Recover
       \/ Probe \/ Killed
       \/ Replace
       \/ UNCHANGED probe /\ \E c \in Contents : Upload(c)
       \/ phase = "running" /\ UNCHANGED probe /\ Next
<1> SUFFICES ASSUME DeploymentNext
             PROVE  \/ Outage \/ Recover
                    \/ Probe \/ Killed
                    \/ Replace
                    \/ UNCHANGED probe /\ \E c \in Contents : Upload(c)
                    \/ phase = "running" /\ UNCHANGED probe /\ Next
  OBVIOUS
<1>1. CASE Outage \/ Recover \/ Probe \/ Killed \/ Replace
  BY <1>1
<1>2. CASE \E c \in Contents : Admin(c) \/ UpdateConfig(c)
  BY <1>2 DEF Admin, UpdateConfig
<1>3. CASE Seed
  BY <1>3, DeploymentAssumption DEF Seed
<1>4. CASE Fetch
  BY <1>4 DEF Fetch, Daemon, Next
<1>5. CASE Daemon(Forward) \/ Daemon(Receive) \/ Daemon(Apply)
  BY <1>5 DEF Daemon, Next
<1>6. CASE \E i \in Inquiries :
              Daemon(Begin(i)) \/ Daemon(Read(i)) \/ Daemon(End(i))
  BY <1>6 DEF Daemon, Next
<1>7. QED
  BY <1>1, <1>2, <1>3, <1>4, <1>5, <1>6 DEF DeploymentNext

\* Every step of the deployment is one of the rollout, or leaves it alone.
LEMMA StepIsRollout == [DeploymentNext]_deployment => [Next]_vars
<1> SUFFICES ASSUME [DeploymentNext]_deployment
             PROVE  [Next]_vars
  OBVIOUS
<1>1. CASE UNCHANGED deployment
  BY <1>1 DEF deployment
<1>2. CASE DeploymentNext
  BY <1>2, StepCases DEF Outage, Recover, Probe, Killed, Replace, Next
<1>3. QED
  BY <1>1, <1>2

LEMMA InvStep == Inv /\ [DeploymentNext]_deployment => Inv'
<1> SUFFICES ASSUME Inv, [DeploymentNext]_deployment
             PROVE  Inv'
  OBVIOUS
<1> USE DEF Inv
<1>1. RolloutInv'
  BY StepIsRollout, RolloutStep
<1>2. CASE UNCHANGED deployment
  <2>1. UNCHANGED probe /\ UNCHANGED vars
    BY <1>2 DEF deployment
  <2>2. phase' = phase /\ outages' = outages /\ version' = version
        /\ serving' = serving /\ configChan' = configChan
    BY <2>1 DEF probe, vars, poll, apply
  <2>3. QED
    BY <1>1, <2>1, <2>2, ProbeStands DEF BlankBefore
<1>3. CASE Outage \/ Recover
  <2>1. Deadlines'
    BY <1>3, NetworkKeeps DEF Outage, Recover
  <2>2. phase' = phase /\ version' = version /\ serving' = serving
        /\ configChan' = configChan
    BY <1>3 DEF Outage, Recover, vars, poll, apply, Prober!Outage,
                Prober!Recover, Prober!loop
  <2>3. outages' \in 0 .. MaxOutages
    BY <1>3, DeploymentAssumption DEF Outage, Recover
  <2>4. QED
    BY <1>1, <2>1, <2>2, <2>3 DEF BlankBefore
<1>4. CASE Probe \/ Killed
  <2>1. Deadlines'
    BY <1>4, ProbeKeeps DEF Probe, Killed
  <2>2. phase # "running"
    BY <1>4 DEF Probe, Killed, Prober!Step, Prober!CheckSucceeds,
                Prober!CheckFails, Prober!Retry, Prober!GiveUp,
                Prober!Tick, Prober!Killed, Prober!Probing
  <2>3. version' = version /\ serving' = serving /\ configChan' = configChan
        /\ outages' = outages
    BY <1>4 DEF Probe, Killed, vars, poll, apply
  <2>4. QED
    BY <1>1, <2>1, <2>2, <2>3 DEF BlankBefore
<1>5. CASE Replace
  <2>1. Deadlines' /\ outages' = outages
    BY <1>5, StartKeeps DEF Replace
  <2>2. version' = NoVersion /\ serving' = FALSE /\ configChan' = <<>>
    BY <1>5 DEF Replace, Restart, Blank
  <2>3. QED
    BY <1>1, <2>1, <2>2 DEF BlankBefore
<1>6. CASE UNCHANGED probe /\ \E c \in Contents : Upload(c)
  <2>1. Deadlines' /\ outages' = outages /\ phase' = phase
    BY <1>6, ProbeStands DEF probe
  <2>2. version' = version /\ serving' = serving /\ configChan' = configChan
    BY <1>6 DEF Upload, poll, apply
  <2>3. QED
    BY <1>1, <2>1, <2>2 DEF BlankBefore
<1>7. CASE phase = "running" /\ UNCHANGED probe
  <2>1. Deadlines' /\ outages' = outages /\ phase' = phase
    BY <1>7, ProbeStands DEF probe
  <2>2. QED
    BY <1>1, <1>7, <2>1 DEF BlankBefore
<1>8. QED
  BY <1>2, <1>3, <1>4, <1>5, <1>6, <1>7, StepCases

THEOREM InvCorrect == DeploymentSpec => []Inv
<1>1. DeploymentInit => Inv
  BY RolloutInit, ProbeInit, DeploymentAssumption DEF DeploymentInit, Inv
<1>2. QED
  BY <1>1, InvStep, PTL DEF DeploymentSpec

\* Every variable stays in its range, and a process that is not past its
\* probe holds no version, serves nothing and has nothing in its channel.
THEOREM TypeCorrect == DeploymentSpec => []DeploymentTypeOK
<1>1. Inv => DeploymentTypeOK
  BY DEF Inv, RolloutInv, Deadlines, BlankBefore, DeploymentTypeOK
<1>2. QED
  BY <1>1, InvCorrect, PTL

\* A version the poller reports to the server, so that the server will not
\* send it again, belongs to a configuration the daemon has in its hands:
\* none is lost between handleConfig and applyConfig, also when the probe,
\* an outage or a restart comes in between.
THEOREM ReportedCorrect == DeploymentSpec => []ReportedIsHeld
<1>1. Inv => ReportedIsHeld
  BY DEF Inv, RolloutInv
<1>2. QED
  BY <1>1, InvCorrect, PTL

\* No inquiry reads from a component anything older than the configuration
\* that was complete when it arrived, or a component not configured yet.
THEOREM NoStaleRulesCorrect == DeploymentSpec => []NoStaleRules
<1>1. Inv => NoStaleRules
  BY DEF Inv, RolloutInv
<1>2. QED
  BY <1>1, InvCorrect, PTL

\* A probe notices a server that is up within two timeouts and one and a half
\* maximal delays, for all values of them: nextDelay has a ceiling.
THEOREM NoticesCorrect == DeploymentSpec => []NoticesServer
<1>1. Inv => NoticesServer
  BY DEF Inv, Deadlines, NoticesServer, Prober!NoticesServer
<1>2. QED
  BY <1>1, InvCorrect, PTL

\* applyConfig never takes a component back to an older row: the channel
\* hands the configurations over in the order of the table.
LEMMA StepForward ==
    ASSUME RolloutInv, [Next]_vars, restarts' = restarts
    PROVE  \A c \in Components : installed'[c] >= installed[c]
<1> USE DEF RolloutInv
<1>1. CASE installed' = installed
  BY <1>1, Numbers
<1>2. CASE Apply
  <2>1. /\ applying # None
        /\ installed' = [installed EXCEPT ![ApplyOrder[applied + 1]] = applying]
    BY <1>2 DEF Apply
  <2>2. \A c \in Components :
           installed'[c] = applying \/ installed'[c] = installed[c]
    BY <2>1 DEF TypeOK
  <2>3. QED
    BY <2>1, <2>2, Numbers DEF OldestFirst
<1>3. CASE Restart
  BY <1>3 DEF Restart, TypeOK
<1>4. QED
  BY <1>1, <1>2, <1>3 DEF Next, vars, apply, Upload, Poll, Forward, Receive,
     Begin, Read, End

THEOREM NeverBackCorrect == DeploymentSpec => NeverBack
<1>1. Inv /\ [DeploymentNext]_deployment =>
        [restarts' = restarts =>
           \A c \in Components : installed'[c] >= installed[c]]_vars
  BY StepIsRollout, StepForward DEF Inv
<1>2. QED
  BY <1>1, InvCorrect, PTL DEF DeploymentSpec, NeverBack

\* The deployment implements the rollout: the probe, the outages and the
\* command line tools bring no behaviour that ConfigRollout does not have.
THEOREM ImplementsRollout == DeploymentSpec => Spec
<1>1. DeploymentInit => Init
  BY DEF DeploymentInit
<1>2. QED
  BY <1>1, StepIsRollout, PTL DEF DeploymentSpec, Spec
====
