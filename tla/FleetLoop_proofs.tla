-------------------------- MODULE FleetLoop_proofs --------------------------
(***************************************************************************)
(* Theorems about FleetLoop, for any durations, tick, horizon and number   *)
(* of rounds, whatever worker runs next and whatever is decided.           *)
(***************************************************************************)
EXTENDS FleetLoop, SequenceTheorems, TLAPS

-----------------------------------------------------------------------------
(***************************************************************************)
(* What has been done of the present round.  A queue, other than that of   *)
(* the signals, holds the event of this round or nothing; so whether an    *)
(* event was made can be read off the queue of the one who makes it.       *)
(***************************************************************************)
Made(kind) ==
  /\ kind = "forecast" => queue[<<"prediction", "state">>] = <<>>
  /\ kind \in {"decision", "explanation"} => queue[<<"decision", "state">>] = <<>>
  /\ kind = "explanation" => queue[<<"explainability", "decision">>] = <<>>

Latest(kind) == IF kind = "decision" THEN intent ELSE <<round>>

\* Unless the bus was stopped: subscription c has handled its event of the round.
Taken(c) == Made(c[2]) /\ queue[c] = <<>>

Ending == loop \in {"stopping", "stopped"}

DriverTyped ==
  /\ deployment \in {"fleet", "demo"}
  /\ loop \in {"publish", "join", "tick", "sleep", "cancelled", "stopping", "stopped"}
  /\ deployment = "demo" => loop \notin {"sleep", "cancelled"}
  /\ joining \in 0..(Joins * Len(Subscriptions))
  /\ round \in 0..MaxRounds /\ step \in 0..(TotalSteps - 1)
  /\ loop # "publish" => round > 0

QueueInv ==
  /\ queue = [c \in Workers |-> queue[c]]
  /\ \A c \in Workers :
       IF c[2] = "signal" THEN queue[c] \in Seq(Nat \X Phases)
       ELSE queue[c] = <<>> \/ (queue[c] = <<Latest(c[2])>> /\ Made(c[2]) /\ round > 0)

\* The agents' memories.
AgentInv ==
  /\ intent \in {Nothing} \cup ((1..round) \X Axes)
  /\ intent[1] = IF Made("decision") THEN round ELSE round - 1
  /\ obeyed \in {Nothing} \cup ((1..round) \X Axes)
  /\ desired \in Axes
  /\ forecast \in 0..round /\ forecast >= round - 1
  /\ basis \in 0..round /\ basis >= intent[1] - 1
  /\ remembered = [n \in 1..(IF Taken(<<"memory", "state">>) THEN round ELSE round - 1) |-> n]
  /\ ~Ending =>
       /\ Taken(<<"decision", "forecast">>) => forecast = round
       /\ Taken(<<"signal", "decision">>) => obeyed = intent

NarratorInv ==
  /\ narrating \in BOOLEAN
  /\ narrating => deployment = "fleet" /\ queue[<<"explainability", "decision">>] # <<>>
  /\ narratorForecast \in 0..round
  /\ deployment = "fleet" =>
       /\ narratorForecast >= round - 1
       /\ ~Ending /\ Taken(<<"explainability", "forecast">>) => narratorForecast = round

DashboardInv ==
  /\ snapshot = [f \in Fields \cup {"mode"} |-> snapshot[f]]
  /\ deployment = "fleet" /\ ~Ending =>
       \A f \in Shown \ {"signal"} : Taken(<<"dashboard", f>>) => snapshot[f][1] = round

DemoInv ==
  /\ probed = [decision |-> probed.decision, decisions |-> probed.decisions, forecasts |-> probed.forecasts]
  /\ deployment = "demo" /\ ~Ending =>
       /\ probed.decisions = (IF Taken(<<"probe", "decision">>) THEN round ELSE round - 1)
       /\ probed.forecasts = (IF Taken(<<"probe", "forecast">>) THEN round ELSE round - 1)
       /\ Taken(<<"probe", "decision">>) => probed.decision = intent

\* In the order of the joins each queue is empty for good, except those of the
\* demonstration's probes, which come before what feeds them.
JoinedTaken ==
  \A p \in DOMAIN Subscriptions :
    joining > (IF deployment = "demo" /\ p <= 2 THEN p + 7 ELSE p) => Taken(Subscriptions[p])

\* Where the loop is tells what has been done.
LoopInv ==
  /\ loop = "join" => joining > 0 /\ JoinedTaken
  /\ loop = "tick" => \A c \in Workers : Taken(c)
  /\ loop \in {"publish", "sleep"} \/ (Ending /\ deployment = "demo") =>
       \A c \in Workers : c[2] # "signal" => Taken(c)

LampsInv ==
  /\ machine \in Machine /\ twin \in Phases
  /\ LampsKnown

IInv == DriverTyped /\ QueueInv /\ AgentInv /\ NarratorInv /\ DashboardInv /\ DemoInv /\ LoopInv /\ LampsInv

-----------------------------------------------------------------------------
(***************************************************************************)
(* The subscriptions.                                                      *)
(***************************************************************************)
LEMMA FleetWorkers ==
  ASSUME deployment = "fleet"
  PROVE  /\ Subscriptions = FleetSubscriptions
         /\ Len(Subscriptions) = 12 /\ DOMAIN Subscriptions = 1..12
         /\ Workers = { <<"memory", "state">>, <<"prediction", "state">>,
                        <<"decision", "state">>, <<"decision", "forecast">>,
                        <<"signal", "decision">>,
                        <<"explainability", "decision">>, <<"explainability", "forecast">>,
                        <<"dashboard", "state">>, <<"dashboard", "decision">>, <<"dashboard", "signal">>,
                        <<"dashboard", "forecast">>, <<"dashboard", "explanation">> }
<1>1. Subscriptions = FleetSubscriptions
  BY DEF Subscriptions
<1>2. Len(FleetSubscriptions) = 12 /\ DOMAIN FleetSubscriptions = 1..12
  BY DEF FleetSubscriptions
<1>3. /\ FleetSubscriptions[1] = <<"memory", "state">>
      /\ FleetSubscriptions[2] = <<"prediction", "state">>
      /\ FleetSubscriptions[3] = <<"decision", "state">>
      /\ FleetSubscriptions[4] = <<"decision", "forecast">>
      /\ FleetSubscriptions[5] = <<"signal", "decision">>
      /\ FleetSubscriptions[6] = <<"explainability", "decision">>
      /\ FleetSubscriptions[7] = <<"explainability", "forecast">>
      /\ FleetSubscriptions[8] = <<"dashboard", "state">>
      /\ FleetSubscriptions[9] = <<"dashboard", "decision">>
      /\ FleetSubscriptions[10] = <<"dashboard", "signal">>
      /\ FleetSubscriptions[11] = <<"dashboard", "forecast">>
      /\ FleetSubscriptions[12] = <<"dashboard", "explanation">>
  BY DEF FleetSubscriptions
<1>4. Workers = {FleetSubscriptions[i] : i \in 1..12}
  BY <1>1, <1>2 DEF Workers, Range
<1>5. 1..12 = {1, 2, 3, 4, 5, 6, 7, 8, 9, 10, 11, 12}
  OBVIOUS
<1> HIDE DEF FleetSubscriptions
<1>6. Workers = {FleetSubscriptions[i] : i \in {1, 2, 3, 4, 5, 6, 7, 8, 9, 10, 11, 12}}
  BY <1>4, <1>5
<1>7. Workers = { <<"memory", "state">>, <<"prediction", "state">>,
                        <<"decision", "state">>, <<"decision", "forecast">>,
                        <<"signal", "decision">>,
                        <<"explainability", "decision">>, <<"explainability", "forecast">>,
                        <<"dashboard", "state">>, <<"dashboard", "decision">>, <<"dashboard", "signal">>,
                        <<"dashboard", "forecast">>, <<"dashboard", "explanation">> }
  BY <1>3, <1>6
<1> QED
  BY <1>1, <1>2, <1>7

LEMMA DemoWorkers ==
  ASSUME deployment = "demo"
  PROVE  /\ Subscriptions = DemoSubscriptions
         /\ Len(Subscriptions) = 7 /\ DOMAIN Subscriptions = 1..7
         /\ Workers = { <<"probe", "decision">>, <<"probe", "forecast">>,
                        <<"memory", "state">>, <<"prediction", "state">>,
                        <<"decision", "state">>, <<"decision", "forecast">>, <<"signal", "decision">> }
<1>1. Subscriptions = DemoSubscriptions
  BY DEF Subscriptions
<1>2. Len(DemoSubscriptions) = 7 /\ DOMAIN DemoSubscriptions = 1..7
  BY DEF DemoSubscriptions
<1>3. /\ DemoSubscriptions[1] = <<"probe", "decision">>
      /\ DemoSubscriptions[2] = <<"probe", "forecast">>
      /\ DemoSubscriptions[3] = <<"memory", "state">>
      /\ DemoSubscriptions[4] = <<"prediction", "state">>
      /\ DemoSubscriptions[5] = <<"decision", "state">>
      /\ DemoSubscriptions[6] = <<"decision", "forecast">>
      /\ DemoSubscriptions[7] = <<"signal", "decision">>
  BY DEF DemoSubscriptions
<1>4. Workers = {DemoSubscriptions[i] : i \in 1..7}
  BY <1>1, <1>2 DEF Workers, Range
<1>5. 1..7 = {1, 2, 3, 4, 5, 6, 7}
  OBVIOUS
<1> HIDE DEF DemoSubscriptions
<1>6. Workers = {DemoSubscriptions[i] : i \in {1, 2, 3, 4, 5, 6, 7}}
  BY <1>4, <1>5
<1>7. Workers = { <<"probe", "decision">>, <<"probe", "forecast">>,
                  <<"memory", "state">>, <<"prediction", "state">>,
                  <<"decision", "state">>, <<"decision", "forecast">>, <<"signal", "decision">> }
  BY <1>3, <1>6
<1> QED
  BY <1>1, <1>2, <1>7

LEMMA KindFacts ==
  ASSUME DriverTyped
  PROVE  /\ <<"memory", "state">> \in Workers /\ <<"prediction", "state">> \in Workers
         /\ <<"decision", "state">> \in Workers /\ <<"decision", "forecast">> \in Workers
         /\ <<"signal", "decision">> \in Workers
         /\ \A c \in Workers : /\ c = <<c[1], c[2]>>
                               /\ c[2] \in {"state", "forecast", "decision", "signal", "explanation"}
                               /\ c[2] \in {"signal", "explanation"} \/ c[1] = "dashboard" => deployment = "fleet"
                               /\ c[2] = "signal" => c = <<"dashboard", "signal">>
         /\ deployment = "fleet" =>
              /\ <<"explainability", "decision">> \in Workers
              /\ <<"explainability", "forecast">> \in Workers
              /\ \A f \in Shown : <<"dashboard", f>> \in Workers
              /\ \A c \in Workers : c[1] # "probe"
         /\ deployment = "demo" =>
              /\ <<"probe", "decision">> \in Workers /\ <<"probe", "forecast">> \in Workers
              /\ \A c \in Workers : c[1] # "explainability" /\ c[1] # "dashboard"
         /\ Len(Subscriptions) \in Nat \ {0} /\ DOMAIN Subscriptions = 1..Len(Subscriptions)
         /\ \A p \in DOMAIN Subscriptions : Subscriptions[p] \in Workers
<1>1. CASE deployment = "fleet"
  <2>1. DOMAIN Subscriptions = 1..Len(Subscriptions) /\ Len(Subscriptions) = 12
    BY <1>1, FleetWorkers
  <2>2. \A p \in DOMAIN Subscriptions : Subscriptions[p] \in Workers
    BY DEF Workers, Range
  <2> QED BY <1>1, <2>1, <2>2, FleetWorkers DEF Shown
<1>2. CASE deployment = "demo"
  <2>1. DOMAIN Subscriptions = 1..Len(Subscriptions) /\ Len(Subscriptions) = 7
    BY <1>2, DemoWorkers
  <2>2. \A p \in DOMAIN Subscriptions : Subscriptions[p] \in Workers
    BY DEF Workers, Range
  <2> QED BY <1>2, <2>1, <2>2, DemoWorkers
<1> QED BY <1>1, <1>2 DEF DriverTyped

-----------------------------------------------------------------------------
(***************************************************************************)
(* A worker is done with its event: how the queues change.                 *)
(***************************************************************************)
LEMMA HandledFacts ==
  ASSUME DriverTyped, QueueInv, NEW self \in Workers, self[2] # "signal", queue[self] # <<>>,
         NEW kind, NEW event, kind # self[2], kind # "signal",
         \A c \in Workers : c[2] = kind => queue[c] = <<>>
  PROVE  Handled(self, <<kind, event>>) =
           [c \in Workers |-> IF c = self THEN <<>>
                              ELSE IF c[2] = kind /\ loop # "stopping" THEN <<event>> ELSE queue[c]]
<1> SUFFICES ASSUME NEW c \in Workers
             PROVE  (IF c = self THEN Tail(queue[c]) ELSE queue[c])
                      \o (IF c[2] = kind /\ loop # "stopping" THEN <<event>> ELSE <<>>)
                    = IF c = self THEN <<>>
                      ELSE IF c[2] = kind /\ loop # "stopping" THEN <<event>> ELSE queue[c]
  BY DEF Handled
<1>1. queue[self] = <<Latest(self[2])>>
  BY DEF QueueInv
<1>2. Tail(queue[self]) = <<>>
  BY <1>1
<1>3. <<>> \o <<event>> = <<event>> /\ <<>> \o <<>> = <<>>
  OBVIOUS
<1>4. queue[c] \o <<>> = queue[c]
  <2>1. CASE c[2] = "signal"
    BY <2>1 DEF QueueInv
  <2>2. CASE queue[c] = <<>>
    BY <2>2
  <2>3. CASE queue[c] = <<Latest(c[2])>>
    <3> DEFINE x == Latest(c[2])
    <3>1. <<x>> \o <<>> = <<x>>
      OBVIOUS
    <3> QED BY <2>3, <3>1
  <2> QED BY <2>1, <2>2, <2>3 DEF QueueInv
<1> QED
  BY <1>2, <1>3, <1>4

LEMMA QuietFacts ==
  ASSUME DriverTyped, QueueInv, NEW self \in Workers, self[2] # "signal", queue[self] # <<>>
  PROVE  Handled(self, NoEvent) = [c \in Workers |-> IF c = self THEN <<>> ELSE queue[c]]
<1>1. \A c \in Workers : c[2] # "none"
  BY KindFacts
<1>2. Handled(self, <<"none", Nothing>>) =
        [c \in Workers |-> IF c = self THEN <<>>
                           ELSE IF c[2] = "none" /\ loop # "stopping" THEN <<Nothing>> ELSE queue[c]]
  BY <1>1, HandledFacts
<1> QED
  BY <1>1, <1>2 DEF NoEvent

Predicting == <<"prediction", "state">>
Deciding   == <<"decision", "state">>
Explaining == <<"explainability", "decision">>

\* What each worker publishes, if anything.
Makes(self, kind, event) ==
  \/ kind = "none" /\ self \notin {Predicting, Deciding, Explaining} /\ UNCHANGED intent
  \/ self = Predicting /\ kind = "forecast" /\ event = <<round>> /\ UNCHANGED intent
  \/ self = Deciding /\ kind = "decision" /\ event = intent'
  \/ self = Explaining /\ kind = "explanation" /\ event = <<round>> /\ UNCHANGED intent

(***************************************************************************)
(* A worker handles its event of the round: that is all that becomes taken *)
(* by it, and what was made stays made.                                    *)
(***************************************************************************)
LEMMA WorkQueues ==
  ASSUME DriverTyped, QueueInv, LoopInv, UNCHANGED driver,
         NEW self \in Workers, self[2] # "signal", queue[self] # <<>>,
         NEW kind, NEW event, Makes(self, kind, event),
         queue' = Handled(self, <<kind, event>>)
  PROVE  /\ DriverTyped' /\ QueueInv' /\ LoopInv' /\ Workers' = Workers
         /\ round > 0 /\ queue[self] = <<Latest(self[2])>> /\ Made(self[2])
         /\ queue'[self] = <<>>
         /\ \A c \in Workers : c[2] = "signal" => queue'[c] = queue[c]
         /\ \A c \in Workers : ~Ending \/ c[2] = "state" => (Taken(c)' <=> Taken(c) \/ c = self)
<1>1. /\ Predicting \in Workers /\ Deciding \in Workers
      /\ deployment = "fleet" => Explaining \in Workers
      /\ self = Explaining => deployment = "fleet"
  <2>1. Explaining[1] = "explainability"
    BY DEF Explaining
  <2> QED BY <2>1, KindFacts DEF Predicting, Deciding, Explaining, DriverTyped
<1>2. queue[self] = <<Latest(self[2])>> /\ Made(self[2]) /\ round > 0
  BY DEF QueueInv
<1>3. /\ kind # self[2] /\ kind # "signal" /\ kind # "state"
      /\ \A c \in Workers : c[2] = kind => ~Made(kind)
  <2>1. CASE kind = "none"
    BY <2>1, KindFacts
  <2>2. CASE self = Predicting /\ kind = "forecast"
    BY <2>2 DEF Made, Predicting
  <2>3. CASE self = Deciding /\ kind = "decision"
    BY <2>3 DEF Made, Deciding
  <2>4. CASE self = Explaining /\ kind = "explanation"
    BY <2>4 DEF Made, Explaining
  <2> QED BY <2>1, <2>2, <2>3, <2>4 DEF Makes
<1>4. \A c \in Workers : c[2] = kind => queue[c] = <<>>
  BY <1>3 DEF QueueInv
<1>5. queue' = [c \in Workers |-> IF c = self THEN <<>>
                                  ELSE IF c[2] = kind /\ loop # "stopping" THEN <<event>> ELSE queue[c]]
  BY <1>3, <1>4, HandledFacts
<1>6. /\ deployment' = deployment /\ loop' = loop /\ joining' = joining /\ round' = round
      /\ step' = step /\ Workers' = Workers /\ Subscriptions' = Subscriptions
  BY DEF driver, Workers, Subscriptions
<1>7. DriverTyped'
  BY <1>6 DEF DriverTyped
<1>8. \A c \in Workers : /\ c = self => queue'[c] = <<>>
                         /\ c # self /\ c[2] = kind /\ loop # "stopping" => queue'[c] = <<event>>
                         /\ c # self /\ ~(c[2] = kind /\ loop # "stopping") => queue'[c] = queue[c]
  BY <1>5
<1>9. /\ Predicting[2] = "state" /\ Deciding[2] = "state" /\ Explaining[2] = "decision"
      /\ Explaining # Deciding /\ Explaining # Predicting /\ Predicting # Deciding
  BY DEF Predicting, Deciding, Explaining
\* What happens to the queues of those who make events.
<1>10. /\ queue'[Predicting] = <<>> <=> queue[Predicting] = <<>> \/ self = Predicting
       /\ queue'[Deciding] = <<>> <=> queue[Deciding] = <<>> \/ self = Deciding
  BY <1>1, <1>3, <1>8, <1>9
<1>11. ASSUME deployment = "fleet"
       PROVE  /\ self # Deciding => (queue'[Explaining] = <<>> <=> queue[Explaining] = <<>> \/ self = Explaining)
              /\ self = Deciding /\ loop # "stopping" => queue'[Explaining] # <<>>
  <2>1. kind = "decision" <=> self = Deciding
    BY <1>9 DEF Makes
  <2>2. <<event>> # <<>>
    OBVIOUS
  <2> QED BY <1>1, <1>8, <1>9, <1>11, <2>1, <2>2
<1>12. /\ Made("forecast")' <=> queue'[Predicting] = <<>>
       /\ Made("decision")' <=> queue'[Deciding] = <<>>
       /\ Made("explanation")' <=> queue'[Deciding] = <<>> /\ queue'[Explaining] = <<>>
       /\ Made("forecast") <=> queue[Predicting] = <<>>
       /\ Made("decision") <=> queue[Deciding] = <<>>
       /\ Made("explanation") <=> queue[Deciding] = <<>> /\ queue[Explaining] = <<>>
  BY DEF Made, Predicting, Deciding, Explaining
<1>13. /\ self = Explaining => queue[Deciding] = <<>>
       /\ queue[self] # <<>>
  BY <1>2, <1>9, <1>12
<1>14. /\ Made("forecast")' <=> Made("forecast") \/ self = Predicting
       /\ Made("decision")' <=> Made("decision") \/ self = Deciding
       /\ deployment = "fleet" /\ Made("explanation") => Made("explanation")'
       /\ deployment = "fleet" /\ self = Explaining => Made("explanation")'
       /\ deployment = "fleet" /\ loop # "stopping" /\ Made("explanation")' => Made("explanation") \/ self = Explaining
  BY <1>9, <1>10, <1>11, <1>12, <1>13
<1>15. \A k : k \notin {"forecast", "decision", "explanation"} => Made(k) /\ Made(k)'
  BY DEF Made
<1> HIDE DEF Predicting, Deciding, Explaining
<1>16. ASSUME NEW c \in Workers, Made(c[2])
       PROVE  Made(c[2])'
  <2>1. c[2] = "explanation" => deployment = "fleet"
    BY KindFacts
  <2>2. CASE c[2] = "forecast"
    BY <1>14, <1>16, <2>2
  <2>3. CASE c[2] = "decision"
    BY <1>14, <1>16, <2>3
  <2>4. CASE c[2] = "explanation"
    BY <1>14, <1>16, <2>1, <2>4
  <2>5. CASE c[2] \notin {"forecast", "decision", "explanation"}
    BY <1>15, <2>5
  <2> QED BY <2>2, <2>3, <2>4, <2>5
<1>17. ASSUME NEW c \in Workers, c[2] = kind
       PROVE  Made(kind)' /\ Latest(kind)' = event
  <2>1. kind # "none"
    BY <1>17, KindFacts
  <2>2. deployment = "fleet" \/ kind # "explanation"
    BY <1>17, KindFacts
  <2>3. Made(kind)'
    <3>1. CASE self = Predicting /\ kind = "forecast"
      BY <1>14, <3>1
    <3>2. CASE self = Deciding /\ kind = "decision"
      BY <1>14, <3>2
    <3>3. CASE self = Explaining /\ kind = "explanation"
      BY <1>14, <2>2, <3>3
    <3> QED BY <2>1, <3>1, <3>2, <3>3 DEF Makes
  <2> QED BY <1>6, <2>1, <2>3 DEF Makes, Latest
<1>18. ASSUME NEW c \in Workers, queue[c] # <<>>, c[2] # "signal"
       PROVE  Latest(c[2])' = Latest(c[2])
  <2>1. Made(c[2])
    BY <1>18 DEF QueueInv
  <2>2. c[2] = "decision" => UNCHANGED intent
    <3>1. c[2] = "decision" => queue[Deciding] = <<>>
      BY <1>12, <2>1
    <3> QED BY <1>13, <3>1 DEF Makes
  <2> QED BY <1>6, <2>2 DEF Latest
<1>19. QueueInv'
  <2>1. queue' = [c \in Workers' |-> queue'[c]]
    BY <1>5, <1>6
  <2>2. ASSUME NEW c \in Workers
        PROVE  IF c[2] = "signal" THEN queue'[c] \in Seq(Nat \X Phases)
               ELSE queue'[c] = <<>> \/ (queue'[c] = <<Latest(c[2])'>> /\ Made(c[2])' /\ round' > 0)
    <3>1. CASE c[2] = "signal"
      <4>1. queue'[c] = queue[c]
        BY <1>3, <1>8, <3>1
      <4> QED BY <3>1, <4>1 DEF QueueInv
    <3>2. CASE c[2] # "signal" /\ c # self /\ c[2] = kind /\ loop # "stopping"
      BY <1>2, <1>6, <1>8, <1>17, <3>2
    <3>3. CASE c[2] # "signal" /\ c # self /\ ~(c[2] = kind /\ loop # "stopping")
      <4>1. queue'[c] = queue[c]
        BY <1>8, <3>3
      <4>2. CASE queue[c] = <<>>
        BY <3>3, <4>1, <4>2
      <4>3. CASE queue[c] # <<>>
        <5>1. queue[c] = <<Latest(c[2])>> /\ Made(c[2])
          BY <3>3, <4>3 DEF QueueInv
        <5>2. Latest(c[2])' = Latest(c[2]) /\ Made(c[2])'
          BY <1>16, <1>18, <3>3, <4>3, <5>1
        <5> QED BY <1>2, <1>6, <3>3, <4>1, <5>1, <5>2
      <4> QED BY <4>2, <4>3
    <3>4. CASE c = self
      BY <1>8, <3>4
    <3> QED BY <3>1, <3>2, <3>3, <3>4
  <2>3. \A c \in Workers' :
          IF c[2] = "signal" THEN queue'[c] \in Seq(Nat \X Phases)
          ELSE queue'[c] = <<>> \/ (queue'[c] = <<Latest(c[2])'>> /\ Made(c[2])' /\ round' > 0)
    BY <1>6, <2>2
  <2> QED BY <2>1, <2>3 DEF QueueInv, Latest, Made
<1>20. ASSUME NEW c \in Workers, ~Ending \/ c[2] = "state"
       PROVE  Taken(c)' <=> Taken(c) \/ c = self
  <2>1. Taken(c)' <=> Made(c[2])' /\ queue'[c] = <<>>
    BY DEF Taken, Made
  <2>2. Taken(c) <=> Made(c[2]) /\ queue[c] = <<>>
    BY DEF Taken
  <2>3. ASSUME Taken(c) PROVE Taken(c)'
    <3>1. c[2] # kind
      BY <1>3, <2>2, <2>3
    <3>2. queue'[c] = <<>>
      BY <1>8, <2>2, <2>3, <3>1
    <3> QED BY <1>16, <2>1, <2>2, <2>3, <3>2
  <2>4. ASSUME c = self PROVE Taken(c)'
    BY <1>2, <1>8, <1>16, <2>1, <2>4
  <2>5. ASSUME Taken(c)', c # self PROVE Taken(c)
    <3>1. loop # "stopping" \/ c[2] = "state"
      BY <1>20 DEF Ending
    <3>2. c[2] # kind
      <4>1. CASE c[2] = "state"
        BY <1>3, <4>1
      <4>2. CASE c[2] # "state"
        <5>1. <<event>> # <<>>
          OBVIOUS
        <5> QED BY <1>8, <2>1, <2>5, <3>1, <4>2, <5>1
      <4> QED BY <4>1, <4>2
    <3>3. queue[c] = <<>>
      BY <1>8, <2>1, <2>5, <3>2
    <3>4. c[2] = "explanation" => deployment = "fleet"
      BY KindFacts
    <3>5. CASE c[2] = "forecast"
      <4>1. self # Predicting
        BY <1>9, <3>2, <3>5 DEF Makes
      <4> QED BY <1>14, <2>1, <2>2, <2>5, <3>3, <3>5, <4>1
    <3>6. CASE c[2] = "decision"
      <4>1. self # Deciding
        BY <1>9, <3>2, <3>6 DEF Makes
      <4> QED BY <1>14, <2>1, <2>2, <2>5, <3>3, <3>6, <4>1
    <3>7. CASE c[2] = "explanation"
      <4>1. self # Explaining
        BY <1>9, <3>2, <3>7 DEF Makes
      <4> QED BY <1>14, <2>1, <2>2, <2>5, <3>1, <3>3, <3>4, <3>7, <4>1
    <3>8. CASE c[2] \notin {"forecast", "decision", "explanation"}
      BY <1>15, <2>2, <3>3, <3>8
    <3> QED BY <3>5, <3>6, <3>7, <3>8
  <2> QED BY <2>3, <2>4, <2>5
<1>21. LoopInv'
  <2>1. ~Taken(self)
    BY DEF Taken
  <2>2. loop \notin {"tick", "publish", "sleep"} /\ ~(Ending /\ deployment = "demo")
    BY <2>1 DEF LoopInv
  <2>3. ASSUME loop = "join" PROVE JoinedTaken'
    <3>1. ~Ending
      BY <2>3 DEF Ending
    <3>2. \A c \in Workers : Taken(c) => Taken(c)'
      BY <1>20, <3>1
    <3>3. JoinedTaken
      BY <2>3 DEF LoopInv
    <3>4. \A p \in DOMAIN Subscriptions : Subscriptions[p] \in Workers
      BY KindFacts
    <3>5. \A p \in DOMAIN Subscriptions :
            joining > (IF deployment = "demo" /\ p <= 2 THEN p + 7 ELSE p) => Taken(Subscriptions[p])'
      BY <3>2, <3>3, <3>4, <1>6 DEF JoinedTaken, Taken, Made
    <3> QED BY <1>6, <3>5 DEF JoinedTaken, Taken, Made
  <2>4. loop = "join" => joining > 0
    BY DEF LoopInv
  <2> QED BY <1>6, <2>2, <2>3, <2>4 DEF LoopInv, Ending
<1> QED
  BY <1>2, <1>3, <1>6, <1>7, <1>8, <1>19, <1>20, <1>21

-----------------------------------------------------------------------------
(***************************************************************************)
(* What a worker leaves alone of the agents' memories.                     *)
(***************************************************************************)
Works(self, kind, event) ==
  /\ UNCHANGED driver
  /\ self \in Workers /\ self[2] # "signal" /\ queue[self] # <<>>
  /\ Makes(self, kind, event)
  /\ queue' = Handled(self, <<kind, event>>)

LEMMA WorkFacts ==
  ASSUME IInv, NEW self, NEW kind, NEW event, Works(self, kind, event)
  PROVE  /\ DriverTyped' /\ QueueInv' /\ LoopInv' /\ Workers' = Workers
         /\ round \in Nat /\ round > 0 /\ UNCHANGED <<deployment, loop, round, step>> /\ Ending' = Ending
         /\ self \in Workers /\ queue[self] = <<Latest(self[2])>> /\ Made(self[2]) /\ ~Taken(self)
         /\ \A c \in Workers : c[2] = "signal" => queue'[c] = queue[c]
         /\ \A c \in Workers : ~Ending \/ c[2] = "state" => (Taken(c)' <=> Taken(c) \/ c = self)
         /\ loop # "publish" /\ (deployment = "demo" => ~Ending)
         /\ self # Deciding => intent' = intent
         /\ Made("decision")' <=> Made("decision") \/ self = Deciding
<1>1. /\ DriverTyped /\ QueueInv /\ LoopInv /\ UNCHANGED driver
      /\ self \in Workers /\ self[2] # "signal" /\ queue[self] # <<>>
      /\ Makes(self, kind, event) /\ queue' = Handled(self, <<kind, event>>)
  BY DEF IInv, Works
<1>2. /\ DriverTyped' /\ QueueInv' /\ LoopInv' /\ Workers' = Workers
      /\ round > 0 /\ queue[self] = <<Latest(self[2])>> /\ Made(self[2])
      /\ \A c \in Workers : c[2] = "signal" => queue'[c] = queue[c]
      /\ \A c \in Workers : ~Ending \/ c[2] = "state" => (Taken(c)' <=> Taken(c) \/ c = self)
  BY <1>1, WorkQueues
<1>3. UNCHANGED <<deployment, loop, round, step>> /\ Ending' = Ending /\ round \in Nat
  BY <1>1 DEF driver, Ending, DriverTyped
<1>4. ~Taken(self)
  BY <1>1 DEF Taken
<1>5. loop # "publish" /\ (deployment = "demo" => ~Ending)
  BY <1>1, <1>4 DEF LoopInv
<1>6. self # Deciding => intent' = intent
  BY <1>1 DEF Makes
<1>7. /\ Deciding \in Workers /\ Deciding[2] = "state"
      /\ Made("decision") <=> Taken(Deciding)
      /\ Made("decision")' <=> Taken(Deciding)'
  BY <1>1, KindFacts DEF Deciding, Made, Taken
<1>8. Made("decision")' <=> Made("decision") \/ self = Deciding
  <2> HIDE DEF Deciding
  <2> QED BY <1>2, <1>7
<1> QED
  BY <1>1, <1>2, <1>3, <1>4, <1>5, <1>6, <1>8

LEMMA KeepsAgents ==
  ASSUME IInv, NEW self, NEW kind, NEW event, Works(self, kind, event),
         UNCHANGED <<remembered, decided, desired, obeyed>>,
         self \notin {<<"memory", "state">>, Deciding, <<"decision", "forecast">>, <<"signal", "decision">>}
  PROVE  AgentInv'
<1>1. /\ <<"memory", "state">> \in Workers /\ <<"decision", "forecast">> \in Workers
      /\ <<"signal", "decision">> \in Workers
  BY KindFacts DEF IInv
<1>2. /\ Taken(<<"memory", "state">>)' <=> Taken(<<"memory", "state">>)
      /\ ~Ending => (Taken(<<"decision", "forecast">>)' <=> Taken(<<"decision", "forecast">>))
      /\ ~Ending => (Taken(<<"signal", "decision">>)' <=> Taken(<<"signal", "decision">>))
  <2>1. \A c \in Workers : c # self => (~Ending \/ c[2] = "state" => (Taken(c)' <=> Taken(c)))
    BY WorkFacts
  <2> QED BY <1>1, <2>1 DEF Taken, Made
<1>3. /\ Made("decision")' <=> Made("decision")
      /\ UNCHANGED <<round, intent, basis, forecast>> /\ Ending' = Ending
  BY WorkFacts DEF decided
<1> QED
  BY <1>2, <1>3 DEF IInv, AgentInv

LEMMA KeepsNarrator ==
  ASSUME IInv, NEW self, NEW kind, NEW event, Works(self, kind, event),
         UNCHANGED narratorForecast, narrating' \in BOOLEAN,
         narrating' => narrating /\ self # Explaining,
         self # <<"explainability", "forecast">>
  PROVE  NarratorInv'
<1>1. deployment = "fleet" =>
        <<"explainability", "forecast">> \in Workers /\ Explaining \in Workers /\ Explaining[2] = "decision"
  BY KindFacts DEF IInv, Explaining
<1>2. \A c \in Workers : c # self /\ ~Ending => (Taken(c)' <=> Taken(c))
  BY WorkFacts
<1>3. deployment = "fleet" /\ ~Ending =>
        (Taken(<<"explainability", "forecast">>)' <=> Taken(<<"explainability", "forecast">>))
  BY <1>1, <1>2 DEF Taken, Made
<1>4. ASSUME narrating' PROVE deployment = "fleet" /\ queue'[Explaining] # <<>>
  <2>1. deployment = "fleet" /\ queue[Explaining] # <<>> /\ self # Explaining
    BY <1>4 DEF IInv, NarratorInv, Explaining
  <2>2. queue'[Explaining] =
          queue[Explaining] \o (IF kind = "decision" /\ loop # "stopping" THEN <<event>> ELSE <<>>)
    BY <1>1, <2>1 DEF Works, Handled
  <2>3. queue[Explaining] = <<Latest("decision")>>
    BY <1>1, <2>1 DEF IInv, QueueInv
  <2> DEFINE x == Latest("decision")
  <2>4. <<x>> \o <<event>> # <<>> /\ <<x>> \o <<>> # <<>>
    OBVIOUS
  <2> QED BY <2>1, <2>2, <2>3, <2>4
<1>5. UNCHANGED <<round, deployment>> /\ Ending' = Ending
  BY WorkFacts
<1> QED
  BY <1>3, <1>4, <1>5 DEF IInv, NarratorInv, Explaining

LEMMA KeepsDashboard ==
  ASSUME IInv, NEW self, NEW kind, NEW event, Works(self, kind, event),
         UNCHANGED snapshot, self[1] # "dashboard"
  PROVE  DashboardInv'
<1>1. UNCHANGED <<deployment, round>> /\ Ending' = Ending
  BY WorkFacts
<1>2. ASSUME deployment = "fleet", ~Ending, NEW f \in Shown
      PROVE  Taken(<<"dashboard", f>>)' <=> Taken(<<"dashboard", f>>)
  <2>1. <<"dashboard", f>> \in Workers /\ <<"dashboard", f>> # self
    BY <1>2, KindFacts DEF IInv
  <2>2. \A c \in Workers : c # self => (Taken(c)' <=> Taken(c))
    BY <1>2, WorkFacts
  <2> QED BY <2>1, <2>2 DEF Taken, Made
<1> QED
  BY <1>1, <1>2 DEF IInv, DashboardInv

LEMMA KeepsDemo ==
  ASSUME IInv, NEW self, NEW kind, NEW event, Works(self, kind, event),
         UNCHANGED probed, self[1] # "probe"
  PROVE  DemoInv'
<1>1. UNCHANGED <<deployment, round>> /\ Ending' = Ending
  BY WorkFacts
<1>2. ASSUME deployment = "demo", ~Ending
      PROVE  /\ Taken(<<"probe", "decision">>)' <=> Taken(<<"probe", "decision">>)
             /\ Taken(<<"probe", "forecast">>)' <=> Taken(<<"probe", "forecast">>)
  <2>1. /\ <<"probe", "decision">> \in Workers /\ <<"probe", "forecast">> \in Workers
        /\ <<"probe", "decision">> # self /\ <<"probe", "forecast">> # self
    BY <1>2, KindFacts DEF IInv
  <2>2. \A c \in Workers : c # self => (Taken(c)' <=> Taken(c))
    BY <1>2, WorkFacts
  <2> QED BY <2>1, <2>2 DEF Taken, Made
<1>3. Taken(<<"probe", "decision">>) => intent' = intent
  <2>1. Made("decision") => self # Deciding
    BY WorkFacts DEF Made, Deciding, Works
  <2> QED BY <2>1, WorkFacts DEF Taken
<1> QED
  BY <1>1, <1>2, <1>3 DEF IInv, DemoInv

LEMMA KeepsLamps ==
  ASSUME IInv, NEW self, NEW kind, NEW event, Works(self, kind, event),
         UNCHANGED <<machine, twin, view>>, snapshot'["signal"] = snapshot["signal"]
  PROVE  LampsInv'
<1>1. /\ UNCHANGED <<deployment, round, loop, step>> /\ loop # "publish"
      /\ deployment = "demo" => ~Ending
  BY WorkFacts
<1>2. deployment = "fleet" => queue'[<<"dashboard", "signal">>] = queue[<<"dashboard", "signal">>]
  <2>1. deployment = "fleet" => <<"dashboard", "signal">> \in Workers
    BY KindFacts DEF IInv, Shown
  <2> QED BY <2>1, WorkFacts
<1> QED
  BY <1>1, <1>2 DEF IInv, LampsInv, LampsKnown, Ending

-----------------------------------------------------------------------------
(***************************************************************************)
(* The workers, one by one.                                                *)
(***************************************************************************)
LEMMA WorksPreserves ==
  ASSUME IInv, NEW self, NEW kind, NEW event, Works(self, kind, event),
         AgentInv', NarratorInv', DashboardInv', DemoInv', LampsInv'
  PROVE  IInv'
<1>1. DriverTyped' /\ QueueInv' /\ LoopInv'
  BY WorkFacts
<1> QED
  BY <1>1 DEF IInv

LEMMA CountOn ==
  ASSUME NEW n \in Nat \ {0}, NEW s, s = [k \in 1..(n - 1) |-> k]
  PROVE  Append(s, n) = [k \in 1..n |-> k]
<1>1. s \in Seq(Nat) /\ Len(s) = n - 1
  OBVIOUS
<1>2. Append(s, n) = [k \in 1..(Len(s) + 1) |-> IF k = Len(s) + 1 THEN n ELSE s[k]]
  BY <1>1
<1> QED
  BY <1>1, <1>2

LEMMA RememberStep ==
  ASSUME IInv, Remember
  PROVE  IInv'
<1> DEFINE c == <<"memory", "state">>
<1>1. Works(c, "none", Nothing)
  BY DEF Remember, Has, Works, Makes, NoEvent, Predicting, Deciding, Explaining, decided
<1>2. /\ round \in Nat \ {0} /\ UNCHANGED <<round, intent>> /\ Ending' = Ending
      /\ queue[c] = << <<round>> >> /\ ~Taken(c) /\ Taken(c)'
      /\ Made("decision")' <=> Made("decision")
  <2>1. c \in Workers /\ c[2] = "state" /\ c # Deciding
    BY KindFacts DEF IInv, Deciding
  <2> QED BY <1>1, <2>1, WorkFacts DEF Latest
<1>3. remembered' = [n \in 1..round |-> n]
  <2>1. remembered = [n \in 1..(round - 1) |-> n]
    BY <1>2 DEF IInv, AgentInv
  <2>2. remembered' = Append(remembered, round)
    BY <1>2 DEF Remember, Number
  <2> QED BY <1>2, <2>1, <2>2, CountOn
<1>4. /\ ~Ending => (Taken(<<"decision", "forecast">>)' <=> Taken(<<"decision", "forecast">>))
      /\ ~Ending => (Taken(<<"signal", "decision">>)' <=> Taken(<<"signal", "decision">>))
  <2>1. \A d \in Workers : d # c => (~Ending => (Taken(d)' <=> Taken(d)))
    BY <1>1, WorkFacts
  <2>2. <<"decision", "forecast">> # c /\ <<"signal", "decision">> # c
    OBVIOUS
  <2> QED BY <2>1, <2>2, KindFacts DEF IInv, Taken, Made
<1>5. AgentInv'
  <2>1. UNCHANGED <<intent, basis, forecast, obeyed, desired>>
    BY DEF Remember, decided, control
  <2>2. Taken(<<"memory", "state">>)'
    BY <1>2
  <2> QED BY <1>2, <1>3, <1>4, <2>1, <2>2 DEF IInv, AgentInv
<1>6. NarratorInv'
  BY <1>1, KeepsNarrator DEF Remember, narrator, Explaining, IInv, NarratorInv
<1>7. DashboardInv' /\ DemoInv' /\ LampsInv'
  BY <1>1, KeepsDashboard, KeepsDemo, KeepsLamps DEF Remember, demo, control, driver
<1> QED
  BY <1>1, <1>5, <1>6, <1>7, WorksPreserves

LEMMA PredictStep ==
  ASSUME IInv, Predict
  PROVE  IInv'
<1> DEFINE event == <<round>>
<1>1. Works(Predicting, "forecast", event)
  <2>1. Has(Predicting) /\ queue' = Handled(Predicting, <<"forecast", Head(queue[Predicting])>>)
    BY DEF Predict, Predicting
  <2>2. queue[Predicting] = << <<round>> >>
    BY <2>1 DEF IInv, QueueInv, Has, Latest, Predicting
  <2>3. Head(queue[Predicting]) = event
    BY <2>2
  <2> QED BY <2>1, <2>3 DEF Predict, Works, Makes, Has, decided, Predicting
<1>2. AgentInv'
  BY <1>1, KeepsAgents DEF Predict, control, decided, Predicting, Deciding
<1>3. NarratorInv'
  BY <1>1, KeepsNarrator DEF Predict, narrator, Predicting, Explaining, IInv, NarratorInv
<1>4. DashboardInv' /\ DemoInv' /\ LampsInv'
  BY <1>1, KeepsDashboard, KeepsDemo, KeepsLamps DEF Predict, demo, control, driver, Predicting
<1> QED
  BY <1>1, <1>2, <1>3, <1>4, WorksPreserves

LEMMA LearnForecastStep ==
  ASSUME IInv, LearnForecast
  PROVE  IInv'
<1> DEFINE c == <<"decision", "forecast">>
<1>1. Works(c, "none", Nothing)
  BY DEF LearnForecast, Has, Works, Makes, NoEvent, Predicting, Deciding, Explaining
<1>2. /\ round \in Nat \ {0} /\ UNCHANGED <<round, intent>> /\ Ending' = Ending
      /\ queue[c] = << <<round>> >>
      /\ Made("decision")' <=> Made("decision")
  <2>1. c \in Workers /\ c[2] = "forecast" /\ c # Deciding
    BY KindFacts DEF IInv, Deciding
  <2> QED BY <1>1, <2>1, WorkFacts DEF Latest
<1>3. forecast' = round
  BY <1>2 DEF LearnForecast, Take, Number
<1>4. /\ Taken(<<"memory", "state">>)' <=> Taken(<<"memory", "state">>)
      /\ ~Ending => (Taken(<<"signal", "decision">>)' <=> Taken(<<"signal", "decision">>))
  <2>1. \A d \in Workers : d # c => (~Ending \/ d[2] = "state" => (Taken(d)' <=> Taken(d)))
    BY <1>1, WorkFacts
  <2>2. <<"memory", "state">> # c /\ <<"signal", "decision">> # c
    OBVIOUS
  <2> QED BY <2>1, <2>2, KindFacts DEF IInv, Taken, Made
<1>5. AgentInv'
  <2>1. UNCHANGED <<remembered, intent, basis, obeyed, desired>>
    BY DEF LearnForecast, control
  <2> QED BY <1>2, <1>3, <1>4, <2>1 DEF IInv, AgentInv
<1>6. NarratorInv'
  BY <1>1, KeepsNarrator DEF LearnForecast, narrator, Explaining, IInv, NarratorInv
<1>7. DashboardInv' /\ DemoInv' /\ LampsInv'
  BY <1>1, KeepsDashboard, KeepsDemo, KeepsLamps DEF LearnForecast, demo, control, driver
<1> QED
  BY <1>1, <1>5, <1>6, <1>7, WorksPreserves

LEMMA DecideStep ==
  ASSUME IInv, NEW axis \in Axes, Decide(axis)
  PROVE  IInv'
<1>1. Works(Deciding, "decision", intent')
  BY DEF Decide, Has, Works, Makes, Deciding
<1>2. /\ round \in Nat \ {0} /\ UNCHANGED round /\ Ending' = Ending
      /\ queue[Deciding] = << <<round>> >>
      /\ ~Made("decision") /\ Made("decision")'
  <2>1. Deciding \in Workers /\ Deciding[2] = "state"
    BY KindFacts DEF IInv, Deciding
  <2>2. queue[Deciding] # <<>>
    BY <1>1 DEF Works
  <2> QED BY <1>1, <2>1, <2>2, WorkFacts DEF Latest, Made, Deciding
<1>3. intent' = <<round, axis>> /\ basis' = forecast
  <2>1. Head(queue[Deciding])[1] = round
    BY <1>2
  <2> QED BY <2>1 DEF Decide, Number, Deciding
<1>4. /\ Taken(<<"memory", "state">>)' <=> Taken(<<"memory", "state">>)
      /\ ~Ending => (Taken(<<"decision", "forecast">>)' <=> Taken(<<"decision", "forecast">>))
      /\ ~Ending => ~Taken(<<"signal", "decision">>)'
  <2>1. \A d \in Workers : d # Deciding => (~Ending \/ d[2] = "state" => (Taken(d)' <=> Taken(d)))
    BY <1>1, WorkFacts
  <2>2. /\ <<"memory", "state">> # Deciding /\ <<"signal", "decision">> # Deciding
        /\ <<"decision", "forecast">> # Deciding
    BY DEF Deciding
  <2>3. ~Taken(<<"signal", "decision">>)
    BY <1>2 DEF Taken
  <2>4. \A d \in {<<"memory", "state">>, <<"decision", "forecast">>, <<"signal", "decision">>} : d \in Workers
    BY KindFacts DEF IInv
  <2> HIDE DEF Deciding
  <2> QED BY <2>1, <2>2, <2>3, <2>4 DEF Taken, Made
<1>5. AgentInv'
  <2>1. UNCHANGED <<remembered, forecast, obeyed, desired>>
    BY DEF Decide, control
  <2>2. forecast \in 0..round /\ forecast >= round - 1
    BY DEF IInv, AgentInv
  <2>3. intent' \in {Nothing} \cup ((1..round) \X Axes) /\ intent'[1] = round
    BY <1>2, <1>3
  <2>4. /\ obeyed \in {Nothing} \cup ((1..round) \X Axes) /\ desired \in Axes
        /\ remembered = [n \in 1..(IF Taken(<<"memory", "state">>) THEN round ELSE round - 1) |-> n]
        /\ ~Ending /\ Taken(<<"decision", "forecast">>) => forecast = round
    BY DEF IInv, AgentInv
  <2> QED BY <1>2, <1>3, <1>4, <2>1, <2>2, <2>3, <2>4 DEF AgentInv
<1>6. NarratorInv'
  BY <1>1, KeepsNarrator DEF Decide, narrator, Deciding, Explaining, IInv, NarratorInv
<1>7. DashboardInv' /\ DemoInv' /\ LampsInv'
  BY <1>1, KeepsDashboard, KeepsDemo, KeepsLamps DEF Decide, demo, control, driver, Deciding
<1> QED
  BY <1>1, <1>5, <1>6, <1>7, WorksPreserves

LEMMA ObeyStep ==
  ASSUME IInv, Obey
  PROVE  IInv'
<1> DEFINE c == <<"signal", "decision">>
<1>1. Works(c, "none", Nothing)
  BY DEF Obey, Has, Works, Makes, NoEvent, Predicting, Deciding, Explaining, decided
<1>2. /\ round \in Nat \ {0} /\ UNCHANGED <<round, intent>> /\ Ending' = Ending
      /\ queue[c] = <<intent>> /\ Made("decision")
      /\ Made("decision")' <=> Made("decision")
  <2>1. c \in Workers /\ c[2] = "decision" /\ c # Deciding
    BY KindFacts DEF IInv, Deciding
  <2> QED BY <1>1, <2>1, WorkFacts DEF Latest
<1>3. obeyed' = intent /\ desired' = intent[2]
  BY <1>2 DEF Obey
<1>4. intent \in (1..round) \X Axes
  BY <1>2 DEF IInv, AgentInv, Nothing
<1>5. /\ Taken(<<"memory", "state">>)' <=> Taken(<<"memory", "state">>)
      /\ ~Ending => (Taken(<<"decision", "forecast">>)' <=> Taken(<<"decision", "forecast">>))
  <2>1. \A d \in Workers : d # c => (~Ending \/ d[2] = "state" => (Taken(d)' <=> Taken(d)))
    BY <1>1, WorkFacts
  <2>2. <<"memory", "state">> # c /\ <<"decision", "forecast">> # c
    OBVIOUS
  <2> QED BY <2>1, <2>2, KindFacts DEF IInv, Taken, Made
<1>6. AgentInv'
  <2>1. UNCHANGED <<remembered, intent, basis, forecast>>
    BY DEF Obey, decided
  <2> QED BY <1>2, <1>3, <1>4, <1>5, <2>1 DEF IInv, AgentInv
<1>7. NarratorInv'
  BY <1>1, KeepsNarrator DEF Obey, narrator, Explaining, IInv, NarratorInv
<1>8. DashboardInv' /\ DemoInv' /\ LampsInv'
  BY <1>1, KeepsDashboard, KeepsDemo, KeepsLamps DEF Obey, demo, driver
<1> QED
  BY <1>1, <1>6, <1>7, <1>8, WorksPreserves

LEMMA NoteForecastStep ==
  ASSUME IInv, NoteForecast
  PROVE  IInv'
<1> DEFINE c == <<"explainability", "forecast">>
<1>1. Works(c, "none", Nothing)
  BY DEF NoteForecast, Has, Works, Makes, NoEvent, Predicting, Deciding, Explaining, decided
<1>2. /\ round \in Nat \ {0} /\ UNCHANGED round
      /\ queue[c] = << <<round>> >>
  <2>1. c \in Workers /\ c[2] = "forecast"
    BY <1>1 DEF Works
  <2> QED BY <1>1, <2>1, WorkFacts DEF Latest
<1>3. narratorForecast' = round /\ UNCHANGED narrating
  BY <1>2 DEF NoteForecast, Number
<1>4. narrating' => deployment' = "fleet" /\ queue'[Explaining] # <<>>
  <2>1. ASSUME narrating PROVE deployment = "fleet" /\ queue[Explaining] # <<>> /\ Explaining \in Workers
    BY <2>1, KindFacts DEF IInv, NarratorInv, Explaining
  <2>2. queue' = [d \in Workers |-> IF d = c THEN <<>> ELSE queue[d]]
    BY <1>1, QuietFacts DEF IInv, Works, NoEvent
  <2>3. Explaining # c
    BY DEF Explaining
  <2> QED BY <1>1, <1>3, <2>1, <2>2, <2>3, WorkFacts
<1>5. NarratorInv'
  <2>1. narrating \in BOOLEAN
    BY DEF IInv, NarratorInv
  <2> QED BY <1>2, <1>3, <1>4, <2>1 DEF NarratorInv, Explaining
<1>6. AgentInv'
  BY <1>1, KeepsAgents DEF NoteForecast, control, decided, Deciding
<1>7. DashboardInv' /\ DemoInv' /\ LampsInv'
  BY <1>1, KeepsDashboard, KeepsDemo, KeepsLamps DEF NoteForecast, demo, control, driver
<1> QED
  BY <1>1, <1>5, <1>6, <1>7, WorksPreserves

\* Until the bus stops, what the other workers have taken is as it was.
LEMMA OthersTaken ==
  ASSUME IInv, NEW self, NEW event, NEW kind, Works(self, kind, event),
         ~Ending, NEW c \in Workers, c # self
  PROVE  Taken(c)' <=> Taken(c)
BY WorkFacts

LEMMA ExplainStep ==
  ASSUME IInv, NEW inTime, Explain(inTime)
  PROVE  IInv'
<1> DEFINE event == <<round>>
<1>1. Works(Explaining, "explanation", event)
  <2>1. Explaining \in Workers /\ queue[Explaining] # <<>> /\ Explaining[2] = "decision"
    BY KindFacts DEF Explain, Explaining, IInv, NarratorInv
  <2>2. queue[Explaining] = <<intent>> /\ Made("decision")
    BY <2>1 DEF IInv, QueueInv, Latest
  <2>3. Head(queue[Explaining])[1] = round
    BY <2>2 DEF IInv, AgentInv
  <2>4. queue' = Handled(Explaining, <<"explanation", event>>)
    BY <2>3 DEF Explain, Explained, Number, Explaining
  <2> QED BY <2>1, <2>4 DEF Explain, Works, Makes, decided, Explaining
<1>2. AgentInv'
  BY <1>1, KeepsAgents DEF Explain, control, decided, Deciding, Explaining
<1>3. NarratorInv'
  BY <1>1, KeepsNarrator DEF Explain, Explaining
<1>4. DashboardInv' /\ DemoInv' /\ LampsInv'
  BY <1>1, KeepsDashboard, KeepsDemo, KeepsLamps DEF Explain, demo, control, driver, Explaining
<1> QED
  BY <1>1, <1>2, <1>3, <1>4, WorksPreserves

LEMMA ShowStep ==
  ASSUME IInv, NEW field \in Shown \ {"signal"}, Show(field)
  PROVE  IInv'
<1> DEFINE c == <<"dashboard", field>>
<1>1. Works(c, "none", Nothing) /\ deployment = "fleet"
  <2>1. c \in Workers /\ c[2] # "signal" /\ queue[c] # <<>>
    BY DEF Show, Has
  <2>2. deployment = "fleet"
    BY <2>1, KindFacts DEF IInv, DriverTyped
  <2> QED BY <2>1, <2>2 DEF Show, Works, Makes, NoEvent, Predicting, Deciding, Explaining, decided
<1>2. /\ round \in Nat \ {0} /\ UNCHANGED <<round, deployment>> /\ Ending' = Ending
      /\ Head(queue[c])[1] = round
  <2>1. queue[c] = <<Latest(field)>> /\ Made(field) /\ round \in Nat \ {0} /\ UNCHANGED <<round, deployment>>
        /\ Ending' = Ending
    BY <1>1, WorkFacts
  <2>2. Latest(field)[1] = round
    BY <2>1 DEF Latest, IInv, AgentInv
  <2> QED BY <2>1, <2>2
<1>3. snapshot' = [snapshot EXCEPT ![field] = Head(queue[c])]
  BY DEF Show, OnEvent
<1>4. /\ snapshot' = [f \in Fields \cup {"mode"} |-> snapshot'[f]]
      /\ snapshot'[field][1] = round
      /\ \A f \in Shown : f # field => snapshot'[f] = snapshot[f]
  BY <1>2, <1>3 DEF IInv, DashboardInv, Shown, Fields
<1>5. DashboardInv'
  <2>1. ASSUME ~Ending, NEW f \in Shown \ {"signal"}, Taken(<<"dashboard", f>>)'
        PROVE  snapshot'[f][1] = round
    <3>1. CASE f = field
      BY <1>4, <3>1
    <3>2. CASE f # field
      <4>1. <<"dashboard", f>> \in Workers /\ <<"dashboard", f>> # c
        BY <1>1, <3>2, KindFacts DEF IInv
      <4>2. Taken(<<"dashboard", f>>)
        BY <1>1, <2>1, <4>1, OthersTaken DEF Taken, Made
      <4> QED BY <1>1, <1>4, <2>1, <3>2, <4>2 DEF IInv, DashboardInv
    <3> QED BY <3>1, <3>2
  <2> QED BY <1>2, <1>4, <2>1 DEF DashboardInv
<1>6. AgentInv'
  BY <1>1, KeepsAgents DEF Show, control, decided, Deciding
<1>7. NarratorInv'
  BY <1>1, KeepsNarrator DEF Show, narrator, Explaining, IInv, NarratorInv
<1>8. DemoInv' /\ LampsInv'
  <2>1. snapshot'["signal"] = snapshot["signal"]
    BY <1>4 DEF Shown
  <2> QED BY <1>1, <2>1, KeepsDemo, KeepsLamps DEF Show, demo, control, driver
<1> QED
  BY <1>1, <1>5, <1>6, <1>7, <1>8, WorksPreserves

LEMMA ProbeDecisionStep ==
  ASSUME IInv, ProbeDecision
  PROVE  IInv'
<1> DEFINE c == <<"probe", "decision">>
<1>1. Works(c, "none", Nothing) /\ deployment = "demo" /\ ~Ending
  <2>1. Works(c, "none", Nothing)
    BY DEF ProbeDecision, Has, Works, Makes, NoEvent, Predicting, Deciding, Explaining, decided
  <2>2. deployment = "demo"
    BY <2>1, KindFacts DEF IInv, DriverTyped, Works
  <2> QED BY <2>1, <2>2, WorkFacts
<1>2. /\ round \in Nat \ {0} /\ UNCHANGED <<round, deployment, intent>> /\ Ending' = Ending
      /\ Head(queue[c]) = intent /\ ~Taken(c) /\ Taken(c)'
  <2>1. c \in Workers /\ c[2] = "decision" /\ c # Deciding
    BY <1>1 DEF Works, Deciding
  <2> QED BY <1>1, <2>1, WorkFacts DEF Latest
<1>3. probed' = [decision |-> intent, decisions |-> probed.decisions + 1, forecasts |-> probed.forecasts]
  BY <1>2 DEF ProbeDecision, IInv, DemoInv
<1>4. Taken(<<"probe", "forecast">>)' <=> Taken(<<"probe", "forecast">>)
  <2>1. <<"probe", "forecast">> \in Workers /\ <<"probe", "forecast">> # c
    BY <1>1, KindFacts DEF IInv
  <2> QED BY <1>1, <2>1, OthersTaken DEF Taken, Made
<1>5. DemoInv'
  <2>1. probed.decisions = round - 1
    BY <1>1, <1>2 DEF IInv, DemoInv
  <2>2. probed.forecasts = (IF Taken(<<"probe", "forecast">>) THEN round ELSE round - 1)
    BY <1>1 DEF IInv, DemoInv
  <2>3. Taken(<<"probe", "decision">>)'
    BY <1>2
  <2> QED BY <1>2, <1>3, <1>4, <2>1, <2>2, <2>3 DEF DemoInv
<1>6. AgentInv'
  BY <1>1, KeepsAgents DEF ProbeDecision, control, decided, Deciding
<1>7. NarratorInv'
  BY <1>1, KeepsNarrator DEF ProbeDecision, narrator, Explaining, IInv, NarratorInv
<1>8. DashboardInv' /\ LampsInv'
  BY <1>1, KeepsDashboard, KeepsLamps DEF ProbeDecision, control, driver
<1> QED
  BY <1>1, <1>5, <1>6, <1>7, <1>8, WorksPreserves

LEMMA ProbeForecastStep ==
  ASSUME IInv, ProbeForecast
  PROVE  IInv'
<1> DEFINE c == <<"probe", "forecast">>
<1>1. Works(c, "none", Nothing) /\ deployment = "demo" /\ ~Ending
  <2>1. Works(c, "none", Nothing)
    BY DEF ProbeForecast, Has, Works, Makes, NoEvent, Predicting, Deciding, Explaining, decided
  <2>2. deployment = "demo"
    BY <2>1, KindFacts DEF IInv, DriverTyped, Works
  <2> QED BY <2>1, <2>2, WorkFacts
<1>2. /\ round \in Nat \ {0} /\ UNCHANGED <<round, deployment, intent>> /\ Ending' = Ending
      /\ ~Taken(c) /\ Taken(c)'
  <2>1. c \in Workers /\ c # Deciding
    BY <1>1 DEF Works, Deciding
  <2> QED BY <1>1, <2>1, WorkFacts
<1>3. probed' = [decision |-> probed.decision, decisions |-> probed.decisions,
                 forecasts |-> probed.forecasts + 1]
  BY DEF ProbeForecast, IInv, DemoInv
<1>4. Taken(<<"probe", "decision">>)' <=> Taken(<<"probe", "decision">>)
  <2>1. <<"probe", "decision">> \in Workers /\ <<"probe", "decision">> # c
    BY <1>1, KindFacts DEF IInv
  <2> QED BY <1>1, <2>1, OthersTaken DEF Taken, Made
<1>5. DemoInv'
  <2>1. probed.forecasts = round - 1
    BY <1>1, <1>2 DEF IInv, DemoInv
  <2>2. /\ probed.decisions = (IF Taken(<<"probe", "decision">>) THEN round ELSE round - 1)
        /\ Taken(<<"probe", "decision">>) => probed.decision = intent
    BY <1>1 DEF IInv, DemoInv
  <2>3. Taken(<<"probe", "forecast">>)'
    BY <1>2
  <2> QED BY <1>2, <1>3, <1>4, <2>1, <2>2, <2>3 DEF DemoInv
<1>6. AgentInv'
  BY <1>1, KeepsAgents DEF ProbeForecast, control, decided, Deciding
<1>7. NarratorInv'
  BY <1>1, KeepsNarrator DEF ProbeForecast, narrator, Explaining, IInv, NarratorInv
<1>8. DashboardInv' /\ LampsInv'
  BY <1>1, KeepsDashboard, KeepsLamps DEF ProbeForecast, control, driver
<1> QED
  BY <1>1, <1>5, <1>6, <1>7, <1>8, WorksPreserves

-----------------------------------------------------------------------------
(***************************************************************************)
(* The other steps of a round touch no queue but that of the signals.      *)
(***************************************************************************)
Signalling ==
  /\ UNCHANGED <<deployment, round, remembered, decided, narratorForecast, desired, obeyed, probed>>
  /\ queue' = [c \in Workers |-> queue'[c]]
  /\ \A c \in Workers : IF c[2] = "signal" THEN queue'[c] \in Seq(Nat \X Phases)
                        ELSE queue'[c] = queue[c]
  /\ snapshot' = [f \in Fields \cup {"mode"} |-> IF f = "signal" THEN snapshot'[f] ELSE snapshot[f]]
  /\ Ending => Ending'

LEMMA SignallingFacts ==
  ASSUME IInv, Signalling
  PROVE  /\ Workers' = Workers /\ Subscriptions' = Subscriptions
         /\ \A c \in Workers : c[2] # "signal" => (Taken(c)' <=> Taken(c))
         /\ QueueInv' /\ AgentInv' /\ DashboardInv' /\ DemoInv'
         /\ narrating' = narrating => NarratorInv'
<1>1. UNCHANGED <<deployment, round, intent>> /\ Workers' = Workers /\ Subscriptions' = Subscriptions
  BY DEF Signalling, decided, Workers, Subscriptions
<1>2. /\ queue'[Predicting] = queue[Predicting] /\ queue'[Deciding] = queue[Deciding]
      /\ deployment = "fleet" => queue'[Explaining] = queue[Explaining]
  <2>1. /\ Predicting \in Workers /\ Deciding \in Workers
        /\ Predicting[2] # "signal" /\ Deciding[2] # "signal" /\ Explaining[2] # "signal"
        /\ deployment = "fleet" => Explaining \in Workers
    BY KindFacts DEF IInv, Predicting, Deciding, Explaining
  <2> QED BY <2>1 DEF Signalling
<1>3. \A k : (deployment = "fleet" \/ k # "explanation") => (Made(k)' <=> Made(k))
  BY <1>2 DEF Made, Predicting, Deciding, Explaining
<1>4. \A c \in Workers : c[2] = "explanation" => deployment = "fleet"
  BY KindFacts DEF IInv
<1>5. \A c \in Workers : c[2] # "signal" => (Taken(c)' <=> Taken(c))
  <2> SUFFICES ASSUME NEW c \in Workers, c[2] # "signal"
               PROVE  Taken(c)' <=> Taken(c)
    OBVIOUS
  <2>1. queue'[c] = queue[c]
    BY DEF Signalling
  <2>2. Taken(c)' <=> Made(c[2])' /\ queue'[c] = <<>>
    BY DEF Taken, Made
  <2> QED BY <1>3, <1>4, <2>1, <2>2 DEF Taken
<1>6. QueueInv'
  <2>1. ASSUME NEW c \in Workers
        PROVE  IF c[2] = "signal" THEN queue'[c] \in Seq(Nat \X Phases)
               ELSE queue'[c] = <<>> \/ (queue'[c] = <<Latest(c[2])'>> /\ Made(c[2])' /\ round' > 0)
    <3>1. CASE c[2] = "signal"
      BY <3>1 DEF Signalling
    <3>2. CASE c[2] # "signal"
      <4>1. queue'[c] = queue[c]
        BY <3>2 DEF Signalling
      <4>2. Latest(c[2])' = Latest(c[2]) /\ (Made(c[2])' <=> Made(c[2]))
        BY <1>1, <1>3, <1>4 DEF Latest
      <4> QED BY <1>1, <3>2, <4>1, <4>2 DEF IInv, QueueInv
    <3> QED BY <3>1, <3>2
  <2>2. \A c \in Workers' :
          IF c[2] = "signal" THEN queue'[c] \in Seq(Nat \X Phases)
          ELSE queue'[c] = <<>> \/ (queue'[c] = <<Latest(c[2])'>> /\ Made(c[2])' /\ round' > 0)
    BY <1>1, <2>1
  <2>3. queue' = [c \in Workers' |-> queue'[c]]
    BY <1>1 DEF Signalling
  <2> QED BY <2>2, <2>3 DEF QueueInv, Latest, Made
<1>7. /\ \A c \in {<<"memory", "state">>, <<"decision", "forecast">>, <<"signal", "decision">>} :
           Taken(c)' <=> Taken(c)
      /\ deployment = "fleet" =>
           /\ Taken(<<"explainability", "forecast">>)' <=> Taken(<<"explainability", "forecast">>)
           /\ \A f \in Shown \ {"signal"} : Taken(<<"dashboard", f>>)' <=> Taken(<<"dashboard", f>>)
      /\ deployment = "demo" =>
           /\ Taken(<<"probe", "decision">>)' <=> Taken(<<"probe", "decision">>)
           /\ Taken(<<"probe", "forecast">>)' <=> Taken(<<"probe", "forecast">>)
  BY <1>5, KindFacts DEF IInv
<1>8. AgentInv'
  <2>1. UNCHANGED <<remembered, forecast, intent, basis, desired, obeyed>>
    BY DEF Signalling, decided
  <2>2. Made("decision")' <=> Made("decision")
    BY <1>3
  <2>3. /\ Taken(<<"memory", "state">>)' <=> Taken(<<"memory", "state">>)
        /\ Taken(<<"decision", "forecast">>)' <=> Taken(<<"decision", "forecast">>)
        /\ Taken(<<"signal", "decision">>)' <=> Taken(<<"signal", "decision">>)
    BY <1>7
  <2> QED BY <1>1, <2>1, <2>2, <2>3 DEF IInv, AgentInv, Signalling
<1>9. DashboardInv'
  <2>1. /\ snapshot' = [f \in Fields \cup {"mode"} |-> snapshot'[f]]
        /\ \A f \in Shown \ {"signal"} : snapshot'[f] = snapshot[f]
    BY DEF Signalling, Shown, Fields
  <2> QED BY <1>1, <1>7, <2>1 DEF IInv, DashboardInv, Signalling
<1>10. DemoInv'
  BY <1>1, <1>7 DEF IInv, DemoInv, Signalling
<1>11. ASSUME narrating' = narrating PROVE NarratorInv'
  BY <1>1, <1>2, <1>7, <1>11 DEF IInv, NarratorInv, Signalling, Explaining
<1> QED
  BY <1>1, <1>5, <1>6, <1>8, <1>9, <1>10, <1>11

LEMMA SignallingPreserves ==
  ASSUME IInv, Signalling, DriverTyped', LoopInv', LampsInv', NarratorInv'
  PROVE  IInv'
BY SignallingFacts DEF IInv

LEMMA StartNarratingStep ==
  ASSUME IInv, StartNarrating
  PROVE  IInv'
<1>1. UNCHANGED <<deployment, loop, joining, round, step, twin, queue, remembered, decided, narratorForecast,
                  control, demo, snapshot>> /\ narrating' = TRUE
  BY DEF StartNarrating, driver
<1>2. deployment = "fleet" /\ queue[Explaining] # <<>>
  <2>1. Explaining \in Workers /\ Explaining[1] = "explainability" /\ queue[Explaining] # <<>>
    BY DEF StartNarrating, Has, Explaining
  <2> QED BY <2>1, KindFacts DEF IInv, DriverTyped
<1>3. Signalling
  BY <1>1 DEF Signalling, control, demo, Ending, IInv, QueueInv, DashboardInv
<1>4. DriverTyped' /\ LampsInv'
  <2>1. DriverTyped'
    BY <1>1 DEF IInv, DriverTyped, Subscriptions
  <2>2. UNCHANGED <<machine, view, intent>>
    BY <1>1 DEF StartNarrating, control, demo, decided
  <2> QED BY <1>1, <2>1, <2>2 DEF IInv, LampsInv, LampsKnown
<1>5. NarratorInv'
  BY <1>1, <1>2 DEF IInv, NarratorInv, Explaining, Ending, Taken, Made
<1>6. LoopInv'
  BY <1>1 DEF IInv, LoopInv, JoinedTaken, Ending, Taken, Made, Workers, Subscriptions
<1> QED
  BY <1>3, <1>4, <1>5, <1>6, SignallingPreserves

LEMMA LastOfTail ==
  ASSUME NEW S, NEW q \in Seq(S), q # <<>>
  PROVE  IF Tail(q) = <<>> THEN Last(q) = Head(q) ELSE Last(q) = Last(Tail(q))
<1>1. /\ Len(q) \in Nat \ {0} /\ Tail(q) \in Seq(S) /\ Len(Tail(q)) = Len(q) - 1
      /\ \A i \in 1..Len(Tail(q)) : Tail(q)[i] = q[i + 1]
      /\ Tail(q) = <<>> => Len(Tail(q)) = 0
      /\ Tail(q) # <<>> => Len(Tail(q)) \in Nat \ {0}
  BY EmptySeq, HeadTailProperties
<1>2. CASE Tail(q) = <<>>
  <2>1. Len(q) = 1
    BY <1>1, <1>2
  <2>2. Head(q) = q[1]
    OBVIOUS
  <2> QED BY <1>2, <2>1, <2>2 DEF Last
<1>3. CASE Tail(q) # <<>>
  <2>1. Tail(q)[Len(q) - 1] = q[Len(q)]
    BY <1>1, <1>3
  <2> QED BY <1>1, <1>3, <2>1 DEF Last
<1> QED
  BY <1>2, <1>3

LEMMA ShowSignalStep ==
  ASSUME IInv, Show("signal")
  PROVE  IInv'
<1> DEFINE c == <<"dashboard", "signal">>
           q == queue[c]
<1>1. c \in Workers /\ q # <<>> /\ q \in Seq(Nat \X Phases) /\ deployment = "fleet"
  <2>1. c \in Workers /\ q # <<>>
    BY DEF Show, Has
  <2>2. c[2] = "signal"
    OBVIOUS
  <2> QED BY <2>1, <2>2, KindFacts DEF IInv, QueueInv
<1>2. /\ UNCHANGED <<deployment, loop, joining, round, step, twin, remembered, decided, narrator, control, demo>>
      /\ snapshot' = [snapshot EXCEPT !["signal"] = Head(q)]
      /\ queue' = Handled(c, NoEvent)
  BY DEF Show, OnEvent, driver
<1>3. queue' = [d \in Workers |-> IF d = c THEN Tail(q) ELSE queue[d]]
  <2> SUFFICES ASSUME NEW d \in Workers
               PROVE  (IF d = c THEN Tail(q) ELSE queue[d])
                        \o (IF d[2] = "none" /\ loop # "stopping" THEN <<Nothing>> ELSE <<>>)
                      = IF d = c THEN Tail(q) ELSE queue[d]
    BY <1>2 DEF Handled, NoEvent
  <2>1. d[2] # "none"
    BY KindFacts DEF IInv
  <2>2. Tail(q) \o <<>> = Tail(q)
    BY <1>1
  <2>3. d # c => queue[d] \o <<>> = queue[d]
    <3>1. CASE d[2] = "signal"
      BY <3>1 DEF IInv, QueueInv
    <3>2. CASE queue[d] = <<>>
      BY <3>2
    <3>3. CASE queue[d] = <<Latest(d[2])>>
      <4> DEFINE x == Latest(d[2])
      <4>1. <<x>> \o <<>> = <<x>>
        OBVIOUS
      <4> QED BY <3>3, <4>1
    <3> QED BY <3>1, <3>2, <3>3 DEF IInv, QueueInv
  <2> QED BY <2>1, <2>2, <2>3
<1>4. Signalling
  <2>1. \A d \in Workers : d[2] = "signal" => d = c
    BY KindFacts DEF IInv
  <2>2. \A d \in Workers : IF d[2] = "signal" THEN queue'[d] \in Seq(Nat \X Phases)
                           ELSE queue'[d] = queue[d]
    BY <1>1, <1>3, <2>1
  <2>3. snapshot' = [f \in Fields \cup {"mode"} |-> IF f = "signal" THEN snapshot'[f] ELSE snapshot[f]]
    BY <1>2 DEF IInv, DashboardInv
  <2> QED BY <1>2, <1>3, <2>2, <2>3 DEF Signalling, narrator, control, demo, Ending
<1>5. DriverTyped' /\ NarratorInv'
  BY <1>2, <1>4, SignallingFacts DEF IInv, DriverTyped, narrator
<1>6. LoopInv'
  <2>1. ~Taken(c) /\ c[2] = "signal"
    BY <1>1 DEF Taken
  <2>2. \A d \in Workers : Taken(d) => Taken(d)'
    <3>1. \A d \in Workers : d[2] = "signal" => d = c
      BY KindFacts DEF IInv
    <3> QED BY <1>4, <2>1, <3>1, SignallingFacts
  <2>3. UNCHANGED <<deployment, loop, joining>> /\ Workers' = Workers /\ Subscriptions' = Subscriptions
    BY <1>2, <1>4, SignallingFacts
  <2>4. \A p \in DOMAIN Subscriptions : Subscriptions[p] \in Workers
    BY KindFacts DEF IInv
  <2>5. JoinedTaken => JoinedTaken'
    <3> SUFFICES ASSUME JoinedTaken, NEW p \in DOMAIN Subscriptions,
                        joining > (IF deployment = "demo" /\ p <= 2 THEN p + 7 ELSE p)
                 PROVE  Taken(Subscriptions[p])'
      BY <2>3 DEF JoinedTaken, Taken, Made
    <3>1. Taken(Subscriptions[p]) /\ Subscriptions[p] \in Workers
      BY <2>4 DEF JoinedTaken
    <3>2. \A d \in Workers : Taken(d) => Made(d[2])' /\ queue'[d] = <<>>
      BY <2>2 DEF Taken, Made
    <3> QED BY <2>3, <3>1, <3>2 DEF Taken, Made
  <2>6. loop # "tick"
    BY <1>1, <2>1 DEF IInv, LoopInv
  <2> QED BY <2>2, <2>3, <2>5, <2>6 DEF IInv, LoopInv, Ending
<1>7. LampsInv'
  <2>1. queue'[c] = Tail(q) /\ snapshot'["signal"] = Head(q)
    BY <1>1, <1>2, <1>3 DEF IInv, DashboardInv, Fields
  <2>2. machine.phase = Last(q)[2]
    BY <1>1 DEF IInv, LampsInv, LampsKnown
  <2>3. machine'.phase = IF Tail(q) = <<>> THEN Head(q)[2] ELSE Last(Tail(q))[2]
    <3>1. machine' = machine
      BY <1>2 DEF control
    <3>2. IF Tail(q) = <<>> THEN Last(q) = Head(q) ELSE Last(q) = Last(Tail(q))
      BY <1>1, LastOfTail
    <3> QED BY <2>2, <3>1, <3>2
  <2> QED BY <1>1, <1>2, <2>1, <2>3 DEF IInv, LampsInv, LampsKnown, control
<1> QED
  BY <1>4, <1>5, <1>6, <1>7, SignallingPreserves

-----------------------------------------------------------------------------
(***************************************************************************)
(* The loop.                                                               *)
(***************************************************************************)
LEMMA LoopOnly ==
  ASSUME IInv, UNCHANGED <<deployment, round, step, twin, queue, agents>>, Ending => Ending',
         deployment = "demo" /\ loop' \in {"publish", "stopping", "stopped"} =>
           loop \in {"publish", "stopping", "stopped"},
         DriverTyped', LoopInv'
  PROVE  IInv'
<1>1. UNCHANGED <<remembered, forecast, intent, basis, narratorForecast, narrating, desired, machine, obeyed,
                  probed, view, snapshot>>
  BY DEF agents, decided, narrator, control, demo
<1>2. Signalling
  BY <1>1 DEF Signalling, decided, Ending, IInv, QueueInv, DashboardInv
<1>3. NarratorInv'
  BY <1>1, <1>2, SignallingFacts
<1>4. LampsInv'
  BY <1>1 DEF IInv, LampsInv, LampsKnown
<1> QED
  BY <1>2, <1>3, <1>4, SignallingPreserves

LEMMA SameQueues ==
  ASSUME UNCHANGED <<deployment, round, queue, agents>>
  PROVE  /\ Workers' = Workers /\ Subscriptions' = Subscriptions
         /\ \A c : Taken(c)' <=> Taken(c)
BY DEF Workers, Subscriptions, Taken, Made

LEMMA WakeStep ==
  ASSUME IInv, Wake
  PROVE  IInv'
<1>1. UNCHANGED <<deployment, joining, round, step, twin, queue, agents>>
      /\ loop = "sleep" /\ loop' = "publish" /\ deployment = "fleet"
  BY DEF Wake, IInv, DriverTyped
<1>2. DriverTyped' /\ LoopInv'
  BY <1>1, SameQueues DEF IInv, DriverTyped, LoopInv, Ending
<1> QED
  BY <1>1, <1>2, LoopOnly DEF Ending

LEMMA CancelStep ==
  ASSUME IInv, Cancel
  PROVE  IInv'
<1>1. UNCHANGED <<deployment, joining, round, step, twin, queue, agents>>
      /\ loop \in {"sleep", "join"} /\ loop' = "cancelled" /\ deployment = "fleet"
  BY DEF Cancel
<1>2. DriverTyped' /\ LoopInv'
  BY <1>1, SameQueues DEF IInv, DriverTyped, LoopInv, Ending
<1> QED
  BY <1>1, <1>2, LoopOnly DEF Ending

LEMMA StopBusStep ==
  ASSUME IInv, StopBus
  PROVE  IInv'
<1>1. UNCHANGED <<deployment, joining, round, step, twin, queue, agents>>
      /\ loop = "cancelled" /\ loop' = "stopping" /\ deployment = "fleet"
  BY DEF StopBus, IInv, DriverTyped
<1>2. DriverTyped' /\ LoopInv'
  BY <1>1, SameQueues DEF IInv, DriverTyped, LoopInv, Ending
<1> QED
  BY <1>1, <1>2, LoopOnly DEF Ending

LEMMA StoppedStep ==
  ASSUME IInv, Stopped
  PROVE  IInv'
<1>1. UNCHANGED <<deployment, joining, round, step, twin, queue, agents>>
      /\ loop = "stopping" /\ loop' = "stopped"
  BY DEF Stopped
<1>2. DriverTyped' /\ LoopInv'
  BY <1>1, SameQueues DEF IInv, DriverTyped, LoopInv, Ending
<1> QED
  BY <1>1, <1>2, LoopOnly DEF Ending

(***************************************************************************)
(* A join that returns adds its queue to those taken: those who feed it    *)
(* come before it.                                                         *)
(***************************************************************************)
LEMMA JoinTakes ==
  ASSUME IInv, loop = "join", Drained
  PROVE  \A p \in DOMAIN Subscriptions :
           joining + 1 > (IF deployment = "demo" /\ p <= 2 THEN p + 7 ELSE p) => Taken(Subscriptions[p])
<1>1. JoinedTaken /\ joining \in Nat \ {0} /\ DriverTyped
  BY DEF IInv, LoopInv, DriverTyped
<1>2. CASE deployment = "fleet"
  <2> SUFFICES ASSUME NEW p \in 1..12, joining + 1 > p
               PROVE  Taken(Subscriptions[p])
    BY <1>2, FleetWorkers
  <2>1. CASE joining > p
    BY <1>1, <1>2, <2>1, FleetWorkers DEF JoinedTaken
  <2>2. CASE joining = p
    <3>1. /\ p > 2 => queue[<<"prediction", "state">>] = <<>>
          /\ p > 3 => queue[<<"decision", "state">>] = <<>>
          /\ p > 6 => queue[<<"explainability", "decision">>] = <<>>
      <4>1. \A i \in 1..12 : joining > i => queue[Subscriptions[i]] = <<>>
        BY <1>1, <1>2, FleetWorkers DEF JoinedTaken, Taken
      <4>2. /\ Subscriptions[2] = <<"prediction", "state">>
            /\ Subscriptions[3] = <<"decision", "state">>
            /\ Subscriptions[6] = <<"explainability", "decision">>
        BY <1>2, FleetWorkers DEF FleetSubscriptions
      <4>3. /\ joining > 2 => queue[Subscriptions[2]] = <<>>
            /\ joining > 3 => queue[Subscriptions[3]] = <<>>
            /\ joining > 6 => queue[Subscriptions[6]] = <<>>
        <5>1. 2 \in 1..12 /\ 3 \in 1..12 /\ 6 \in 1..12
          OBVIOUS
        <5> QED BY <4>1, <5>1
      <4> QED BY <2>2, <4>2, <4>3
    <3>2. queue[Subscriptions[p]] = <<>>
      <4>1. ((p - 1) % 12) + 1 = p
        OBVIOUS
      <4> QED BY <1>2, <2>2, <4>1, FleetWorkers DEF Drained, JoinedQueue
    <3>3. /\ Subscriptions[p][2] = "forecast" => p > 2
          /\ Subscriptions[p][2] = "decision" => p > 3
          /\ Subscriptions[p][2] = "explanation" => p > 6
      BY <1>2, FleetWorkers DEF FleetSubscriptions
    <3> QED BY <3>1, <3>2, <3>3 DEF Taken, Made
  <2> QED BY <1>1, <2>1, <2>2
<1>3. CASE deployment = "demo"
  <2> DEFINE bound(p) == IF p <= 2 THEN p + 7 ELSE p
  <2> SUFFICES ASSUME NEW p \in 1..7, joining + 1 > bound(p)
               PROVE  Taken(Subscriptions[p])
    BY <1>3, DemoWorkers
  <2>1. CASE joining > bound(p)
    BY <1>1, <1>3, <2>1, DemoWorkers DEF JoinedTaken
  <2>2. CASE joining = bound(p)
    <3>1. /\ bound(p) > 4 => queue[<<"prediction", "state">>] = <<>>
          /\ bound(p) > 5 => queue[<<"decision", "state">>] = <<>>
      <4>1. \A i \in 3..7 : joining > i => queue[Subscriptions[i]] = <<>>
        BY <1>1, <1>3, DemoWorkers DEF JoinedTaken, Taken
      <4>2. /\ Subscriptions[4] = <<"prediction", "state">>
            /\ Subscriptions[5] = <<"decision", "state">>
        BY <1>3, DemoWorkers DEF DemoSubscriptions
      <4>3. /\ joining > 4 => queue[Subscriptions[4]] = <<>>
            /\ joining > 5 => queue[Subscriptions[5]] = <<>>
        <5>1. 4 \in 3..7 /\ 5 \in 3..7
          OBVIOUS
        <5> QED BY <4>1, <5>1
      <4> QED BY <2>2, <4>2, <4>3
    <3>2. queue[Subscriptions[p]] = <<>>
      <4>1. ((bound(p) - 1) % 7) + 1 = p
        OBVIOUS
      <4> QED BY <1>3, <2>2, <4>1, DemoWorkers DEF Drained, JoinedQueue
    <3>3. /\ Subscriptions[p][2] = "forecast" => bound(p) > 4
          /\ Subscriptions[p][2] = "decision" => bound(p) > 5
          /\ Subscriptions[p][2] # "explanation"
      BY <1>3, DemoWorkers DEF DemoSubscriptions
    <3> QED BY <3>1, <3>2, <3>3 DEF Taken, Made
  <2> QED BY <1>1, <2>1, <2>2
<1> QED
  BY <1>1, <1>2, <1>3 DEF DriverTyped

LEMMA JoinStep ==
  ASSUME IInv, Join
  PROVE  IInv'
<1>1. /\ UNCHANGED <<deployment, round, step, twin, queue, agents>>
      /\ loop = "join" /\ Drained
      /\ IF joining = Joins * Len(Subscriptions)
         THEN loop' = "tick" /\ joining' = 0
         ELSE loop' = "join" /\ joining' = joining + 1
  BY DEF Join
<1>2. /\ Workers' = Workers /\ Subscriptions' = Subscriptions
      /\ \A c : Taken(c)' <=> Taken(c)
  BY <1>1, SameQueues
<1>3. DriverTyped /\ joining > 0 /\ joining \in 0..(Joins * Len(Subscriptions))
      /\ Len(Subscriptions) \in Nat \ {0}
  BY <1>1, KindFacts DEF IInv, LoopInv, DriverTyped
<1>4. \A p \in DOMAIN Subscriptions :
        joining + 1 > (IF deployment = "demo" /\ p <= 2 THEN p + 7 ELSE p) => Taken(Subscriptions[p])
  BY <1>1, JoinTakes
<1>5. CASE joining = Joins * Len(Subscriptions)
  <2>1. loop' = "tick" /\ joining' = 0
    BY <1>1, <1>5
  <2>2. \A p \in DOMAIN Subscriptions : Taken(Subscriptions[p])
    <3>1. CASE deployment = "fleet"
      <4>1. joining = 36 /\ DOMAIN Subscriptions = 1..12
        <5>1. Len(Subscriptions) = 12 /\ DOMAIN Subscriptions = 1..12
          BY <3>1, FleetWorkers
        <5>2. 3 * 12 = 36
          OBVIOUS
        <5> QED BY <1>5, <5>1, <5>2 DEF Joins
      <4>2. \A p \in 1..12 : joining + 1 > (IF deployment = "demo" /\ p <= 2 THEN p + 7 ELSE p)
        BY <3>1, <4>1
      <4> QED BY <1>4, <4>1, <4>2
    <3>2. CASE deployment = "demo"
      <4>1. joining = 21 /\ DOMAIN Subscriptions = 1..7
        <5>1. Len(Subscriptions) = 7 /\ DOMAIN Subscriptions = 1..7
          BY <3>2, DemoWorkers
        <5>2. 3 * 7 = 21
          OBVIOUS
        <5> QED BY <1>5, <5>1, <5>2 DEF Joins
      <4>2. \A p \in 1..7 : joining + 1 > (IF deployment = "demo" /\ p <= 2 THEN p + 7 ELSE p)
        BY <3>2, <4>1
      <4> QED BY <1>4, <4>1, <4>2
    <3> QED BY <1>3, <3>1, <3>2 DEF DriverTyped
  <2>3. \A c \in Workers : Taken(c)
    BY <2>2 DEF Workers, Range
  <2>4. LoopInv'
    BY <1>2, <2>1, <2>3 DEF LoopInv, Ending
  <2>5. DriverTyped'
    BY <1>1, <1>2, <1>3, <2>1 DEF DriverTyped, Joins
  <2> QED BY <1>1, <2>1, <2>4, <2>5, LoopOnly DEF Ending
<1>6. CASE joining # Joins * Len(Subscriptions)
  <2>1. loop' = "join" /\ joining' = joining + 1
    BY <1>1, <1>6
  <2>2. JoinedTaken'
    BY <1>1, <1>2, <1>4, <2>1 DEF JoinedTaken, Taken, Made
  <2>3. LoopInv'
    BY <1>3, <2>1, <2>2 DEF LoopInv, Ending, DriverTyped
  <2>4. DriverTyped'
    BY <1>1, <1>2, <1>3, <1>6, <2>1 DEF DriverTyped, Joins
  <2> QED BY <1>1, <2>1, <2>3, <2>4, LoopOnly DEF Ending
<1> QED
  BY <1>5, <1>6

\* The machine the tick leaves behind.
LEMMA StepTyped ==
  ASSUME NEW m \in Machine, NEW dt \in Nat, NEW request \in BOOLEAN
  PROVE  Step(m, dt, request) \in Machine
<1>1. m.phase \in Phases /\ m.elapsed \in Nat /\ m.next \in Axes
  BY DEF Machine
<1> DEFINE aged == [m EXCEPT !.elapsed = @ + dt]
<1>2. aged = [phase |-> m.phase, elapsed |-> m.elapsed + dt, next |-> m.next] /\ aged \in Machine
  BY <1>1 DEF Machine
<1>3. \A p \in Phases : Enter(aged, p) \in Machine
  BY <1>1, <1>2 DEF Enter, Machine
<1>4. AllRed \in Phases /\ GreenFor(aged.next) \in Phases
  BY DEF Phases, AllRed, GreenFor
<1>5. IsGreen(aged.phase) => LeaveGreen(aged) \in Machine
  <2>1. LeaveGreen(aged) = [phase |-> YellowFor(AxisOf(m.phase)), elapsed |-> 0,
                            next |-> OtherAxis(AxisOf(m.phase))]
    <3> HIDE DEF aged
    <3> DEFINE turned == [aged EXCEPT !.next = OtherAxis(AxisOf(aged.phase))]
    <3>1. turned = [phase |-> m.phase, elapsed |-> m.elapsed + dt, next |-> OtherAxis(AxisOf(m.phase))]
      BY <1>2
    <3>2. LeaveGreen(aged) = Enter(turned, YellowFor(AxisOf(m.phase)))
      BY <1>2 DEF LeaveGreen
    <3> HIDE DEF turned
    <3> QED BY <3>1, <3>2 DEF Enter
  <2>2. YellowFor(AxisOf(m.phase)) \in Phases /\ OtherAxis(AxisOf(m.phase)) \in Axes
    BY DEF YellowFor, Phases, OtherAxis, Axes
  <2> QED BY <2>1, <2>2 DEF Machine
<1> QED
  BY <1>2, <1>3, <1>4, <1>5 DEF Step, AfterYellow

(***************************************************************************)
(* A tick of the signal, whoever drives it, finds every queue empty, and   *)
(* its announcement is all that is queued after it.                        *)
(***************************************************************************)
LEMMA TickFacts ==
  ASSUME IInv, loop = "tick", NEW request \in BOOLEAN, NEW after,
         after = Step(machine, Dt, request), machine' = after,
         queue' = Handled(Nobody, Announced(machine.phase, after.phase)),
         UNCHANGED <<deployment, round, remembered, decided, narrator, desired, obeyed, probed, snapshot>>
  PROVE  /\ Signalling /\ NarratorInv' /\ machine' \in Machine /\ round > 0
         /\ \A c \in Workers : Taken(c) /\ (c[2] # "signal" => Taken(c)')
         /\ Workers' = Workers /\ Subscriptions' = Subscriptions
         /\ deployment = "fleet" =>
              LET pending == queue'[<<"dashboard", "signal">>] IN
              machine'.phase = IF pending = <<>> THEN snapshot["signal"][2] ELSE Last(pending)[2]
<1> DEFINE announced == Announced(machine.phase, after.phase)
<1>1. machine \in Machine /\ after \in Machine /\ after.phase \in Phases
      /\ round \in Nat /\ round > 0
  <2>1. machine \in Machine /\ Dt \in Nat
    BY LoopAssumption DEF IInv, LampsInv
  <2>2. after \in Machine
    BY <2>1, StepTyped
  <2> QED BY <2>1, <2>2 DEF Machine, IInv, DriverTyped
<1>2. \A c \in Workers : Taken(c) /\ queue[c] = <<>>
  BY DEF IInv, LoopInv, Taken
<1>3. \/ after.phase # machine.phase /\ announced = <<"signal", <<round, after.phase>> >>
      \/ after.phase = machine.phase /\ announced = <<"none", Nothing>>
  BY DEF Announced, NoEvent
<1>4. ASSUME NEW c \in Workers
      PROVE  queue'[c] = IF c[2] = "signal" /\ after.phase # machine.phase
                         THEN << <<round, after.phase>> >> ELSE <<>>
  <2>1. c = <<c[1], c[2]>> /\ c[2] # "none"
    BY KindFacts DEF IInv
  <2>2. c # Nobody
    BY <2>1 DEF Nobody
  <2>3. queue'[c] = queue[c] \o (IF c[2] = announced[1] THEN <<announced[2]>> ELSE <<>>)
    BY <2>2 DEF Handled
  <2> DEFINE event == <<round, after.phase>>
  <2>4. <<>> \o <<event>> = <<event>> /\ <<>> \o <<>> = <<>>
    OBVIOUS
  <2>5. CASE after.phase # machine.phase /\ announced = <<"signal", event>>
    <3> HIDE DEF announced
    <3> QED BY <1>2, <2>3, <2>4, <2>5
  <2>6. CASE after.phase = machine.phase /\ announced = <<"none", Nothing>>
    <3> HIDE DEF announced
    <3> QED BY <1>2, <2>1, <2>3, <2>4, <2>6
  <2> QED BY <1>3, <2>5, <2>6
<1>5. Signalling
  <2>1. queue' = [c \in Workers |-> queue'[c]]
    BY DEF Handled
  <2>2. \A c \in Workers : IF c[2] = "signal" THEN queue'[c] \in Seq(Nat \X Phases)
                           ELSE queue'[c] = queue[c]
    <3>1. << <<round, after.phase>> >> \in Seq(Nat \X Phases) /\ <<>> \in Seq(Nat \X Phases)
      BY <1>1
    <3> QED BY <1>2, <1>4, <3>1
  <2> QED BY <2>1, <2>2 DEF Signalling, Ending, narrator, IInv, DashboardInv
<1>6. /\ NarratorInv' /\ Workers' = Workers /\ Subscriptions' = Subscriptions
      /\ \A c \in Workers : c[2] # "signal" => (Taken(c)' <=> Taken(c))
  BY <1>5, SignallingFacts DEF narrator
<1>7. ASSUME deployment = "fleet"
      PROVE  LET pending == queue'[<<"dashboard", "signal">>] IN
             machine'.phase = IF pending = <<>> THEN snapshot["signal"][2] ELSE Last(pending)[2]
  <2> DEFINE c == <<"dashboard", "signal">>
             event == <<round, after.phase>>
  <2>1. c \in Workers /\ c[2] = "signal"
    BY <1>7, KindFacts DEF IInv, Shown
  <2>2. machine.phase = snapshot["signal"][2]
    BY <1>2, <1>7, <2>1 DEF IInv, LampsInv, LampsKnown
  <2>3. <<event>> # <<>> /\ Last(<<event>>) = event /\ event[2] = after.phase
    BY DEF Last
  <2> QED BY <1>4, <2>1, <2>2, <2>3
<1> QED
  BY <1>1, <1>2, <1>5, <1>6, <1>7

LEMMA TickStep ==
  ASSUME IInv, Tick
  PROVE  IInv'
<1> DEFINE request == AxisOf(machine.phase) \notin {desired, NoAxis}
           after   == Step(machine, Dt, request)
<1>1. /\ deployment = "fleet" /\ loop = "tick" /\ loop' = "sleep"
      /\ request \in BOOLEAN /\ machine' = after
      /\ queue' = Handled(Nobody, Announced(machine.phase, after.phase))
      /\ twin' = TwinAfter(machine.phase, after.phase)
      /\ step' = IF AtHorizon THEN 0 ELSE step + 1
      /\ UNCHANGED <<deployment, joining, round, remembered, decided, narrator, desired, obeyed, probed, view,
                     snapshot>>
  BY DEF Tick, demo
<1> HIDE DEF request, after
<1>2. /\ Signalling /\ NarratorInv' /\ machine' \in Machine /\ round > 0
      /\ \A c \in Workers : c[2] # "signal" => Taken(c)'
      /\ Workers' = Workers /\ Subscriptions' = Subscriptions
      /\ LET pending == queue'[<<"dashboard", "signal">>] IN
         machine'.phase = IF pending = <<>> THEN snapshot["signal"][2] ELSE Last(pending)[2]
  BY <1>1, TickFacts DEF after
<1>3. DriverTyped'
  BY <1>1, <1>2, LoopAssumption DEF IInv, DriverTyped, AtHorizon
<1>4. LoopInv'
  BY <1>1, <1>2 DEF LoopInv, Ending
<1>5. LampsInv'
  <2>1. twin' \in Phases /\ (twin' # machine'.phase => step' = 0)
    BY <1>1, <1>2 DEF TwinAfter, Machine, Phases, GreenFor
  <2> QED BY <1>1, <1>2, <2>1 DEF LampsInv, LampsKnown
<1> QED
  BY <1>2, <1>3, <1>4, <1>5, SignallingPreserves

LEMMA DemoTickStep ==
  ASSUME IInv, DemoTick
  PROVE  IInv'
<1> DEFINE request == AxisOf(machine.phase) \notin {desired, NoAxis}
           after   == Step(machine, Dt, request)
<1>1. /\ deployment = "demo" /\ loop = "tick"
      /\ request \in BOOLEAN /\ machine' = after
      /\ queue' = Handled(Nobody, Announced(machine.phase, after.phase))
      /\ twin' = after.phase /\ view' = [decision |-> probed.decision, signal |-> after.phase]
      /\ IF step + 1 = TotalSteps THEN loop' = "stopping" /\ UNCHANGED step
                                  ELSE loop' = "publish" /\ step' = step + 1
      /\ UNCHANGED <<deployment, joining, round, remembered, decided, narrator, desired, obeyed, probed, snapshot>>
  BY DEF DemoTick, Viewed
<1> HIDE DEF request, after
<1>2. /\ Signalling /\ NarratorInv' /\ machine' \in Machine /\ round > 0
      /\ \A c \in Workers : Taken(c) /\ (c[2] # "signal" => Taken(c)')
      /\ Workers' = Workers /\ Subscriptions' = Subscriptions
  BY <1>1, TickFacts DEF after
<1>3. DriverTyped'
  BY <1>1, <1>2, LoopAssumption DEF IInv, DriverTyped
<1>4. LoopInv'
  BY <1>1, <1>2 DEF LoopInv, Ending
<1>5. LampsInv'
  <2>1. probed.decision = intent /\ intent' = intent
    BY <1>1, <1>2, KindFacts DEF IInv, DemoInv, Ending, decided
  <2>2. twin' \in Phases
    BY <1>1, <1>2 DEF Machine
  <2> QED BY <1>1, <1>2, <2>1, <2>2 DEF LampsInv, LampsKnown
<1> QED
  BY <1>2, <1>3, <1>4, <1>5, SignallingPreserves

(***************************************************************************)
(* Publishing a state opens a round: every queue was empty, and of the new *)
(* round nothing has been made.                                            *)
(***************************************************************************)
LEMMA PublishStateStep ==
  ASSUME IInv, PublishState
  PROVE  IInv'
<1>1. /\ loop = "publish" /\ round < MaxRounds /\ round' = round + 1
      /\ queue' = Handled(Nobody, <<"state", <<round + 1>> >>)
      /\ loop' = "join" /\ joining' = 1
      /\ UNCHANGED <<deployment, step, twin, remembered, forecast, intent, basis, narratorForecast, narrating,
                     desired, machine, obeyed, probed, view, snapshot>>
  BY DEF PublishState, agents, decided, narrator, control, demo
<1>2. Workers' = Workers /\ Subscriptions' = Subscriptions /\ ~Ending /\ ~Ending' /\ round \in Nat
  BY <1>1 DEF Workers, Subscriptions, Ending, IInv, DriverTyped
<1>3. \A c \in Workers : c[2] # "signal" => Taken(c) /\ queue[c] = <<>>
  BY <1>1 DEF IInv, LoopInv, Taken
<1>4. queue' = [c \in Workers |-> IF c[2] = "state" THEN << <<round + 1>> >> ELSE queue[c]]
  <2> SUFFICES ASSUME NEW c \in Workers
               PROVE  (IF c = Nobody THEN Tail(queue[c]) ELSE queue[c])
                        \o (IF c[2] = "state" /\ loop # "stopping" THEN << <<round + 1>> >> ELSE <<>>)
                      = IF c[2] = "state" THEN << <<round + 1>> >> ELSE queue[c]
    BY <1>1 DEF Handled
  <2>1. c # Nobody
    BY KindFacts DEF IInv, Nobody
  <2> DEFINE event == <<round + 1>>
  <2>2. <<>> \o <<event>> = <<event>> /\ <<>> \o <<>> = <<>>
    OBVIOUS
  <2>3. c[2] = "signal" => queue[c] \o <<>> = queue[c]
    BY DEF IInv, QueueInv
  <2> QED BY <1>1, <1>3, <2>1, <2>2, <2>3
<1>5. \A c \in Workers : /\ c[2] = "state" => queue'[c] = << <<round + 1>> >>
                         /\ c[2] = "signal" => queue'[c] = queue[c]
                         /\ c[2] \notin {"state", "signal"} => queue'[c] = <<>>
  BY <1>3, <1>4
<1>6. ~Made("forecast")' /\ ~Made("decision")' /\ ~Made("explanation")'
      /\ \A c \in Workers : c[2] = "state" => ~Taken(c)'
  <2>1. << <<round + 1>> >> # <<>>
    OBVIOUS
  <2>2. \A c \in Workers : c[2] = "state" => queue'[c] # <<>>
    BY <1>5, <2>1
  <2>3. queue'[<<"prediction", "state">>] # <<>> /\ queue'[<<"decision", "state">>] # <<>>
    BY <2>2, KindFacts DEF IInv
  <2> QED BY <2>2, <2>3 DEF Made, Taken
<1>7. /\ <<"memory", "state">> \in Workers /\ Made("decision")
      /\ \A c \in {<<"memory", "state">>, <<"decision", "forecast">>, <<"signal", "decision">>} :
           Taken(c) /\ ~Taken(c)'
  <2>1. /\ \A c \in {<<"memory", "state">>, <<"decision", "forecast">>, <<"signal", "decision">>} :
             c \in Workers /\ Taken(c)
        /\ <<"memory", "state">> \in Workers
    BY <1>3, KindFacts DEF IInv
  <2>2. Made("decision")
    BY <2>1 DEF Taken
  <2> QED BY <1>6, <2>1, <2>2 DEF Taken
<1>8. DriverTyped'
  <2>1. Len(Subscriptions) \in Nat \ {0}
    BY KindFacts DEF IInv
  <2>2. 1 \in 0..(3 * Len(Subscriptions)) /\ round + 1 \in 0..MaxRounds
    BY <1>1, <1>2, <2>1, LoopAssumption
  <2> QED BY <1>1, <1>2, <2>2 DEF IInv, DriverTyped, Joins
<1>9. QueueInv'
  <2>1. ASSUME NEW c \in Workers
        PROVE  IF c[2] = "signal" THEN queue'[c] \in Seq(Nat \X Phases)
               ELSE queue'[c] = <<>> \/ (queue'[c] = <<Latest(c[2])'>> /\ Made(c[2])' /\ round' > 0)
    <3>1. CASE c[2] = "signal"
      BY <1>5, <3>1 DEF IInv, QueueInv
    <3>2. CASE c[2] = "state"
      BY <1>1, <1>2, <1>5, <3>2 DEF Latest, Made
    <3>3. CASE c[2] \notin {"state", "signal"}
      BY <1>5, <3>3
    <3> QED BY <3>1, <3>2, <3>3
  <2>2. \A c \in Workers' :
          IF c[2] = "signal" THEN queue'[c] \in Seq(Nat \X Phases)
          ELSE queue'[c] = <<>> \/ (queue'[c] = <<Latest(c[2])'>> /\ Made(c[2])' /\ round' > 0)
    BY <1>2, <2>1
  <2>3. queue' = [c \in Workers' |-> queue'[c]]
    BY <1>2, <1>4
  <2> QED BY <2>2, <2>3 DEF QueueInv, Latest, Made
<1>10. AgentInv'
  <2>1. /\ intent \in {Nothing} \cup ((1..round) \X Axes) /\ intent[1] = round
        /\ obeyed \in {Nothing} \cup ((1..round) \X Axes) /\ desired \in Axes
        /\ forecast \in 0..round /\ forecast = round
        /\ basis \in 0..round /\ basis >= intent[1] - 1
        /\ remembered = [n \in 1..round |-> n]
    BY <1>2, <1>7 DEF IInv, AgentInv
  <2>2. ~Taken(<<"memory", "state">>)' /\ ~Taken(<<"decision", "forecast">>)' /\ ~Taken(<<"signal", "decision">>)'
    BY <1>7
  <2> QED BY <1>1, <1>2, <1>6, <2>1, <2>2 DEF AgentInv
<1>11. NarratorInv'
  <2>1. ASSUME deployment = "fleet"
        PROVE  /\ queue[<<"explainability", "decision">>] = <<>> /\ narratorForecast = round
               /\ ~Taken(<<"explainability", "forecast">>)'
    <3>1. /\ queue[<<"explainability", "decision">>] = <<>>
          /\ Taken(<<"explainability", "forecast">>)
      BY <1>3, <2>1, KindFacts DEF IInv
    <3> QED BY <1>2, <1>6, <2>1, <3>1 DEF IInv, NarratorInv, Taken
  <2> QED BY <1>1, <1>2, <2>1 DEF IInv, NarratorInv
<1>12. DashboardInv'
  <2>1. \A f \in Shown \ {"signal"} : deployment = "fleet" => ~Taken(<<"dashboard", f>>)'
    <3> SUFFICES ASSUME NEW f \in Shown \ {"signal"}, deployment = "fleet"
                 PROVE  ~Taken(<<"dashboard", f>>)'
      OBVIOUS
    <3>1. <<"dashboard", f>> \in Workers
      BY KindFacts DEF IInv
    <3> QED BY <1>6, <3>1 DEF Taken, Shown
  <2> QED BY <1>1, <2>1 DEF IInv, DashboardInv
<1>13. DemoInv'
  <2>1. ~Taken(<<"probe", "decision">>)' /\ ~Taken(<<"probe", "forecast">>)'
    BY <1>6 DEF Taken
  <2>2. ASSUME deployment = "demo" PROVE probed.decisions = round /\ probed.forecasts = round
    BY <1>2, <1>3, <2>2, KindFacts DEF IInv, DemoInv
  <2> QED BY <1>1, <1>2, <2>1, <2>2 DEF IInv, DemoInv
<1>14. LoopInv'
  <2>1. \A p \in DOMAIN Subscriptions : ~(1 > (IF deployment = "demo" /\ p <= 2 THEN p + 7 ELSE p))
    BY KindFacts DEF IInv
  <2> QED BY <1>1, <1>2, <2>1 DEF LoopInv, JoinedTaken
<1>15. LampsInv'
  <2>1. deployment = "fleet" => queue'[<<"dashboard", "signal">>] = queue[<<"dashboard", "signal">>]
    BY <1>5, KindFacts DEF IInv, Shown
  <2> QED BY <1>1, <2>1 DEF IInv, LampsInv, LampsKnown
<1> QED
  BY <1>8, <1>9, <1>10, <1>11, <1>12, <1>13, <1>14, <1>15 DEF IInv

LEMMA Initially ==
  ASSUME Init
  PROVE  IInv
<1>1. /\ deployment \in {"fleet", "demo"} /\ loop = "publish" /\ joining = 0 /\ round = 0 /\ step = 0
      /\ queue = [c \in Workers |-> IF c[2] = "signal" THEN <<FirstSignal>> ELSE <<>>]
      /\ probed = [decision |-> Nothing, decisions |-> 0, forecasts |-> 0]
      /\ twin = GreenFor(NorthSouth) /\ machine = StartedAt(NorthSouth)
      /\ snapshot = [f \in Fields \cup {"mode"} |-> IF f = "mode" THEN "ai" ELSE Nothing]
  BY DEF Init, DashboardInit
<1>2. DriverTyped
  <2>1. CASE deployment = "fleet"
    BY <1>1, <2>1, FleetWorkers, LoopAssumption DEF DriverTyped, Joins
  <2>2. CASE deployment = "demo"
    BY <1>1, <2>2, DemoWorkers, LoopAssumption DEF DriverTyped, Joins
  <2> QED BY <1>1, <2>1, <2>2
<1>3. \A c \in Workers : c[2] # "signal" => queue[c] = <<>>
  BY <1>1
<1>4. \A k : k # "explanation" \/ deployment = "fleet" => Made(k)
  <2>1. /\ <<"prediction", "state">> \in Workers /\ <<"decision", "state">> \in Workers
        /\ deployment = "fleet" => <<"explainability", "decision">> \in Workers
    BY <1>2, KindFacts
  <2> QED BY <1>3, <2>1 DEF Made
<1>5. \A c \in Workers : c[2] # "signal" => Taken(c)
  <2>1. \A c \in Workers : c[2] = "explanation" => deployment = "fleet"
    BY <1>2, KindFacts
  <2> QED BY <1>3, <1>4, <2>1 DEF Taken
<1>6. AllRed \in Phases /\ GreenFor(NorthSouth) = "ns_green" /\ "ns_green" \in Phases
      /\ NorthSouth \in Axes /\ EastWest \in Axes /\ OtherAxis(NorthSouth) = EastWest
  BY DEF Phases, AllRed, GreenFor, Axes, OtherAxis
<1>7. FirstSignal \in Nat \X Phases /\ FirstSignal[2] = "ns_green"
  BY <1>6 DEF FirstSignal
<1>8. QueueInv
  <2>1. <<FirstSignal>> \in Seq(Nat \X Phases)
    BY <1>7
  <2> QED BY <1>1, <2>1 DEF QueueInv
<1>9. AgentInv
  <2>1. remembered = <<>> /\ forecast = 0 /\ desired = NorthSouth /\ intent = Nothing /\ basis = 0
        /\ obeyed = Nothing
    BY DEF Init
  <2>2. Made("decision") /\ Taken(<<"memory", "state">>)
    BY <1>2, <1>4, <1>5, KindFacts
  <2>3. [n \in 1..0 |-> n] = <<>>
    OBVIOUS
  <2>4. Nothing[1] = 0
    BY DEF Nothing
  <2> QED BY <1>1, <1>6, <2>1, <2>2, <2>3, <2>4 DEF AgentInv
<1>10. NarratorInv
  <2>1. narratorForecast = 0 /\ narrating = FALSE
    BY DEF Init
  <2>2. narrating \in BOOLEAN /\ ~narrating
    BY <2>1
  <2>3. narratorForecast \in 0..round /\ narratorForecast >= round - 1 /\ narratorForecast = round
    BY <1>1, <2>1
  <2> QED BY <2>2, <2>3 DEF NarratorInv
<1>11. DashboardInv
  BY <1>1 DEF DashboardInv, Nothing, Fields, Shown
<1>12. DemoInv
  BY <1>1, <1>2, <1>5, KindFacts DEF Init, DemoInv, Nothing
<1>13. LoopInv
  BY <1>1, <1>5 DEF LoopInv, Ending
<1>14. LampsInv
  <2>1. machine \in Machine /\ machine.phase = "ns_green"
    BY <1>1, <1>6 DEF StartedAt, Machine
  <2>2. deployment = "fleet" => queue[<<"dashboard", "signal">>] = <<FirstSignal>>
    BY <1>1, <1>2, KindFacts DEF Shown
  <2>3. <<FirstSignal>> # <<>> /\ Last(<<FirstSignal>>) = FirstSignal
    BY DEF Last
  <2>4. twin = "ns_green"
    BY <1>1, <1>6
  <2> DEFINE pending == queue[<<"dashboard", "signal">>]
  <2>5. deployment = "fleet" => pending # <<>> /\ Last(pending)[2] = machine.phase
    BY <1>7, <2>1, <2>2, <2>3
  <2>6. ~(round > 0) /\ twin = machine.phase
    BY <1>1, <2>1, <2>4
  <2>7. LampsKnown
    BY <2>5, <2>6 DEF LampsKnown
  <2> QED BY <1>6, <2>1, <2>4, <2>7 DEF LampsInv
<1> QED
  BY <1>2, <1>8, <1>9, <1>10, <1>11, <1>12, <1>13, <1>14 DEF IInv

-----------------------------------------------------------------------------
LEMMA NextPreserves ==
  ASSUME IInv, [Next]_vars
  PROVE  IInv'
<1>1. CASE Drive
  BY <1>1, PublishStateStep, JoinStep, TickStep, DemoTickStep, WakeStep, StopBusStep, StoppedStep DEF Drive
<1>2. CASE Cancel
  BY <1>2, CancelStep
<1>3. CASE Work
  <2>1. ASSUME NEW field \in Shown, Show(field) PROVE IInv'
    <3>1. CASE field = "signal"
      BY <2>1, <3>1, ShowSignalStep
    <3>2. CASE field # "signal"
      BY <2>1, <3>2, ShowStep
    <3> QED BY <3>1, <3>2
  <2>2. CASE FallBack
    BY <2>2, ExplainStep DEF FallBack
  <2> QED BY <1>3, <2>1, <2>2, RememberStep, PredictStep, LearnForecastStep, DecideStep, ObeyStep,
             NoteForecastStep, StartNarratingStep, ProbeDecisionStep, ProbeForecastStep DEF Work
<1>4. CASE Narrate
  BY <1>4, ExplainStep DEF Narrate
<1>5. CASE UNCHANGED vars
  <2>1. UNCHANGED <<deployment, loop, joining, round, step, twin, queue, agents>>
    BY <1>5 DEF vars, driver
  <2>2. DriverTyped' /\ LoopInv'
    <3>1. Workers' = Workers /\ Subscriptions' = Subscriptions /\ \A c : Taken(c)' <=> Taken(c)
      BY <2>1, SameQueues
    <3>2. DriverTyped'
      BY <2>1, <3>1 DEF IInv, DriverTyped
    <3>3. JoinedTaken' <=> JoinedTaken
      BY <2>1, <3>1 DEF JoinedTaken, Taken, Made
    <3> QED BY <2>1, <3>1, <3>2, <3>3 DEF IInv, LoopInv, Ending
  <2> QED BY <2>1, <2>2, LoopOnly DEF Ending
<1> QED
  BY <1>1, <1>2, <1>3, <1>4, <1>5 DEF Next

(***************************************************************************)
(* The inductive invariant of the round: what was made of it can be read   *)
(* off the queues, every agent has the data of this round once it has      *)
(* handled its event and of the round before until then, and the joins     *)
(* that have returned leave nothing behind them.                           *)
(***************************************************************************)
THEOREM RoundInvariant == Spec => []IInv
<1>1. Init => IInv
  BY Initially
<1>2. IInv /\ [Next]_vars => IInv'
  BY NextPreserves
<1> QED
  BY <1>1, <1>2, PTL DEF Spec

(***************************************************************************)
(* The state of the loop and of its agents has the types the code gives    *)
(* it: the step stays within the horizon, no agent has a forecast or a     *)
(* decision of a round that has not begun.                                 *)
(***************************************************************************)
THEOREM TypeCorrect == Spec => []TypeOK
<1>1. IInv => TypeOK
  <2> SUFFICES ASSUME IInv PROVE TypeOK
    OBVIOUS
  <2>1. /\ intent \in {Nothing} \cup ((1..round) \X Axes) /\ obeyed \in {Nothing} \cup ((1..round) \X Axes)
        /\ forecast \in 0..round /\ basis \in 0..round /\ desired \in Axes
    BY DEF IInv, AgentInv
  <2>2. narratorForecast \in 0..round /\ narrating \in BOOLEAN
    BY DEF IInv, NarratorInv
  <2>3. machine \in Machine /\ twin \in Phases
    BY DEF IInv, LampsInv
  <2> QED BY <2>1, <2>2, <2>3 DEF IInv, DriverTyped, TypeOK
<1> QED
  BY <1>1, RoundInvariant, PTL

(***************************************************************************)
(* The signal is never ticked on old data: when the loop gets to its tick, *)
(* the decision obeyed, the forecast, the memory, the dashboard and the    *)
(* probes are those of the state just published.  The order of the joins   *)
(* and the number of their rounds are what makes it so.                    *)
(***************************************************************************)
THEOREM DecidesOnLatest == Spec => []TicksOnLatest
<1>1. IInv => TicksOnLatest
  <2> SUFFICES ASSUME IInv, loop = "tick"
               PROVE  /\ obeyed = intent /\ intent[1] = round
                      /\ forecast = round
                      /\ remembered = [n \in 1..round |-> n]
                      /\ deployment = "fleet" =>
                           /\ \A field \in Shown \ {"signal"} : snapshot[field][1] = round
                           /\ snapshot.signal[2] = machine.phase
                      /\ deployment = "demo" =>
                           probed = [decision |-> intent, decisions |-> round, forecasts |-> round]
    BY DEF TicksOnLatest
  <2>1. (\A c \in Workers : Taken(c)) /\ ~Ending
    BY DEF IInv, LoopInv, Ending
  <2>2. /\ Taken(<<"memory", "state">>) /\ Taken(<<"decision", "forecast">>)
        /\ Taken(<<"signal", "decision">>)
    BY <2>1, KindFacts DEF IInv
  <2>3. Made("decision")
    BY <2>2 DEF Taken
  <2>4. obeyed = intent /\ intent[1] = round /\ forecast = round /\ remembered = [n \in 1..round |-> n]
    BY <2>1, <2>2, <2>3 DEF IInv, AgentInv
  <2>5. ASSUME deployment = "fleet"
        PROVE  /\ \A field \in Shown \ {"signal"} : snapshot[field][1] = round
               /\ snapshot.signal[2] = machine.phase
    <3>1. \A field \in Shown : Taken(<<"dashboard", field>>)
      BY <2>1, <2>5, KindFacts DEF IInv
    <3>2. queue[<<"dashboard", "signal">>] = <<>>
      BY <3>1 DEF Taken, Shown
    <3> QED BY <2>1, <2>5, <3>1, <3>2 DEF IInv, DashboardInv, LampsInv, LampsKnown
  <2>6. ASSUME deployment = "demo"
        PROVE  probed = [decision |-> intent, decisions |-> round, forecasts |-> round]
    <3>1. Taken(<<"probe", "decision">>) /\ Taken(<<"probe", "forecast">>)
      BY <2>1, <2>6, KindFacts DEF IInv
    <3> QED BY <2>1, <2>6, <3>1 DEF IInv, DemoInv
  <2> QED BY <2>4, <2>5, <2>6
<1> QED
  BY <1>1, RoundInvariant, PTL

(***************************************************************************)
(* However prediction and decision race within a round, the forecast a     *)
(* decision is based on, and the one its explanation cites, is at most one *)
(* round old.                                                              *)
(***************************************************************************)
THEOREM ForecastIsCurrent == Spec => []ForecastCurrent
<1>1. IInv => ForecastCurrent
  <2> SUFFICES ASSUME IInv PROVE ForecastCurrent
    OBVIOUS
  <2>1. basis >= intent[1] - 1
    BY DEF IInv, AgentInv
  <2>2. ASSUME narrating
        PROVE  narratorForecast >= Number(<<"explainability", "decision">>) - 1
    <3>1. deployment = "fleet" /\ queue[Explaining] # <<>> /\ narratorForecast >= round - 1
      BY <2>2 DEF IInv, NarratorInv, Explaining
    <3>2. Explaining \in Workers /\ Explaining[2] = "decision"
      BY <3>1, KindFacts DEF IInv, Explaining
    <3>3. queue[Explaining] = <<intent>> /\ Made("decision")
      BY <3>1, <3>2 DEF IInv, QueueInv, Latest
    <3>4. Number(Explaining) = round
      BY <3>3 DEF Number, IInv, AgentInv
    <3> QED BY <3>1, <3>4 DEF Explaining
  <2> QED BY <2>1, <2>2 DEF ForecastCurrent
<1> QED
  BY <1>1, RoundInvariant, PTL

(***************************************************************************)
(* The twin, the dashboard and the demonstration's view know what the      *)
(* lamps show, between any two steps of the loop and while the bus stops.  *)
(***************************************************************************)
THEOREM LampsAreKnown == Spec => []LampsKnown
<1>1. IInv => LampsKnown
  BY DEF IInv, LampsInv
<1> QED
  BY <1>1, RoundInvariant, PTL
=============================================================================
