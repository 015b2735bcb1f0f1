-------------------------- MODULE Roadside_proofs --------------------------
(***************************************************************************)
(* The safety properties of the two components at the roadside, the        *)
(* controller of the lamps and the camera's perception: of                 *)
(* SignalController for every choice of the durations, of the longest tick *)
(* and of the initial axis, of Perception for any number of vehicles and   *)
(* of frames.                                                              *)
(***************************************************************************)
EXTENDS SignalController, Perception, SequenceLemmas, TLAPS

(***************************************************************************)
(* The signal controller's inductive invariant. None of the bounds is      *)
(* inductive on its own: a wait is bounded because each phase it spans is, *)
(* so the invariant says for each phase how much of the wait can have gone *)
(* by when it began, and that the lamps and the history clocks run with    *)
(* the machine.                                                            *)
(***************************************************************************)
InStep ==
  /\ shown = fsm.phase
  /\ held = fsm.elapsed
  /\ signal = BuildSignal(fsm)

\* A state between two ticks has not yet reached the end of its phase.
InPhase == fsm.elapsed + MaxDt <= Longest(Budget(fsm.phase))

WaitInv ==
  \A a \in Axes : LET b == OtherAxis(a) IN
    /\ shown = GreenFor(a) =>
         /\ wait[a] <= MaxWait
         /\ wait[b] >= YellowTime + AllRedTime
         /\ wait[b] <= Clearing + held
    /\ shown = YellowFor(a) =>
         /\ fsm.next = b
         /\ wait[a] = held
         /\ wait[b] <= Clearing + Longest(MaxGreen) + held
    /\ shown = AllRed /\ fsm.next = b =>
         /\ wait[a] >= YellowTime + held
         /\ wait[a] <= Longest(YellowTime) + held
         /\ wait[b] <= Clearing + Longest(MaxGreen) + Longest(YellowTime) + held

AskInv ==
  LET other == OtherAxis(desired) IN
    /\ shown = GreenFor(desired) => asked <= MaxAsk
    /\ shown = YellowFor(desired) => asked <= held
    /\ shown = AllRed /\ fsm.next = other => asked <= Longest(YellowTime) + held
    /\ shown = GreenFor(other) =>
         /\ asked <= Clearing + held
         /\ held >= MinGreen => asked = 0
    /\ shown = YellowFor(other) => asked <= Clearing + Longest(MinGreen) + held
    /\ shown = AllRed /\ fsm.next = desired =>
         asked <= Clearing + Longest(MinGreen) + Longest(YellowTime) + held

AnnounceInv ==
  /\ loop \in {"starting", "publishing"} => inFlight = shown
  /\ loop = "ready" => announced = shown

IInv == TypeOK /\ InStep /\ InPhase /\ WaitInv /\ AskInv /\ AnnounceInv /\ NoViolations

-----------------------------------------------------------------------------
(***************************************************************************)
(* The vocabulary, axis by axis.                                           *)
(***************************************************************************)
LEMMA AxisFacts ==
  ASSUME NEW a \in Axes
  PROVE  /\ OtherAxis(a) \in Axes
         /\ OtherAxis(a) # a
         /\ OtherAxis(OtherAxis(a)) = a
         /\ \A b \in Axes : b = a \/ b = OtherAxis(a)
         /\ a # NoAxis
BY DEF Axes, OtherAxis, NorthSouth, EastWest, NoAxis

LEMMA PhaseFacts ==
  ASSUME NEW a \in Axes
  PROVE  /\ GreenFor(a) \in Phases /\ YellowFor(a) \in Phases /\ AllRed \in Phases
         /\ IsGreen(GreenFor(a)) /\ ~IsGreen(YellowFor(a)) /\ ~IsGreen(AllRed)
         /\ IsYellow(YellowFor(a)) /\ ~IsYellow(GreenFor(a)) /\ ~IsYellow(AllRed)
         /\ AxisOf(GreenFor(a)) = a /\ AxisOf(YellowFor(a)) = a /\ AxisOf(AllRed) = NoAxis
         /\ GreenFor(a) # AllRed /\ YellowFor(a) # AllRed
         /\ \A b \in Axes : /\ GreenFor(a) # YellowFor(b)
                            /\ GreenFor(a) = GreenFor(b) => a = b
                            /\ YellowFor(a) = YellowFor(b) => a = b
BY DEF Axes, NorthSouth, EastWest, NoAxis, GreenFor, YellowFor, AllRed, Phases, AxisOf,
       IsGreen, IsYellow

LEMMA PhaseCases ==
  ASSUME NEW p \in Phases
  PROVE  p = AllRed \/ \E a \in Axes : p = GreenFor(a) \/ p = YellowFor(a)
BY DEF Axes, NorthSouth, EastWest, GreenFor, YellowFor, AllRed, Phases

(***************************************************************************)
(* Longest(limit) is what it says: a tick that starts short of the limit   *)
(* ends within it.                                                         *)
(***************************************************************************)
LEMMA LongestFacts ==
  ASSUME NEW limit \in Nat
  PROVE  /\ Longest(limit) \in Nat
         /\ Longest(limit) >= limit
         /\ MaxDt <= Longest(limit)
         /\ \A t \in Nat : t < limit => t + MaxDt <= Longest(limit)
BY ControllerAssumption DEF Longest

LEMMA BoundFacts ==
  /\ Clearing \in Nat /\ MaxWait \in Nat /\ MaxAsk \in Nat
  /\ Clearing = Longest(YellowTime) + Longest(AllRedTime)
  /\ MaxWait = Clearing + Longest(MaxGreen) + Clearing
  /\ MaxAsk = Clearing + Longest(MinGreen) + Clearing
  /\ Longest(YellowTime) \in Nat /\ Longest(AllRedTime) \in Nat
  /\ Longest(MinGreen) \in Nat /\ Longest(MaxGreen) \in Nat
  /\ Longest(YellowTime) >= YellowTime /\ Longest(AllRedTime) >= AllRedTime
BY SettingsAssumption, LongestFacts DEF Clearing, MaxWait, MaxAsk

-----------------------------------------------------------------------------
(***************************************************************************)
(* A tick, taken apart: it stays in the phase, or ends a green, a yellow   *)
(* or an all-red.                                                          *)
(***************************************************************************)
Stays(dt) ==
  /\ fsm' = [fsm EXCEPT !.elapsed = @ + dt]
  /\ InPhase'
  /\ IsGreen(fsm.phase) /\ fsm.elapsed + dt >= MinGreen => fsm.phase = GreenFor(desired)
  /\ UNCHANGED <<shown, loop, inFlight, violations>>

Enters(p, next) ==
  /\ fsm' = [phase |-> p, elapsed |-> 0, next |-> next]
  /\ shown' = p /\ inFlight' = p
  /\ loop' = "publishing"

EndsGreen(a, dt) ==
  /\ fsm.phase = GreenFor(a)
  /\ fsm.elapsed + dt >= MinGreen
  /\ Enters(YellowFor(a), OtherAxis(a))

EndsYellow(a, dt) ==
  /\ fsm.phase = YellowFor(a)
  /\ fsm.elapsed + dt >= YellowTime
  /\ Enters(AllRed, fsm.next)

EndsAllRed(a, dt) ==
  /\ fsm.phase = AllRed
  /\ fsm.next = a
  /\ fsm.elapsed + dt >= AllRedTime
  /\ Enters(GreenFor(a), a)

LEMMA TickCases ==
  ASSUME TypeOK, InStep, InPhase, NEW dt \in 1..MaxDt, Tick(dt)
  PROVE  \/ Stays(dt)
         \/ \E a \in Axes : EndsGreen(a, dt) \/ EndsYellow(a, dt) \/ EndsAllRed(a, dt)
<1> DEFINE e == fsm.elapsed + dt
           aged == [fsm EXCEPT !.elapsed = e]
<1>1. /\ fsm \in Machine /\ fsm.phase \in Phases /\ fsm.elapsed \in Nat /\ fsm.next \in Axes
      /\ desired \in Axes /\ dt \in Nat /\ e \in Nat /\ MaxDt \in Nat /\ dt <= MaxDt
      /\ fsm = [phase |-> fsm.phase, elapsed |-> fsm.elapsed, next |-> fsm.next]
  BY ControllerAssumption DEF TypeOK, Machine
<1>2. /\ fsm' = Step(fsm, dt, RequestSwitch)
      /\ aged = [phase |-> fsm.phase, elapsed |-> e, next |-> fsm.next]
  BY <1>1 DEF Tick, Machine
<1>3. fsm' = aged => UNCHANGED <<shown, loop, inFlight, violations>>
  BY <1>2 DEF Tick
<1>4. ASSUME NEW p, NEW n, p # fsm.phase, fsm' = [phase |-> p, elapsed |-> 0, next |-> n]
      PROVE  Enters(p, n)
  BY <1>4 DEF Tick, Enters
<1>5. CASE fsm.phase = AllRed
  <2>1. ~IsGreen(fsm.phase) /\ ~IsYellow(fsm.phase)
    BY <1>5 DEF AllRed, IsGreen, IsYellow
  <2>2. CASE e >= AllRedTime
    <3>1. fsm' = [phase |-> GreenFor(fsm.next), elapsed |-> 0, next |-> fsm.next]
      BY <1>1, <1>2, <2>1, <2>2 DEF Step, Enter
    <3>2. GreenFor(fsm.next) # fsm.phase
      BY <1>1, <1>5, PhaseFacts
    <3>3. QED
      BY <1>1, <1>4, <1>5, <2>2, <3>1, <3>2 DEF EndsAllRed
  <2>3. CASE ~(e >= AllRedTime)
    <3>1. fsm' = aged
      BY <1>1, <1>2, <2>1, <2>3 DEF Step
    <3>2. InPhase'
      <4>1. e + MaxDt <= Longest(AllRedTime)
        BY <1>1, <2>3, SettingsAssumption, LongestFacts
      <4>2. QED
        BY <1>2, <2>1, <3>1, <4>1 DEF InPhase, Budget
    <3>3. QED
      BY <1>3, <2>1, <3>1, <3>2 DEF Stays
  <2>4. QED
    BY <2>2, <2>3
<1>6. ASSUME NEW a \in Axes, fsm.phase = YellowFor(a)
      PROVE  Stays(dt) \/ EndsYellow(a, dt)
  <2>1. ~IsGreen(fsm.phase) /\ IsYellow(fsm.phase) /\ AllRed # fsm.phase
    BY <1>6, PhaseFacts
  <2>2. CASE e >= YellowTime
    <3>1. fsm' = [phase |-> AllRed, elapsed |-> 0, next |-> fsm.next]
      BY <1>1, <1>2, <2>1, <2>2 DEF Step, Enter, AfterYellow
    <3>2. QED
      BY <1>4, <1>6, <2>1, <2>2, <3>1 DEF EndsYellow
  <2>3. CASE ~(e >= YellowTime)
    <3>1. fsm' = aged
      BY <1>1, <1>2, <2>1, <2>3 DEF Step
    <3>2. InPhase'
      <4>1. e + MaxDt <= Longest(YellowTime)
        BY <1>1, <2>3, SettingsAssumption, LongestFacts
      <4>2. QED
        BY <1>2, <2>1, <3>1, <4>1 DEF InPhase, Budget
    <3>3. QED
      BY <1>3, <2>1, <3>1, <3>2 DEF Stays
  <2>4. QED
    BY <2>2, <2>3
<1>7. ASSUME NEW a \in Axes, fsm.phase = GreenFor(a)
      PROVE  Stays(dt) \/ EndsGreen(a, dt)
  <2>1. /\ IsGreen(fsm.phase) /\ AxisOf(fsm.phase) = a /\ a # NoAxis
        /\ YellowFor(a) # fsm.phase
    BY <1>7, PhaseFacts, AxisFacts
  <2>2. CASE MayLeaveGreen(e, RequestSwitch)
    <3>1. fsm' = [phase |-> YellowFor(a), elapsed |-> 0, next |-> OtherAxis(a)]
      BY <1>1, <1>2, <2>1, <2>2 DEF Step, LeaveGreen, Enter
    <3>2. e >= MinGreen
      BY <1>1, <2>2, SettingsAssumption DEF MayLeaveGreen
    <3>3. QED
      BY <1>4, <1>7, <2>1, <3>1, <3>2 DEF EndsGreen
  <2>3. CASE ~MayLeaveGreen(e, RequestSwitch)
    <3>1. fsm' = aged
      BY <1>1, <1>2, <2>1, <2>3 DEF Step
    <3>2. InPhase'
      <4>1. e + MaxDt <= Longest(MaxGreen)
        BY <1>1, <2>3, SettingsAssumption, LongestFacts DEF MayLeaveGreen
      <4>2. QED
        BY <1>2, <2>1, <3>1, <4>1 DEF InPhase, Budget
    <3>3. e >= MinGreen => fsm.phase = GreenFor(desired)
      BY <1>7, <2>1, <2>3 DEF MayLeaveGreen, RequestSwitch
    <3>4. QED
      BY <1>3, <3>1, <3>2, <3>3 DEF Stays
  <2>4. QED
    BY <2>2, <2>3
<1>8. QED
  BY <1>1, <1>5, <1>6, <1>7, PhaseCases

-----------------------------------------------------------------------------
LEMMA InitIInv == Init => IInv
<1> SUFFICES ASSUME Init PROVE IInv
  OBVIOUS
<1> DEFINE a == InitialAxis
<1>1. /\ a \in Axes /\ OtherAxis(a) \in Axes /\ fsm.phase = GreenFor(a)
      /\ fsm.elapsed = 0 /\ fsm.next = OtherAxis(a) /\ fsm \in Machine
      /\ shown = GreenFor(a) /\ held = 0 /\ asked = 0 /\ desired = a
      /\ loop = "off" /\ violations = 0
      /\ wait \in [Axes -> Nat] /\ wait[a] = 0
      /\ wait[OtherAxis(a)] = YellowTime + AllRedTime
  BY ControllerAssumption, SettingsAssumption, AxisFacts, PhaseFacts
     DEF Init, StartedAt, Machine
<1>2. IsGreen(fsm.phase) /\ Budget(fsm.phase) = MaxGreen
  BY <1>1, PhaseFacts DEF Budget
<1>3. TypeOK
  <2>1. signal = [phase |-> fsm.phase, elapsed |-> 0, remaining |-> MaxGreen]
    BY <1>1, <1>2, SettingsAssumption DEF Init, BuildSignal, Remaining
  <2>2. QED
    BY <1>1, <2>1, SettingsAssumption, PhaseFacts DEF Init, TypeOK, Loops, Machine
<1>4. InStep
  BY <1>1 DEF Init, InStep
<1>5. InPhase
  BY <1>1, <1>2, SettingsAssumption, ControllerAssumption, LongestFacts DEF InPhase
<1>6. WaitInv
  <2> SUFFICES ASSUME NEW c \in Axes, shown = GreenFor(c) \/ shown = YellowFor(c) \/ shown = AllRed
               PROVE  /\ shown = GreenFor(c)
                      /\ wait[c] <= MaxWait
                      /\ wait[OtherAxis(c)] >= YellowTime + AllRedTime
                      /\ wait[OtherAxis(c)] <= Clearing + held
    BY PhaseFacts DEF WaitInv
  <2>1. c = a /\ shown = GreenFor(c)
    BY <1>1, PhaseFacts
  <2>2. QED
    BY <1>1, <2>1, BoundFacts, SettingsAssumption
<1>7. AskInv
  BY <1>1, PhaseFacts, AxisFacts, BoundFacts, SettingsAssumption DEF AskInv
<1>8. AnnounceInv /\ NoViolations
  BY <1>1 DEF AnnounceInv, NoViolations
<1>9. QED
  BY <1>3, <1>4, <1>5, <1>6, <1>7, <1>8 DEF IInv

(***************************************************************************)
(* Steps that leave the machine, the lamps and the clocks alone: the life  *)
(* cycle of the loop and its publications.                                 *)
(***************************************************************************)
LEMMA LoopSteps ==
  ASSUME IInv, Start \/ StartDead \/ PublishDone \/ PublishFails \/ Stop
  PROVE  IInv'
<1>1. UNCHANGED <<fsm, desired, signal, shown, violations, held, wait, asked>>
  BY DEF Start, StartDead, PublishDone, PublishFails, Stop, timers
<1>2. TypeOK'
  BY <1>1 DEF IInv, TypeOK, Loops, InStep, Start, StartDead, PublishDone, PublishFails, Stop,
     NoPhase, BuildSignal, Machine
<1>3. AnnounceInv'
  BY <1>1 DEF IInv, AnnounceInv, InStep, BuildSignal, Start, StartDead, PublishDone, PublishFails, Stop
<1>4. InStep' /\ InPhase' /\ NoViolations'
  BY <1>1 DEF IInv, InStep, InPhase, NoViolations, BuildSignal, Remaining
<1>5. WaitInv' /\ AskInv'
  BY <1>1 DEF IInv, WaitInv, AskInv
<1>6. QED
  BY <1>2, <1>3, <1>4, <1>5 DEF IInv

LEMMA DecisionStep ==
  ASSUME IInv, NEW p \in Phases, OnDecision(p)
  PROVE  IInv'
<1>1. UNCHANGED <<fsm, signal, shown, loop, inFlight, announced, violations, held, wait>>
  BY DEF OnDecision
<1>2. desired' \in Axes /\ ((desired' = desired /\ asked' = asked) \/ asked' = 0)
  BY DEF OnDecision, DesiredAfter, IInv, TypeOK, AxisOf, Axes, NoAxis, NorthSouth, EastWest
<1>3. TypeOK'
  BY <1>1, <1>2 DEF IInv, TypeOK
<1>4. InStep' /\ InPhase' /\ NoViolations' /\ AnnounceInv'
  BY <1>1 DEF IInv, InStep, InPhase, NoViolations, AnnounceInv, BuildSignal, Remaining
<1>5. WaitInv'
  BY <1>1 DEF IInv, WaitInv
<1>6. AskInv'
  <2>1. CASE desired' = desired /\ asked' = asked
    BY <1>1, <2>1 DEF IInv, AskInv
  <2>2. CASE asked' = 0
    <3>1. held' \in Nat
      BY <1>1 DEF IInv, TypeOK
    <3>2. QED
      BY <2>2, <3>1, BoundFacts DEF AskInv
  <2>3. QED
    BY <1>2, <2>1, <2>2
<1>7. QED
  BY <1>3, <1>4, <1>5, <1>6 DEF IInv

-----------------------------------------------------------------------------
LEMMA BudgetFacts ==
  ASSUME NEW a \in Axes
  PROVE  /\ Budget(GreenFor(a)) = MaxGreen
         /\ Budget(YellowFor(a)) = YellowTime
         /\ Budget(AllRed) = AllRedTime
BY PhaseFacts DEF Budget

LEMMA PhaseOfState ==
  ASSUME IInv
  PROVE  \E a \in Axes : \/ shown = GreenFor(a)
                         \/ shown = YellowFor(a)
                         \/ shown = AllRed /\ fsm.next = OtherAxis(a)
<1>1. shown = fsm.phase /\ shown \in Phases /\ fsm.next \in Axes
  BY DEF IInv, TypeOK, InStep, Machine
<1>2. QED
  BY <1>1, PhaseCases, AxisFacts

(***************************************************************************)
(* In states of the invariant no history clock reaches its bound in a      *)
(* tick: that the clocks stop one past it never shows.                     *)
(***************************************************************************)
LEMMA RunningClocks ==
  ASSUME IInv, NEW dt \in 1..MaxDt
  PROVE  /\ \A a \in Axes : shown # GreenFor(a) => UpTo(MaxWait + 1, wait[a] + dt) = wait[a] + dt
         /\ shown # GreenFor(desired) => UpTo(MaxAsk + 1, asked + dt) = asked + dt
<1>1. PICK a \in Axes : \/ shown = GreenFor(a)
                        \/ shown = YellowFor(a)
                        \/ shown = AllRed /\ fsm.next = OtherAxis(a)
  BY PhaseOfState
<1> DEFINE b == OtherAxis(a)
<1>2. /\ b \in Axes /\ a # b /\ OtherAxis(b) = a /\ desired \in {a, b} /\ \A c \in Axes : c \in {a, b}
      /\ wait[a] \in Nat /\ wait[b] \in Nat /\ held \in Nat /\ asked \in Nat
  BY AxisFacts DEF IInv, TypeOK
<1>3. dt \in Nat /\ MinGreen \in Nat /\ MaxDt \in Nat /\ dt <= MaxDt
  BY ControllerAssumption, SettingsAssumption
<1>4. held + dt <= Longest(Budget(shown))
  <2>1. held + MaxDt <= Longest(Budget(shown)) /\ Budget(shown) \in Nat
    BY SettingsAssumption DEF IInv, InStep, InPhase, Budget
  <2>2. QED
    BY <1>2, <1>3, <2>1, LongestFacts
<1>5. /\ shown # GreenFor(a) => wait[a] + dt <= MaxWait
      /\ shown # GreenFor(b) => wait[b] + dt <= MaxWait
  <2>1. CASE shown = GreenFor(a)
    BY <1>2, <1>3, <1>4, <2>1, BudgetFacts, BoundFacts DEF IInv, WaitInv
  <2>2. CASE shown = YellowFor(a)
    BY <1>2, <1>3, <1>4, <2>2, BudgetFacts, BoundFacts DEF IInv, WaitInv
  <2>3. CASE shown = AllRed /\ fsm.next = OtherAxis(a)
    BY <1>2, <1>3, <1>4, <2>3, BudgetFacts, BoundFacts DEF IInv, WaitInv
  <2>4. QED
    BY <1>1, <2>1, <2>2, <2>3
<1>6. shown # GreenFor(desired) => asked + dt <= MaxAsk
  <2>1. CASE shown = GreenFor(a) /\ desired = b
    <3>1. asked <= Clearing + held /\ (held >= MinGreen => asked = 0)
      BY <1>2, <2>1 DEF IInv, AskInv
    <3>2. asked + dt <= Clearing + Longest(MinGreen)
      <4>1. CASE held >= MinGreen
        <5>1. MaxDt <= Longest(MinGreen)
          BY <1>3, LongestFacts
        <5>2. QED
          BY <1>2, <1>3, <3>1, <4>1, <5>1, BoundFacts
      <4>2. CASE held < MinGreen
        <5>1. held + MaxDt <= Longest(MinGreen)
          BY <1>2, <1>3, <4>2, LongestFacts
        <5>2. QED
          BY <1>2, <1>3, <3>1, <5>1, BoundFacts
      <4>3. QED
        BY <1>2, <1>3, <4>1, <4>2
    <3>3. QED
      BY <1>2, <1>3, <3>2, BoundFacts
  <2>2. CASE shown = YellowFor(a)
    <3>1. asked <= Clearing + Longest(MinGreen) + held
      BY <1>2, <2>2, BoundFacts DEF IInv, AskInv
    <3>2. QED
      BY <1>2, <1>3, <1>4, <2>2, <3>1, BudgetFacts, BoundFacts
  <2>3. CASE shown = AllRed /\ fsm.next = OtherAxis(a)
    <3>1. asked <= Clearing + Longest(MinGreen) + Longest(YellowTime) + held
      BY <1>2, <2>3, BoundFacts DEF IInv, AskInv
    <3>2. QED
      BY <1>2, <1>3, <1>4, <2>3, <3>1, BudgetFacts, BoundFacts
  <2>4. QED
    BY <1>1, <1>2, <2>1, <2>2, <2>3
<1>7. QED
  BY <1>2, <1>3, <1>5, <1>6, BoundFacts DEF UpTo

LEMMA LegalFacts ==
  ASSUME NEW a \in Axes
  PROVE  /\ <<GreenFor(a), YellowFor(a)>> \in Legal
         /\ <<YellowFor(a), AllRed>> \in Legal
         /\ <<AllRed, GreenFor(a)>> \in Legal
BY DEF Legal

LEMMA TickTypeOK ==
  ASSUME IInv, NEW dt \in 1..MaxDt, Tick(dt)
  PROVE  TypeOK' /\ InStep' /\ InPhase' /\ AnnounceInv' /\ NoViolations'
<1>1. /\ fsm \in Machine /\ fsm.phase \in Phases /\ fsm.elapsed \in Nat /\ fsm.next \in Axes
      /\ shown = fsm.phase /\ held = fsm.elapsed
      /\ desired' \in Axes /\ dt \in Nat \ {0} /\ MaxDt \in Nat
      /\ wait \in [Axes -> Nat] /\ asked \in Nat /\ violations = 0
      /\ announced' = announced /\ announced \in Phases \cup {NoPhase}
  BY ControllerAssumption DEF IInv, TypeOK, InStep, NoViolations, Machine, Tick
<1>2. held' \in Nat /\ wait' \in [Axes -> Nat] /\ asked' \in Nat
  BY <1>1, BoundFacts DEF Tick, Clocks, UpTo, IInv, TypeOK
<1>3. ASSUME fsm' \in Machine
      PROVE  signal' = BuildSignal(fsm') /\ signal' \in [phase : Phases, elapsed : Nat, remaining : Nat]
  <2>1. Budget(fsm'.phase) \in Nat /\ fsm'.elapsed \in Nat /\ fsm'.phase \in Phases
    BY <1>3, SettingsAssumption DEF Machine, Budget
  <2>2. Remaining(fsm') \in Nat
    BY <2>1 DEF Remaining
  <2>3. QED
    BY <2>1, <2>2 DEF Tick, BuildSignal
<1>4. Stays(dt) \/ \E a \in Axes : EndsGreen(a, dt) \/ EndsYellow(a, dt) \/ EndsAllRed(a, dt)
  BY TickCases DEF IInv
<1>5. CASE Stays(dt)
  <2>1. /\ fsm' \in Machine /\ fsm'.phase = fsm.phase /\ fsm'.elapsed = fsm.elapsed + dt
        /\ UNCHANGED <<shown, loop, inFlight, violations>> /\ InPhase'
    BY <1>1, <1>5 DEF Stays, Machine
  <2>2. held' = held + dt
    BY <2>1 DEF Tick, Clocks
  <2>3. QED
    BY <1>1, <1>2, <1>3, <2>1, <2>2
       DEF IInv, TypeOK, InStep, AnnounceInv, NoViolations
<1>6. ASSUME NEW a \in Axes, EndsGreen(a, dt) \/ EndsYellow(a, dt) \/ EndsAllRed(a, dt)
      PROVE  TypeOK' /\ InStep' /\ InPhase' /\ AnnounceInv' /\ NoViolations'
  <2>1. PICK p \in Phases, n \in Axes :
          /\ Enters(p, n)
          /\ p # fsm.phase
          /\ <<fsm.phase, p>> \in Legal
    BY <1>1, <1>6, PhaseFacts, AxisFacts, LegalFacts DEF EndsGreen, EndsYellow, EndsAllRed
  <2>2. /\ fsm' \in Machine /\ fsm'.phase = p /\ fsm'.elapsed = 0
        /\ shown' = p /\ inFlight' = p /\ loop' = "publishing"
    BY <2>1 DEF Enters, Machine
  <2>3. violations' = 0
    BY <1>1, <2>1, <2>2 DEF Tick
  <2>4. held' = 0
    BY <1>1, <2>1, <2>2 DEF Tick, Clocks
  <2>5. InPhase'
    <3>1. Budget(p) \in Nat
      BY SettingsAssumption DEF Budget
    <3>2. MaxDt <= Longest(Budget(p))
      BY <3>1, LongestFacts
    <3>3. QED
      BY <1>1, <2>2, <3>2 DEF InPhase
  <2>6. QED
    BY <1>1, <1>2, <1>3, <2>2, <2>3, <2>4, <2>5
       DEF TypeOK, InStep, AnnounceInv, NoViolations, Loops
<1>7. QED
  BY <1>4, <1>5, <1>6

(***************************************************************************)
(* What a tick does to the clocks, and how far the phase it ends has come. *)
(***************************************************************************)
LEMMA TickClocks ==
  ASSUME IInv, NEW dt \in 1..MaxDt, Tick(dt)
  PROVE  /\ held \in Nat /\ dt \in Nat /\ held + dt <= Longest(Budget(shown))
         /\ shown' = shown => held' = held + dt
         /\ shown' # shown => held' = 0
         /\ desired' = desired /\ asked \in Nat
         /\ asked' = IF shown = GreenFor(desired) THEN 0 ELSE asked + dt
         /\ \A a \in Axes :
              /\ wait[a] \in Nat
              /\ wait'[a] = IF shown = GreenFor(a) THEN 0 ELSE wait[a] + dt
<1>1. /\ held \in Nat /\ dt \in Nat /\ MaxDt \in Nat /\ dt <= MaxDt
      /\ Budget(shown) \in Nat /\ wait \in [Axes -> Nat] /\ asked \in Nat
  BY ControllerAssumption, SettingsAssumption DEF IInv, TypeOK, Budget
<1>2. held + MaxDt <= Longest(Budget(shown))
  BY DEF IInv, InStep, InPhase
<1>3. held + dt <= Longest(Budget(shown))
  BY <1>1, <1>2, LongestFacts
<1>4. QED
  BY <1>1, <1>3, RunningClocks DEF Tick, Clocks

LEMMA TickWait ==
  ASSUME IInv, NEW dt \in 1..MaxDt, Tick(dt)
  PROVE  WaitInv'
<1>1. WaitInv /\ shown = fsm.phase /\ held = fsm.elapsed /\ fsm \in Machine
  BY DEF IInv, InStep, TypeOK
<1>2. /\ YellowTime \in Nat /\ AllRedTime \in Nat /\ MaxGreen \in Nat
  BY SettingsAssumption
<1>3. Stays(dt) \/ \E a \in Axes : EndsGreen(a, dt) \/ EndsYellow(a, dt) \/ EndsAllRed(a, dt)
  BY TickCases DEF IInv
<1>4. SUFFICES ASSUME NEW a \in Axes
               PROVE  LET b == OtherAxis(a) IN
                        /\ shown' = GreenFor(a) =>
                             /\ wait'[a] <= MaxWait
                             /\ wait'[b] >= YellowTime + AllRedTime
                             /\ wait'[b] <= Clearing + held'
                        /\ shown' = YellowFor(a) =>
                             /\ fsm'.next = b
                             /\ wait'[a] = held'
                             /\ wait'[b] <= Clearing + Longest(MaxGreen) + held'
                        /\ shown' = AllRed /\ fsm'.next = b =>
                             /\ wait'[a] >= YellowTime + held'
                             /\ wait'[a] <= Longest(YellowTime) + held'
                             /\ wait'[b] <= Clearing + Longest(MaxGreen) + Longest(YellowTime) + held'
  BY DEF WaitInv
<1> DEFINE b == OtherAxis(a)
<1>5. /\ b \in Axes /\ a # b /\ OtherAxis(b) = a
      /\ wait[a] \in Nat /\ wait[b] \in Nat /\ held \in Nat /\ dt \in Nat
      /\ wait'[a] = IF shown = GreenFor(a) THEN 0 ELSE wait[a] + dt
      /\ wait'[b] = IF shown = GreenFor(b) THEN 0 ELSE wait[b] + dt
  BY AxisFacts, TickClocks
<1>6. CASE Stays(dt)
  <2>1. shown' = shown /\ fsm'.next = fsm.next /\ held' = held + dt
    BY <1>1, <1>6, TickClocks DEF Stays, Machine
  <2>2. CASE shown = GreenFor(a)
    <3>1. shown # GreenFor(b) /\ shown # YellowFor(a) /\ shown # AllRed
      BY <1>5, <2>2, PhaseFacts
    <3>2. /\ wait[b] >= YellowTime + AllRedTime
          /\ wait[b] <= Clearing + held
      BY <1>1, <2>2 DEF WaitInv
    <3>3. QED
      BY <1>2, <1>5, <2>1, <2>2, <3>1, <3>2, BoundFacts
  <2>3. CASE shown = YellowFor(a)
    <3>1. shown # GreenFor(b) /\ shown # GreenFor(a) /\ shown # AllRed
      BY <1>5, <2>3, PhaseFacts
    <3>2. /\ fsm.next = b /\ wait[a] = held
          /\ wait[b] <= Clearing + Longest(MaxGreen) + held
      BY <1>1, <2>3 DEF WaitInv
    <3>3. QED
      BY <1>2, <1>5, <2>1, <2>3, <3>1, <3>2, BoundFacts
  <2>4. CASE shown = AllRed /\ fsm.next = b
    <3>1. shown # GreenFor(b) /\ shown # GreenFor(a) /\ shown # YellowFor(a)
      BY <1>5, <2>4, PhaseFacts
    <3>2. /\ wait[a] >= YellowTime + held
          /\ wait[a] <= Longest(YellowTime) + held
          /\ wait[b] <= Clearing + Longest(MaxGreen) + Longest(YellowTime) + held
      BY <1>1, <2>4 DEF WaitInv
    <3>3. QED
      BY <1>2, <1>5, <2>1, <2>4, <3>1, <3>2, BoundFacts
  <2>5. QED
    BY <2>1, <2>2, <2>3, <2>4
<1>7. ASSUME NEW c \in Axes, EndsGreen(c, dt)
      PROVE
               /\ shown' # GreenFor(a) /\ shown' # AllRed
               /\ shown' = YellowFor(a) =>
                             /\ fsm'.next = b
                             /\ wait'[a] = held'
                             /\ wait'[b] <= Clearing + Longest(MaxGreen) + held'
  <2>1. /\ shown = GreenFor(c) /\ shown' = YellowFor(c) /\ fsm'.next = OtherAxis(c)
        /\ shown' # shown /\ held + dt <= Longest(MaxGreen) /\ held' = 0
    BY <1>1, <1>7, PhaseFacts, BudgetFacts, TickClocks DEF EndsGreen, Enters
  <2>2. shown' # GreenFor(a) /\ shown' # AllRed /\ (shown' = YellowFor(a) => c = a)
    BY <2>1, PhaseFacts
  <2>3. CASE c = a
    <3>1. shown # GreenFor(b)
      BY <1>5, <2>1, <2>3, PhaseFacts
    <3>2. wait[b] <= Clearing + held
      BY <1>1, <2>1, <2>3 DEF WaitInv
    <3>3. QED
      BY <1>5, <2>1, <2>2, <2>3, <3>1, <3>2, BoundFacts
  <2>4. QED
    BY <2>2, <2>3
<1>8. ASSUME NEW c \in Axes, EndsYellow(c, dt)
      PROVE
               /\ shown' # GreenFor(a) /\ shown' # YellowFor(a)
               /\ shown' = AllRed /\ fsm'.next = b =>
                             /\ wait'[a] >= YellowTime + held'
                             /\ wait'[a] <= Longest(YellowTime) + held'
                             /\ wait'[b] <= Clearing + Longest(MaxGreen) + Longest(YellowTime) + held'
  <2>1. /\ shown = YellowFor(c) /\ shown' = AllRed /\ fsm'.next = fsm.next
        /\ shown' # shown /\ held + dt <= Longest(YellowTime) /\ held' = 0
        /\ held + dt >= YellowTime
    BY <1>1, <1>8, PhaseFacts, BudgetFacts, TickClocks DEF EndsYellow, Enters
  <2>2. /\ shown' # GreenFor(a) /\ shown' # YellowFor(a)
        /\ shown # GreenFor(a) /\ shown # GreenFor(b)
    BY <1>5, <2>1, PhaseFacts
  <2>3. /\ fsm.next = OtherAxis(c) /\ wait[c] = held
        /\ wait[OtherAxis(c)] <= Clearing + Longest(MaxGreen) + held
    BY <1>1, <2>1 DEF WaitInv
  <2>4. fsm'.next = b => c = a
    BY <1>5, <2>1, <2>3, AxisFacts
  <2>5. CASE c = a
    BY <1>2, <1>5, <2>1, <2>2, <2>3, <2>5, BoundFacts
  <2>6. QED
    BY <2>2, <2>4, <2>5
<1>9. ASSUME NEW c \in Axes, EndsAllRed(c, dt)
      PROVE
               /\ shown' # YellowFor(a) /\ shown' # AllRed
               /\ shown' = GreenFor(a) =>
                             /\ wait'[a] <= MaxWait
                             /\ wait'[b] >= YellowTime + AllRedTime
                             /\ wait'[b] <= Clearing + held'
  <2>1. /\ shown = AllRed /\ shown' = GreenFor(c) /\ fsm.next = c
        /\ shown' # shown /\ held + dt <= Longest(AllRedTime) /\ held' = 0
        /\ held + dt >= AllRedTime
    BY <1>1, <1>9, PhaseFacts, BudgetFacts, TickClocks DEF EndsAllRed, Enters
  <2>2. /\ shown' # YellowFor(a) /\ shown' # AllRed
        /\ shown # GreenFor(a) /\ shown # GreenFor(b)
        /\ (shown' = GreenFor(a) => c = a)
    BY <1>5, <2>1, PhaseFacts
  <2>3. CASE c = a
    <3>1. /\ wait[b] >= YellowTime + held
          /\ wait[b] <= Longest(YellowTime) + held
          /\ wait[a] <= Clearing + Longest(MaxGreen) + Longest(YellowTime) + held
      BY <1>1, <1>5, <2>1, <2>3 DEF WaitInv
    <3>2. QED
      BY <1>2, <1>5, <2>1, <2>2, <2>3, <3>1, BoundFacts
  <2>4. QED
    BY <2>2, <2>3
<1>10. QED
  BY <1>3, <1>6, <1>7, <1>8, <1>9

LEMMA TickAsk ==
  ASSUME IInv, NEW dt \in 1..MaxDt, Tick(dt)
  PROVE  AskInv'
<1> DEFINE d == desired
           o == OtherAxis(desired)
<1>1. /\ AskInv /\ shown = fsm.phase /\ held = fsm.elapsed /\ fsm \in Machine
      /\ d \in Axes /\ o \in Axes /\ d # o /\ OtherAxis(o) = d
  BY AxisFacts DEF IInv, InStep, TypeOK
<1>2. /\ MinGreen \in Nat /\ MaxDt \in Nat /\ dt <= MaxDt
      /\ YellowTime \in Nat /\ AllRedTime \in Nat
  BY SettingsAssumption, ControllerAssumption
<1>3. Stays(dt) \/ \E a \in Axes : EndsGreen(a, dt) \/ EndsYellow(a, dt) \/ EndsAllRed(a, dt)
  BY TickCases DEF IInv
<1>4. /\ asked \in Nat /\ held \in Nat /\ dt \in Nat
      /\ desired' = d
      /\ asked' = IF shown = GreenFor(d) THEN 0 ELSE asked + dt
  BY TickClocks
<1>5. /\ GreenFor(d) # GreenFor(o) /\ YellowFor(d) # YellowFor(o)
      /\ GreenFor(d) # YellowFor(d) /\ GreenFor(d) # YellowFor(o) /\ GreenFor(d) # AllRed
      /\ GreenFor(o) # YellowFor(d) /\ GreenFor(o) # YellowFor(o) /\ GreenFor(o) # AllRed
      /\ YellowFor(d) # AllRed /\ YellowFor(o) # AllRed
  BY <1>1, PhaseFacts
<1>6. CASE Stays(dt)
  <2>1. /\ shown' = shown /\ fsm'.next = fsm.next /\ held' = held + dt
        /\ shown = GreenFor(o) => held + dt < MinGreen
    <3>1. shown' = shown /\ fsm'.next = fsm.next /\ held' = held + dt
      BY <1>1, <1>6, TickClocks DEF Stays, Machine
    <3>2. ASSUME shown = GreenFor(o) PROVE held + dt < MinGreen
      BY <1>1, <1>2, <1>4, <1>5, <1>6, <3>2, PhaseFacts DEF Stays
    <3>3. QED
      BY <3>1, <3>2
  <2>2. CASE shown = GreenFor(d)
    BY <1>4, <1>5, <2>1, <2>2, BoundFacts DEF AskInv
  <2>3. CASE shown # GreenFor(d)
    BY <1>1, <1>2, <1>4, <1>5, <2>1, <2>3, BoundFacts DEF AskInv
  <2>4. QED
    BY <2>2, <2>3
<1>7. ASSUME NEW c \in Axes, EndsGreen(c, dt)
      PROVE  AskInv'
  <2>1. /\ shown = GreenFor(c) /\ shown' = YellowFor(c)
        /\ shown' # shown /\ held' = 0 /\ (c = d \/ c = o)
    BY <1>1, <1>7, PhaseFacts, AxisFacts, TickClocks DEF EndsGreen, Enters
  <2>2. CASE c = d
    BY <1>4, <1>5, <2>1, <2>2 DEF AskInv
  <2>3. CASE c = o
    <3>1. asked <= Clearing + held /\ (held >= MinGreen => asked = 0)
      BY <1>1, <2>1, <2>3 DEF AskInv
    <3>2. asked + dt <= Clearing + Longest(MinGreen)
      <4>1. CASE held >= MinGreen
        <5>1. MaxDt <= Longest(MinGreen)
          BY <1>2, LongestFacts
        <5>2. QED
          BY <1>2, <1>4, <3>1, <4>1, <5>1, BoundFacts
      <4>2. CASE held < MinGreen
        <5>1. held + MaxDt <= Longest(MinGreen)
          BY <1>2, <1>4, <4>2, LongestFacts
        <5>2. QED
          BY <1>2, <1>4, <3>1, <5>1, BoundFacts
      <4>3. QED
        BY <1>2, <1>4, <4>1, <4>2
    <3>3. QED
      BY <1>4, <1>5, <2>1, <2>3, <3>2, BoundFacts DEF AskInv
  <2>4. QED
    BY <2>1, <2>2, <2>3
<1>8. ASSUME NEW c \in Axes, EndsYellow(c, dt)
      PROVE  AskInv'
  <2>1. /\ shown = YellowFor(c) /\ shown' = AllRed /\ fsm'.next = fsm.next
        /\ shown' # shown /\ held' = 0 /\ held + dt <= Longest(YellowTime)
        /\ (c = d \/ c = o)
    BY <1>1, <1>8, PhaseFacts, AxisFacts, BudgetFacts, TickClocks DEF EndsYellow, Enters
  <2>2. fsm.next = OtherAxis(c)
    BY <2>1 DEF IInv, WaitInv
  <2>3. asked' = asked + dt
    BY <1>4, <1>5, <2>1
  <2>4. CASE c = d
    <3>1. asked <= held
      BY <1>1, <2>1, <2>4 DEF AskInv
    <3>2. QED
      BY <1>1, <1>4, <1>5, <2>1, <2>2, <2>3, <2>4, <3>1, BoundFacts DEF AskInv
  <2>5. CASE c = o
    <3>1. asked <= Clearing + Longest(MinGreen) + held
      BY <1>1, <2>1, <2>5 DEF AskInv
    <3>2. QED
      BY <1>1, <1>4, <1>5, <2>1, <2>2, <2>3, <2>5, <3>1, BoundFacts DEF AskInv
  <2>6. QED
    BY <2>1, <2>4, <2>5
<1>9. ASSUME NEW c \in Axes, EndsAllRed(c, dt)
      PROVE  AskInv'
  <2>1. /\ shown = AllRed /\ shown' = GreenFor(c) /\ fsm.next = c
        /\ shown' # shown /\ held' = 0 /\ held + dt <= Longest(AllRedTime)
        /\ (c = d \/ c = o)
    BY <1>1, <1>9, PhaseFacts, AxisFacts, BudgetFacts, TickClocks DEF EndsAllRed, Enters
  <2>2. asked' = asked + dt
    BY <1>4, <1>5, <2>1
  <2>3. CASE c = d
    <3>1. asked <= Clearing + Longest(MinGreen) + Longest(YellowTime) + held
      BY <1>1, <2>1, <2>3 DEF AskInv
    <3>2. QED
      BY <1>4, <1>5, <2>1, <2>2, <2>3, <3>1, BoundFacts DEF AskInv
  <2>4. CASE c = o
    <3>1. asked <= Longest(YellowTime) + held
      BY <1>1, <2>1, <2>4 DEF AskInv
    <3>2. ~(0 >= MinGreen)
      BY SettingsAssumption
    <3>3. QED
      BY <1>4, <1>5, <2>1, <2>2, <2>4, <3>1, <3>2, BoundFacts DEF AskInv
  <2>5. QED
    BY <2>1, <2>3, <2>4
<1>10. QED
  BY <1>3, <1>6, <1>7, <1>8, <1>9

-----------------------------------------------------------------------------
LEMMA NextIInv == IInv /\ [Next]_vars => IInv'
<1> SUFFICES ASSUME IInv, [Next]_vars PROVE IInv'
  OBVIOUS
<1>1. CASE Start \/ StartDead \/ PublishDone \/ PublishFails \/ Stop
  BY <1>1, LoopSteps
<1>2. ASSUME NEW p \in Phases, OnDecision(p)
      PROVE  IInv'
  BY <1>2, DecisionStep
<1>3. ASSUME NEW dt \in 1..MaxDt, Tick(dt)
      PROVE  IInv'
  BY <1>3, TickTypeOK, TickWait, TickAsk DEF IInv
<1>4. CASE UNCHANGED vars
  BY <1>4 DEF vars, IInv, TypeOK, InStep, InPhase, WaitInv, AskInv, AnnounceInv, NoViolations,
     BuildSignal, Remaining
<1>5. QED
  BY <1>1, <1>2, <1>3, <1>4 DEF Next

(***************************************************************************)
(* The inductive invariant holds throughout, whatever is decided, however  *)
(* the loop is started, stopped or lost.                                   *)
(***************************************************************************)
THEOREM Invariance == Spec => []IInv
<1>1. Init => IInv
  BY InitIInv
<1>2. IInv /\ [Next]_vars => IInv'
  BY NextIInv
<1>3. QED
  BY <1>1, <1>2, PTL DEF Spec

LEMMA HeldFacts ==
  ASSUME IInv
  PROVE  held \in Nat /\ held <= Longest(Budget(shown))
<1>1. held \in Nat /\ MaxDt \in Nat /\ held + MaxDt <= Longest(Budget(shown)) /\ Budget(shown) \in Nat
  BY ControllerAssumption, SettingsAssumption DEF IInv, TypeOK, InStep, InPhase, Budget
<1>2. QED
  BY <1>1, LongestFacts

LEMMA IInvBoundsWait == IInv => WaitBounded
<1> SUFFICES ASSUME IInv PROVE \A c \in Axes : wait[c] <= MaxWait
  BY DEF WaitBounded
<1>1. PICK a \in Axes : \/ shown = GreenFor(a)
                        \/ shown = YellowFor(a)
                        \/ shown = AllRed /\ fsm.next = OtherAxis(a)
  BY PhaseOfState
<1> DEFINE b == OtherAxis(a)
<1>2. wait[a] \in Nat /\ wait[b] \in Nat /\ held \in Nat /\ held <= Longest(Budget(shown))
  BY AxisFacts, HeldFacts DEF IInv, TypeOK
<1>3. wait[a] <= MaxWait /\ wait[b] <= MaxWait
  <2>1. CASE shown = GreenFor(a)
    BY <1>2, <2>1, BudgetFacts, BoundFacts DEF IInv, WaitInv
  <2>2. CASE shown = YellowFor(a)
    BY <1>2, <2>2, BudgetFacts, BoundFacts DEF IInv, WaitInv
  <2>3. CASE shown = AllRed /\ fsm.next = OtherAxis(a)
    BY <1>2, <2>3, BudgetFacts, BoundFacts DEF IInv, WaitInv
  <2>4. QED
    BY <1>1, <2>1, <2>2, <2>3
<1>4. QED
  BY <1>3, AxisFacts

LEMMA IInvBoundsAsk == IInv => IntentServedInTime
<1> SUFFICES ASSUME IInv PROVE asked <= MaxAsk
  BY DEF IntentServedInTime
<1> DEFINE d == desired
           o == OtherAxis(desired)
<1>1. d \in Axes /\ o \in Axes /\ (\A c \in Axes : c = d \/ c = o) /\ OtherAxis(o) = d
  BY AxisFacts DEF IInv, TypeOK
<1>2. PICK a \in Axes : \/ shown = GreenFor(a)
                        \/ shown = YellowFor(a)
                        \/ shown = AllRed /\ fsm.next = OtherAxis(a)
  BY PhaseOfState
<1>3. asked \in Nat /\ held \in Nat /\ held <= Longest(Budget(shown)) /\ AskInv
  BY HeldFacts DEF IInv, TypeOK
<1>4. CASE shown = GreenFor(a)
  <2>1. CASE a = d
    BY <1>4, <2>1, <1>3 DEF AskInv
  <2>2. CASE a = o
    <3>1. asked <= Clearing + held /\ (held >= MinGreen => asked = 0)
      BY <1>3, <1>4, <2>2 DEF AskInv
    <3>2. held >= MinGreen \/ held <= Longest(MinGreen)
      BY <1>3, SettingsAssumption, LongestFacts
    <3>3. QED
      BY <1>3, <3>1, <3>2, BoundFacts
  <2>3. QED
    BY <1>1, <2>1, <2>2
<1>5. CASE shown = YellowFor(a)
  <2>1. held <= Longest(YellowTime)
    BY <1>3, <1>5, BudgetFacts
  <2>2. asked <= held \/ asked <= Clearing + Longest(MinGreen) + held
    BY <1>1, <1>3, <1>5 DEF AskInv
  <2>3. QED
    BY <1>3, <2>1, <2>2, BoundFacts
<1>6. CASE shown = AllRed /\ fsm.next = OtherAxis(a)
  <2>1. held <= Longest(AllRedTime)
    BY <1>3, <1>6, BudgetFacts
  <2>2. \/ asked <= Longest(YellowTime) + held
        \/ asked <= Clearing + Longest(MinGreen) + Longest(YellowTime) + held
    BY <1>1, <1>3, <1>6, AxisFacts DEF AskInv
  <2>3. QED
    BY <1>3, <2>1, <2>2, BoundFacts
<1>7. QED
  BY <1>2, <1>4, <1>5, <1>6

-----------------------------------------------------------------------------
(***************************************************************************)
(* Every value stays in its type: no duration makes an elapsed or a        *)
(* remaining time negative, no command leaves the agent without an axis.   *)
(***************************************************************************)
THEOREM TypeCorrect == Spec => []TypeOK
BY Invariance, PTL DEF IInv

(***************************************************************************)
(* Between the greens of the two axes there is always a full clearance.    *)
(***************************************************************************)
THEOREM ClearanceIsKept == Spec => []ClearanceBeforeGreen
<1>1. IInv => ClearanceBeforeGreen
  BY DEF IInv, WaitInv, ClearanceBeforeGreen
<1>2. QED
  BY <1>1, Invariance, PTL

(***************************************************************************)
(* No axis waits longer than MaxWait for its green.                        *)
(***************************************************************************)
THEOREM WaitIsBounded == Spec => []WaitBounded
BY IInvBoundsWait, Invariance, PTL

(***************************************************************************)
(* A standing intent is served within MaxAsk.                              *)
(***************************************************************************)
THEOREM IntentIsServedInTime == Spec => []IntentServedInTime
BY IInvBoundsAsk, Invariance, PTL

(***************************************************************************)
(* A sleeping loop has announced the phase on the lamps.                   *)
(***************************************************************************)
THEOREM AnnouncedIsShown == Spec => []AnnouncedWhenReady
<1>1. IInv => AnnouncedWhenReady
  BY DEF IInv, AnnounceInv, AnnouncedWhenReady
<1>2. QED
  BY <1>1, Invariance, PTL

(***************************************************************************)
(* SafetyEnvelope never counts a violation of this agent.                  *)
(***************************************************************************)
THEOREM EnvelopeIsSilent == Spec => []NoViolations
BY Invariance, PTL DEF IInv

-----------------------------------------------------------------------------
(***************************************************************************)
(* What the lamps show, axis by axis, in each phase.                       *)
(***************************************************************************)
LEMMA ColourFacts ==
  ASSUME NEW a \in Axes
  PROVE  /\ [b \in Axes |-> ColourOf(GreenFor(a), b)]
              = [b \in Axes |-> IF b = a THEN "green" ELSE "red"]
         /\ [b \in Axes |-> ColourOf(YellowFor(a), b)]
              = [b \in Axes |-> IF b = a THEN "yellow" ELSE "red"]
         /\ [b \in Axes |-> ColourOf(AllRed, b)] = [b \in Axes |-> "red"]
<1>1. \A b \in Axes : /\ ColourOf(GreenFor(a), b) = IF b = a THEN "green" ELSE "red"
                      /\ ColourOf(YellowFor(a), b) = IF b = a THEN "yellow" ELSE "red"
                      /\ ColourOf(AllRed, b) = "red"
  BY PhaseFacts DEF ColourOf
<1>2. QED
  BY <1>1

\* The instance has the vocabulary of Signals under names of its own.
LEMMA PromiseVocabulary ==
  /\ Promise!Axes = Axes
  /\ \A a \in Axes : Promise!OtherAxis(a) = OtherAxis(a)
BY DEF Promise!Axes, Promise!NorthSouth, Promise!EastWest, Promise!OtherAxis,
       Axes, NorthSouth, EastWest, OtherAxis

LEMMA TimePassesOnTick ==
  ASSUME IInv, NEW dt \in 1..MaxDt, Tick(dt)
  PROVE  Promise!TimePasses(dt)
<1>1. \A a \in Axes : Lights[a] = "green" <=> shown = GreenFor(a)
  BY PhaseFacts DEF Lights, ColourOf
<1>2. wait' = [a \in Axes |-> IF Lights[a] = "green" THEN 0 ELSE wait[a] + dt]
  <2>1. \A a \in Axes : (IF shown = GreenFor(a) THEN 0 ELSE UpTo(MaxWait + 1, wait[a] + dt))
                         = IF Lights[a] = "green" THEN 0 ELSE wait[a] + dt
    BY <1>1, RunningClocks
  <2>2. QED
    BY <2>1 DEF Tick, Clocks
<1>3. \A a \in Axes : wait'[a] <= MaxWait
  <2>1. IInv'
    BY TickTypeOK, TickWait, TickAsk DEF IInv
  <2>2. WaitBounded'
    <3>1. IInv' => WaitBounded'
      BY IInvBoundsWait, PTL
    <3>2. QED
      BY <2>1, <3>1
  <2>3. QED
    BY <2>2 DEF WaitBounded
<1>4. QED
  BY <1>2, <1>3, PromiseVocabulary DEF Promise!TimePasses

LEMMA TickKeepsPromise ==
  ASSUME IInv, NEW dt \in 1..MaxDt, Tick(dt)
  PROVE  Promise!Next
<1>1. /\ shown = fsm.phase /\ held = fsm.elapsed /\ fsm \in Machine /\ WaitInv
  BY DEF IInv, InStep, TypeOK
<1>2. Stays(dt) \/ \E a \in Axes : EndsGreen(a, dt) \/ EndsYellow(a, dt) \/ EndsAllRed(a, dt)
  BY TickCases DEF IInv
<1>3. Promise!TimePasses(dt)
  BY TimePassesOnTick
<1>4. CASE Stays(dt)
  <2>1. shown' = shown /\ held' = held + dt
    BY <1>4, TickClocks DEF Stays
  <2>2. Promise!Hold(dt)
    BY <1>3, <2>1 DEF Promise!Hold, Lights
  <2>3. QED
    BY <2>2 DEF Promise!Next
<1>5. ASSUME NEW a \in Axes, EndsGreen(a, dt)
      PROVE  Promise!Next
  <2>1. /\ shown = GreenFor(a) /\ shown' = YellowFor(a) /\ held + dt >= MinGreen
        /\ held' = 0
    BY <1>1, <1>5, PhaseFacts, TickClocks DEF EndsGreen, Enters
  <2>2. Lights[a] = "green" /\ Lights' = [Lights EXCEPT ![a] = "yellow"]
    <3>1. /\ Lights = [b \in Axes |-> IF b = a THEN "green" ELSE "red"]
          /\ Lights' = [b \in Axes |-> IF b = a THEN "yellow" ELSE "red"]
      BY <2>1, ColourFacts DEF Lights
    <3>2. QED
      BY <3>1
  <2>3. Promise!EndGreen(a, dt)
    BY <1>3, <2>1, <2>2 DEF Promise!EndGreen, Promise!Change
  <2>4. QED
    BY <2>3, PromiseVocabulary DEF Promise!Next
<1>6. ASSUME NEW a \in Axes, EndsYellow(a, dt)
      PROVE  Promise!Next
  <2>1. /\ shown = YellowFor(a) /\ shown' = AllRed /\ held + dt >= YellowTime
        /\ held' = 0
    BY <1>1, <1>6, PhaseFacts, TickClocks DEF EndsYellow, Enters
  <2>2. Lights[a] = "yellow" /\ Lights' = [Lights EXCEPT ![a] = "red"]
    <3>1. /\ Lights = [b \in Axes |-> IF b = a THEN "yellow" ELSE "red"]
          /\ Lights' = [b \in Axes |-> "red"]
      BY <2>1, ColourFacts DEF Lights
    <3>2. QED
      BY <3>1
  <2>3. Promise!EndYellow(a, dt)
    BY <1>3, <2>1, <2>2 DEF Promise!EndYellow, Promise!Change
  <2>4. QED
    BY <2>3, PromiseVocabulary DEF Promise!Next
<1>7. ASSUME NEW a \in Axes, EndsAllRed(a, dt)
      PROVE  Promise!Next
  <2>1. /\ shown = AllRed /\ shown' = GreenFor(a) /\ held + dt >= AllRedTime
        /\ held' = 0 /\ fsm.next = a
    BY <1>1, <1>7, PhaseFacts, TickClocks DEF EndsAllRed, Enters
  <2>2. /\ \A b \in Axes : Lights[b] = "red"
        /\ Lights' = [Lights EXCEPT ![a] = "green"]
    <3>1. /\ Lights = [b \in Axes |-> "red"]
          /\ Lights' = [b \in Axes |-> IF b = a THEN "green" ELSE "red"]
      BY <2>1, ColourFacts DEF Lights
    <3>2. QED
      BY <3>1
  <2>3. wait[OtherAxis(a)] + dt >= YellowTime + AllRedTime
    <3>1. wait[OtherAxis(a)] >= YellowTime + held
      BY <1>1, <2>1, AxisFacts DEF WaitInv
    <3>2. /\ wait[OtherAxis(a)] \in Nat /\ held \in Nat /\ dt \in Nat
          /\ YellowTime \in Nat /\ AllRedTime \in Nat
      BY AxisFacts, TickClocks, SettingsAssumption
    <3>3. QED
      BY <2>1, <3>1, <3>2
  <2>4. Promise!StartGreen(a, dt)
    BY <1>3, <2>1, <2>2, <2>3, PromiseVocabulary DEF Promise!StartGreen, Promise!Change
  <2>5. QED
    BY <2>4, PromiseVocabulary DEF Promise!Next
<1>8. QED
  BY <1>2, <1>4, <1>5, <1>6, <1>7

(***************************************************************************)
(* The agent implements SafeIntersection: every tick is one of its steps,  *)
(* and the life cycle of the loop, its publications and the decisions are  *)
(* invisible on the road.                                                  *)
(***************************************************************************)
THEOREM Refinement == Spec => KeepsPromise
<1>1. Init => Promise!Init
  <2> SUFFICES ASSUME Init PROVE Promise!Init
    OBVIOUS
  <2>1. shown = GreenFor(InitialAxis) /\ InitialAxis \in Axes /\ held = 0
    BY ControllerAssumption DEF Init, StartedAt
  <2>2. Lights = Promise!OnlyGreen(InitialAxis)
    BY <2>1, ColourFacts, PromiseVocabulary DEF Lights, Promise!OnlyGreen
  <2>3. QED
    BY <2>1, <2>2, PromiseVocabulary DEF Init, Promise!Init
<1>2. IInv /\ [Next]_vars => [Promise!Next]_(Promise!vars)
  <2> SUFFICES ASSUME IInv, [Next]_vars
               PROVE  Promise!Next \/ UNCHANGED Promise!vars
    OBVIOUS
  <2>1. ASSUME NEW dt \in 1..MaxDt, Tick(dt)
        PROVE  Promise!Next
    BY <2>1, TickKeepsPromise
  <2>2. CASE UNCHANGED <<shown, held, wait>>
    BY <2>2 DEF Promise!vars, Lights
  <2>3. QED
    BY <2>1, <2>2
       DEF Next, vars, timers, Start, StartDead, PublishDone, PublishFails, Stop, OnDecision
<1>3. QED
  BY <1>1, <1>2, Invariance, PTL DEF Spec, KeepsPromise, Promise!Spec

-----------------------------------------------------------------------------
(***************************************************************************)
(* The second component, Perception.                                       *)
(*                                                                         *)
(* The greedy choice of pairs (IouTracker._associate).  Some pairs are     *)
(* better than others; a pair is taken unless a better one that competes   *)
(* with it is.  There is such a choice for any finite set of pairs.        *)
(***************************************************************************)
IsOrder(better, S) ==
  /\ \A x \in S : <<x, x>> \notin better
  /\ \A x, y, z \in S : <<x, y>> \in better /\ <<y, z>> \in better => <<x, z>> \in better

IsGreedy(taken, S, better, rivals) ==
  \A p \in S : p \in taken <=> ~\E q \in taken : <<p, q>> \in rivals /\ <<q, p>> \in better

(***************************************************************************)
(* Of finitely many pairs some one is better than none.                    *)
(***************************************************************************)
LEMMA WorstOne ==
  ASSUME NEW S, IsFiniteSet(S), S # {}, NEW better, IsOrder(better, S)
  PROVE  \E w \in S : \A x \in S : <<w, x>> \notin better
<1> DEFINE Worst(T) == \E w \in T : \A x \in T : <<w, x>> \notin better
           G == {T \in SUBSET S : T # {} => Worst(T)}
<1>1. {} \in G
  OBVIOUS
<1>2. ASSUME NEW T \in SUBSET S, T # {}, T \ {Pick(T)} \in G PROVE T \in G
  <2> DEFINE c == Pick(T)
  <2>1. c \in T
    BY <1>2, PickOne
  <2> HIDE DEF c
  <2>2. CASE T \ {c} = {}
    <3>1. \A x \in T : x = c
      BY <2>2
    <3>2. Worst(T)
      BY <2>1, <3>1 DEF IsOrder
    <3> QED BY <3>2
  <2>3. CASE T \ {c} # {}
    <3>1. PICK w \in T \ {c} : \A x \in T \ {c} : <<w, x>> \notin better
      BY <1>2, <2>3 DEF c
    <3>2. w \in S /\ c \in S /\ w \in T
      BY <2>1
    <3>3. CASE <<w, c>> \notin better
      <4>1. \A x \in T : <<w, x>> \notin better
        BY <3>1, <3>3
      <4> QED BY <3>2, <4>1
    <3>4. CASE <<w, c>> \in better
      <4>1. \A x \in T : <<c, x>> \notin better
        <5> SUFFICES ASSUME NEW x \in T, <<c, x>> \in better PROVE FALSE
          OBVIOUS
        <5>1. x \in S /\ x # c
          BY <3>2 DEF IsOrder
        <5>2. <<w, x>> \in better
          BY <3>2, <3>4, <5>1 DEF IsOrder
        <5> QED BY <3>1, <5>1, <5>2
      <4> QED BY <2>1, <4>1
    <3> QED BY <3>3, <3>4
  <2> QED BY <2>2, <2>3
<1>3. S \in G
  <2> HIDE DEF G
  <2> QED BY <1>1, <1>2, SubsetInduction
<1> QED BY <1>3

(***************************************************************************)
(* Leave out the worst pair, choose of the others, and see whether it can  *)
(* still be taken.                                                         *)
(***************************************************************************)
LEMMA GreedyChoice ==
  ASSUME NEW S, IsFiniteSet(S), NEW better, IsOrder(better, S), NEW rivals
  PROVE  \E taken \in SUBSET S : IsGreedy(taken, S, better, rivals)
<1> DEFINE Chosen(T) == \E taken \in SUBSET T : IsGreedy(taken, T, better, rivals)
           Good == {n \in Nat : \A T \in SUBSET S : Cardinality(T) = n => Chosen(T)}
<1>0. \A T \in SUBSET S : IsFiniteSet(T) /\ Cardinality(T) \in Nat
  BY FS_Subset, FS_CardinalityType
<1>1. 0 \in Good
  <2> SUFFICES ASSUME NEW T \in SUBSET S, Cardinality(T) = 0 PROVE Chosen(T)
    OBVIOUS
  <2>1. T = {}
    BY <1>0, FS_EmptySet
  <2>2. IsGreedy({}, T, better, rivals)
    BY <2>1 DEF IsGreedy
  <2> QED BY <2>2
<1>2. ASSUME NEW n \in Nat, n \in Good PROVE n + 1 \in Good
  <2> SUFFICES ASSUME NEW T \in SUBSET S, Cardinality(T) = n + 1 PROVE Chosen(T)
    OBVIOUS
  <2>1. IsFiniteSet(T) /\ T # {}
    BY <1>0, FS_EmptySet
  <2>2. IsOrder(better, T)
    BY DEF IsOrder
  <2>3. PICK w \in T : \A x \in T : <<w, x>> \notin better
    BY <2>1, <2>2, WorstOne
  <2> DEFINE R == T \ {w}
  <2>4. R \in SUBSET S /\ Cardinality(R) = n
    <3>1. Cardinality(R) = Cardinality(T) - 1
      BY <2>1, FS_RemoveElement
    <3> QED BY <3>1
  <2>5. PICK taken \in SUBSET R : IsGreedy(taken, R, better, rivals)
    BY <1>2, <2>4
  <2> DEFINE Beaten == \E q \in taken : <<w, q>> \in rivals /\ <<q, w>> \in better
  <2>6. CASE Beaten
    <3>1. IsGreedy(taken, T, better, rivals)
      BY <2>5, <2>6 DEF IsGreedy
    <3>2. taken \in SUBSET T
      OBVIOUS
    <3> QED BY <3>1, <3>2
  <2>7. CASE ~Beaten
    <3> DEFINE more == taken \cup {w}
    <3>1. \A p \in T : p \in more <=> ~\E q \in more : <<p, q>> \in rivals /\ <<q, p>> \in better
      <4> TAKE p \in T
      <4>1. \A q \in more : <<q, p>> \in better => q \in taken
        BY <2>3
      <4>2. CASE p = w
        BY <2>7, <4>1, <4>2
      <4>3. CASE p # w
        <5>1. p \in R
          BY <4>3
        <5>2. p \in taken <=> ~\E q \in taken : <<p, q>> \in rivals /\ <<q, p>> \in better
          BY <2>5, <5>1 DEF IsGreedy
        <5> QED BY <4>1, <4>3, <5>2
      <4> QED BY <4>2, <4>3
    <3>2. IsGreedy(more, T, better, rivals) /\ more \in SUBSET T
      BY <3>1 DEF IsGreedy
    <3> QED BY <3>2
  <2> QED BY <2>6, <2>7
<1> HIDE DEF Good
<1>3. \A n \in Nat : n \in Good
  BY <1>1, <1>2, SetInduction
<1>4. Cardinality(S) \in Good
  BY <1>0, <1>3
<1> QED BY <1>4 DEF Good

-----------------------------------------------------------------------------
(***************************************************************************)
(* The tracker's records.                                                  *)
(***************************************************************************)
Record == [cell : 0..Length, speed : Nat, hits : 1..MinHits, misses : Nat,
           vehicle : Vehicles, row : 1..MaxStopped]

RecordsTyped ==
  /\ nextId \in Nat \ {0} /\ DOMAIN tracks \subseteq 1..(nextId - 1)
  /\ \A id \in DOMAIN tracks : tracks[id] \in Record

\* What _associate is given of a frame: where the vehicles are, in some order.
IsSighting(at, rank) ==
  /\ DOMAIN at \subseteq Vehicles /\ DOMAIN rank = DOMAIN at
  /\ \A v \in DOMAIN at : at[v] \in 0..Length /\ rank[v] \in Nat
  /\ \A v, w \in DOMAIN at : rank[v] = rank[w] => v = w

LEMMA Limits ==
  /\ IsFiniteSet(Vehicles)
  /\ Length \in Nat /\ TopSpeed \in Nat /\ Gap \in Nat /\ Reach \in Nat /\ MaxMisses \in Nat
  /\ MinHits \in Nat \ {0} /\ MaxStopped \in Nat \ {0}
  /\ StopSpeed \in Nat /\ ResumeSpeed \in Nat
BY PerceptionAssumption

LEMMA FieldsTyped ==
  ASSUME NEW r \in Record
  PROVE  /\ r.cell \in 0..Length /\ r.cell \in Int /\ r.speed \in Nat /\ r.hits \in 1..MinHits
         /\ r.misses \in Nat /\ r.vehicle \in Vehicles /\ r.row \in 1..MaxStopped
BY DEF Record

LEMMA DistanceIsNat ==
  ASSUME NEW a \in Int, NEW b \in Int
  PROVE  Distance(a, b) \in Nat
BY DEF Distance

(***************************************************************************)
(* The pairs and how they are ordered: no two of them are equally good.    *)
(***************************************************************************)
LEMMA PairFacts ==
  ASSUME RecordsTyped, NEW at, NEW rank, IsSighting(at, rank)
  PROVE  /\ IsFiniteSet(Pairs(at)) /\ IsFiniteSet(DOMAIN at)
         /\ \A p \in Pairs(at) :
              /\ p = <<p[1], p[2]>> /\ p[1] \in DOMAIN tracks /\ p[2] \in DOMAIN at
              /\ p[1] \in Nat /\ rank[p[2]] \in Nat /\ Distance(tracks[p[1]].cell, at[p[2]]) \in Nat
<1>1. IsFiniteSet(DOMAIN at)
  BY Limits, FS_Subset DEF IsSighting
<1>2. IsFiniteSet(DOMAIN tracks)
  <2>1. IsFiniteSet(1..(nextId - 1))
    BY FS_Interval DEF RecordsTyped
  <2> QED BY <2>1, FS_Subset DEF RecordsTyped
<1>3. IsFiniteSet((DOMAIN tracks) \X (DOMAIN at))
  BY <1>1, <1>2, FS_Product
<1>4. IsFiniteSet(Pairs(at))
  <2>1. Pairs(at) \in SUBSET ((DOMAIN tracks) \X (DOMAIN at))
    BY DEF Pairs
  <2> QED BY <1>3, <2>1, FS_Subset
<1>5. \A p \in Pairs(at) : p = <<p[1], p[2]>> /\ p[1] \in DOMAIN tracks /\ p[2] \in DOMAIN at
  BY DEF Pairs
<1>6. \A p \in Pairs(at) : p[1] \in Nat /\ rank[p[2]] \in Nat
  BY <1>5 DEF RecordsTyped, IsSighting
<1>7. \A p \in Pairs(at) : Distance(tracks[p[1]].cell, at[p[2]]) \in Nat
  <2> TAKE p \in Pairs(at)
  <2>1. tracks[p[1]].cell \in Int
    BY <1>5, FieldsTyped DEF RecordsTyped
  <2>2. at[p[2]] \in Int
    BY <1>5, Limits DEF IsSighting
  <2> QED BY <2>1, <2>2, DistanceIsNat
<1> QED
  BY <1>1, <1>4, <1>5, <1>6, <1>7

LEMMA BetterOrders ==
  ASSUME RecordsTyped, NEW at, NEW rank, IsSighting(at, rank)
  PROVE  /\ \A p \in Pairs(at) : ~Better(p, p, at, rank)
         /\ \A p, q, r \in Pairs(at) :
              Better(p, q, at, rank) /\ Better(q, r, at, rank) => Better(p, r, at, rank)
         /\ \A p, q \in Pairs(at) : p # q => Better(p, q, at, rank) \/ Better(q, p, at, rank)
<1> DEFINE D(p) == Distance(tracks[p[1]].cell, at[p[2]])
           R(p) == rank[p[2]]
<1>1. \A p \in Pairs(at) : D(p) \in Nat /\ p[1] \in Nat /\ R(p) \in Nat
  BY PairFacts
<1>2. \A p, q : Better(p, q, at, rank) <=>
                  \/ D(p) < D(q)
                  \/ D(p) = D(q) /\ p[1] > q[1]
                  \/ D(p) = D(q) /\ p[1] = q[1] /\ R(p) > R(q)
  BY DEF Better
<1>3. \A p, q \in Pairs(at) : p[1] = q[1] /\ R(p) = R(q) => p = q
  <2> TAKE p, q \in Pairs(at)
  <2> HAVE p[1] = q[1] /\ R(p) = R(q)
  <2>1. /\ p = <<p[1], p[2]>> /\ p[2] \in DOMAIN at
        /\ q = <<q[1], q[2]>> /\ q[2] \in DOMAIN at
    BY PairFacts
  <2>2. p[2] = q[2]
    BY <2>1 DEF IsSighting
  <2> QED BY <2>1, <2>2
<1> HIDE DEF D, R
<1>4. \A p \in Pairs(at) : ~Better(p, p, at, rank)
  BY <1>1, <1>2
<1>5. \A p, q, r \in Pairs(at) :
        Better(p, q, at, rank) /\ Better(q, r, at, rank) => Better(p, r, at, rank)
  BY <1>1, <1>2
<1>6. \A p, q \in Pairs(at) : p # q => Better(p, q, at, rank) \/ Better(q, p, at, rank)
  BY <1>1, <1>2, <1>3
<1> QED
  BY <1>4, <1>5, <1>6

(***************************************************************************)
(* The pairs taken: what keeps a pair out is a better one for its track or *)
(* its detection; a track gets one detection, a detection one track.       *)
(***************************************************************************)
LEMMA MatchesFacts ==
  ASSUME RecordsTyped, NEW at, NEW rank, IsSighting(at, rank), NEW taken, taken = Matches(at, rank)
  PROVE  /\ taken \in SUBSET Pairs(at)
         /\ \A p \in Pairs(at) : p \notin taken =>
              \E q \in taken : Competes(p, q) /\ Better(q, p, at, rank)
         /\ \A p, q \in taken : Competes(p, q) => p = q
<1> DEFINE S == Pairs(at)
           better == {x \in S \X S : Better(x[1], x[2], at, rank)}
           rivals == {x \in S \X S : Competes(x[1], x[2])}
           Chosen(c) == \A p \in S : p \in c <=> ~\E q \in c : Competes(p, q) /\ Better(q, p, at, rank)
<1>1. \A p, q \in S : /\ <<p, q>> \in better <=> Better(p, q, at, rank)
                      /\ <<p, q>> \in rivals <=> Competes(p, q)
  OBVIOUS
<1> HIDE DEF S, better, rivals
<1>2. IsOrder(better, S)
  BY <1>1, BetterOrders DEF IsOrder, S
<1>3. IsFiniteSet(S)
  BY PairFacts DEF S
<1>4. PICK greedy \in SUBSET S : IsGreedy(greedy, S, better, rivals)
  BY <1>2, <1>3, GreedyChoice
<1>5. Chosen(greedy)
  BY <1>1, <1>4 DEF IsGreedy
<1>6. taken = CHOOSE c \in SUBSET S : Chosen(c)
  BY DEF Matches, S
<1> HIDE DEF Chosen
<1>7. taken \in SUBSET S /\ Chosen(taken)
  BY <1>5, <1>6
<1>8. \A p, q \in taken : Competes(p, q) => p = q
  <2> SUFFICES ASSUME NEW p \in taken, NEW q \in taken, Competes(p, q), p # q PROVE FALSE
    OBVIOUS
  <2>1. p \in S /\ q \in S /\ Competes(q, p)
    BY <1>7 DEF Competes
  <2>2. Better(p, q, at, rank) \/ Better(q, p, at, rank)
    BY <2>1, BetterOrders DEF S
  <2> QED BY <1>7, <2>1, <2>2 DEF Chosen
<1> QED
  BY <1>7, <1>8 DEF Chosen, S

-----------------------------------------------------------------------------
\* The parts of Tracked.
LooseOf(taken, at) == DOMAIN at \ {p[2] : p \in taken}
BornAs(taken, at, rank, v) == nextId + Cardinality({w \in LooseOf(taken, at) : rank[w] < rank[v]})

IdsOf(taken, at, rank) == {BornAs(taken, at, rank, v) : v \in LooseOf(taken, at)}

(***************************************************************************)
(* The new tracks get new ids, each its own, without a gap.                *)
(***************************************************************************)
LEMMA NewIds ==
  ASSUME RecordsTyped, NEW at, NEW rank, IsSighting(at, rank), NEW taken
  PROVE  /\ IsFiniteSet(IdsOf(taken, at, rank)) /\ Cardinality(IdsOf(taken, at, rank)) \in Nat
         /\ \A v \in LooseOf(taken, at) :
              /\ BornAs(taken, at, rank, v) \in Nat /\ BornAs(taken, at, rank, v) >= nextId
              /\ BornAs(taken, at, rank, v) < nextId + Cardinality(IdsOf(taken, at, rank))
         /\ \A v, w \in LooseOf(taken, at) :
              BornAs(taken, at, rank, v) = BornAs(taken, at, rank, w) => v = w
<1> DEFINE loose == LooseOf(taken, at)
           before(v) == {w \in loose : rank[w] < rank[v]}
           born(v) == BornAs(taken, at, rank, v)
           ids == {born(v) : v \in loose}
<1>0. nextId \in Nat
  BY DEF RecordsTyped
<1>1. IsFiniteSet(loose) /\ Cardinality(loose) \in Nat
  <2>1. IsFiniteSet(DOMAIN at) /\ loose \in SUBSET (DOMAIN at)
    BY PairFacts DEF LooseOf
  <2> HIDE DEF loose
  <2> QED BY <2>1, FS_Subset, FS_CardinalityType
<1>2. \A v \in loose : rank[v] \in Nat
  BY DEF LooseOf, IsSighting
<1>3. \A v, w \in loose : rank[v] = rank[w] => v = w
  BY DEF LooseOf, IsSighting
<1>4. \A v : born(v) = nextId + Cardinality(before(v))
  BY DEF BornAs
<1> HIDE DEF loose, born
<1>5. \A v \in loose : /\ IsFiniteSet(before(v)) /\ Cardinality(before(v)) \in Nat
                       /\ Cardinality(before(v)) < Cardinality(loose)
  <2> TAKE v \in loose
  <2>1. before(v) \in SUBSET loose /\ v \notin before(v)
    BY <1>2
  <2> DEFINE b == before(v)
  <2> HIDE DEF b
  <2>2. IsFiniteSet(b) /\ Cardinality(b) <= Cardinality(loose) /\ Cardinality(b) # Cardinality(loose)
    BY <1>1, <2>1, FS_Subset DEF b
  <2>3. Cardinality(b) \in Nat
    BY <2>2, FS_CardinalityType
  <2> QED BY <1>1, <2>2, <2>3 DEF b
<1>6. \A v, w \in loose : rank[v] < rank[w] => Cardinality(before(v)) < Cardinality(before(w))
  <2> SUFFICES ASSUME NEW v \in loose, NEW w \in loose, rank[v] < rank[w]
               PROVE  Cardinality(before(v)) < Cardinality(before(w))
    OBVIOUS
  <2> DEFINE a == before(v)
             b == before(w)
  <2>1. a \in SUBSET b /\ v \in b /\ v \notin a
    BY <1>2
  <2>2. IsFiniteSet(b) /\ Cardinality(a) \in Nat /\ Cardinality(b) \in Nat
    BY <1>5
  <2> HIDE DEF a, b
  <2>3. Cardinality(a) <= Cardinality(b) /\ Cardinality(a) # Cardinality(b)
    BY <2>1, <2>2, FS_Subset
  <2>4. Cardinality(a) < Cardinality(b)
    BY <2>2, <2>3
  <2> QED BY <2>4 DEF a, b
<1>7. \A v, w \in loose : born(v) = born(w) => v = w
  <2> SUFFICES ASSUME NEW v \in loose, NEW w \in loose, born(v) = born(w) PROVE v = w
    OBVIOUS
  <2> DEFINE a == Cardinality(before(v))
             b == Cardinality(before(w))
  <2>1. a \in Nat /\ b \in Nat /\ nextId + a = nextId + b
    BY <1>4, <1>5
  <2>2. (rank[v] < rank[w] => a < b) /\ (rank[w] < rank[v] => b < a)
    BY <1>6
  <2> HIDE DEF a, b
  <2>3. rank[v] = rank[w]
    BY <1>0, <1>2, <2>1, <2>2
  <2> QED BY <1>3, <2>3
<1>8. \A v \in loose : born(v) \in Nat /\ born(v) >= nextId /\ born(v) < nextId + Cardinality(loose)
  <2> TAKE v \in loose
  <2> DEFINE a == Cardinality(before(v))
  <2>1. a \in Nat /\ a < Cardinality(loose) /\ born(v) = nextId + a
    BY <1>4, <1>5
  <2> HIDE DEF a
  <2> QED BY <1>0, <1>1, <2>1
<1>9. IsFiniteSet(ids) /\ Cardinality(ids) \in Nat
  <2>1. ids \in SUBSET (nextId..(nextId + Cardinality(loose)))
    BY <1>0, <1>1, <1>8
  <2>2. IsFiniteSet(nextId..(nextId + Cardinality(loose)))
    BY <1>0, <1>1, FS_Interval
  <2> HIDE DEF ids
  <2> QED BY <2>1, <2>2, FS_Subset, FS_CardinalityType
<1>10. Cardinality(loose) <= Cardinality(ids)
  <2> DEFINE f == [v \in loose |-> born(v)]
  <2>1. \A v \in loose : f[v] \in ids
    OBVIOUS
  <2>2. \A v, w \in loose : f[v] = f[w] => v = w
    BY <1>7
  <2> HIDE DEF ids
  <2>3. f \in Injection(loose, ids)
    BY <2>1, <2>2 DEF Injection, IsInjective
  <2> QED BY <1>9, <2>3, FS_Injection
<1>11. \A v \in loose : born(v) \in Nat /\ born(v) >= nextId /\ born(v) < nextId + Cardinality(ids)
  <2> HIDE DEF ids
  <2> QED BY <1>0, <1>1, <1>8, <1>9, <1>10
<1> QED
  BY <1>7, <1>9, <1>11 DEF loose, born, IdsOf

(***************************************************************************)
(* update(): every track there is afterwards was matched, or created for a *)
(* detection that was not, or missed.                                      *)
(***************************************************************************)
LEMMA TrackedCases ==
  ASSUME RecordsTyped, NEW at, NEW rank, IsSighting(at, rank),
         NEW taken, taken = Matches(at, rank), NEW new, new = Followed(at, rank)
  PROVE  /\ \A p \in taken : /\ p[1] \in DOMAIN new /\ p[1] \in DOMAIN tracks
                             /\ new[p[1]] = Updated(tracks[p[1]], p[2], at)
         /\ \A v \in LooseOf(taken, at) :
              LET id == BornAs(taken, at, rank, v) IN
              id \in DOMAIN new /\ id \notin DOMAIN tracks /\ new[id] = Created(v, at)
         /\ \A id \in DOMAIN new :
              \/ \E p \in taken : p[1] = id
              \/ \E v \in LooseOf(taken, at) : id = BornAs(taken, at, rank, v)
              \/ id \in DOMAIN tracks /\ new[id] = [tracks[id] EXCEPT !.misses = @ + 1]
         /\ DOMAIN new \ DOMAIN tracks = IdsOf(taken, at, rank)
<1> DEFINE of(id)  == {p[2] : p \in {q \in taken : q[1] = id}}
           loose   == LooseOf(taken, at)
           born(v) == BornAs(taken, at, rank, v)
           kept    == {id \in DOMAIN tracks : of(id) # {} \/ Survives(tracks[id])}
           ids     == {born(v) : v \in loose}
           Now(id) == IF id \notin kept THEN Created(CHOOSE v \in loose : born(v) = id, at)
                      ELSE IF of(id) # {} THEN Updated(tracks[id], CHOOSE v \in of(id) : TRUE, at)
                      ELSE [tracks[id] EXCEPT !.misses = @ + 1]
<1>1. new = [id \in kept \cup ids |-> Now(id)]
  BY DEF Followed, LooseOf, BornAs
<1>2. /\ taken \in SUBSET Pairs(at)
      /\ \A p, q \in taken : Competes(p, q) => p = q
  BY MatchesFacts
<1>3. \A p \in taken : p[1] \in DOMAIN tracks /\ p[2] \in of(p[1])
  BY <1>2, PairFacts
<1>4. ASSUME NEW p \in taken PROVE of(p[1]) = {p[2]}
  <2>1. \A q \in taken : q[1] = p[1] => q = p
    BY <1>2 DEF Competes
  <2> QED BY <2>1
<1>5. \A id : of(id) # {} => \E p \in taken : p[1] = id
  OBVIOUS
<1> HIDE DEF of
<1>6. /\ \A v \in loose : born(v) \in Nat /\ born(v) >= nextId
      /\ \A v, w \in loose : born(v) = born(w) => v = w
  <2> HIDE DEF ids, kept, Now
  <2> QED BY NewIds
<1>7. \A id \in DOMAIN tracks : id \in Nat /\ id < nextId
  BY DEF RecordsTyped
<1>8. \A v \in loose : born(v) \notin DOMAIN tracks
  <2> HIDE DEF ids, kept, Now, loose, born
  <2>1. nextId \in Nat
    BY DEF RecordsTyped
  <2> QED BY <1>6, <1>7, <2>1
<1> HIDE DEF loose, born
<1>9. DOMAIN new = kept \cup ids /\ \A id \in kept \cup ids : new[id] = Now(id)
  <2> HIDE DEF kept, ids, Now
  <2> QED BY <1>1
<1>10. ASSUME NEW p \in taken
       PROVE  /\ p[1] \in DOMAIN new /\ p[1] \in DOMAIN tracks
              /\ new[p[1]] = Updated(tracks[p[1]], p[2], at)
  <2>1. p[1] \in kept
    BY <1>3
  <2>2. of(p[1]) # {} /\ (CHOOSE v \in of(p[1]) : TRUE) = p[2]
    BY <1>4
  <2>3. Now(p[1]) = Updated(tracks[p[1]], p[2], at)
    <3> HIDE DEF kept
    <3> QED BY <2>1, <2>2
  <2> HIDE DEF Now, kept, ids
  <2> QED BY <1>3, <1>9, <2>1, <2>3
<1>11. ASSUME NEW v \in loose
       PROVE  born(v) \in DOMAIN new /\ born(v) \notin DOMAIN tracks /\ new[born(v)] = Created(v, at)
  <2>1. born(v) \notin kept
    BY <1>8
  <2>2. (CHOOSE w \in loose : born(w) = born(v)) = v
    BY <1>6
  <2>3. Now(born(v)) = Created(v, at)
    <3> HIDE DEF kept
    <3> QED BY <2>1, <2>2
  <2>4. born(v) \in ids
    OBVIOUS
  <2> HIDE DEF Now, kept, ids
  <2> QED BY <1>8, <1>9, <2>3, <2>4
<1>12. ASSUME NEW id \in DOMAIN new
       PROVE  \/ \E p \in taken : p[1] = id
              \/ \E v \in loose : id = born(v)
              \/ id \in DOMAIN tracks /\ new[id] = [tracks[id] EXCEPT !.misses = @ + 1]
  <2>1. CASE id \in ids
    BY <2>1
  <2>2. CASE id \notin ids /\ of(id) # {}
    BY <1>5, <2>2
  <2>3. CASE id \notin ids /\ of(id) = {}
    <3>1. id \in kept
      <4> HIDE DEF kept, ids
      <4> QED BY <1>9, <2>3
    <3>2. Now(id) = [tracks[id] EXCEPT !.misses = @ + 1]
      BY <2>3, <3>1
    <3>3. id \in DOMAIN tracks
      BY <3>1
    <3> HIDE DEF Now, kept, ids
    <3> QED BY <1>9, <3>1, <3>2, <3>3
  <2> QED BY <2>1, <2>2, <2>3
<1>13. DOMAIN new \ DOMAIN tracks = ids
  <2>1. kept \subseteq DOMAIN tracks
    OBVIOUS
  <2>2. \A id \in ids : id \notin DOMAIN tracks
    BY <1>8
  <2> HIDE DEF kept, ids
  <2> QED BY <1>9, <2>1, <2>2
<1> QED
  BY <1>10, <1>11, <1>12, <1>13 DEF loose, born, IdsOf

\* The tracks seen in a frame follow its detections, one each.
FollowsFrame(new, at) ==
  /\ \A id \in DOMAIN new : new[id].misses = 0 =>
       new[id].vehicle \in DOMAIN at /\ new[id].cell = at[new[id].vehicle]
  /\ \A id, other \in DOMAIN new :
       new[id].misses = 0 /\ new[other].misses = 0 /\ new[id].vehicle = new[other].vehicle => id = other
  /\ \A v \in DOMAIN at : \E id \in DOMAIN new : new[id].misses = 0 /\ new[id].vehicle = v

\* What became of the record of a track that is seen in a frame.
GrowsFrom(new, at) ==
  \A id \in DOMAIN new : new[id].misses = 0 =>
    IF id \in DOMAIN tracks
    THEN /\ new[id] = Updated(tracks[id], new[id].vehicle, at)
         /\ Distance(tracks[id].cell, new[id].cell) <= Reach
    ELSE new[id] = Created(new[id].vehicle, at)

LEMMA CappedIs ==
  ASSUME NEW n \in Nat, NEW bound \in Nat
  PROVE  /\ Capped(n, bound) \in 0..bound /\ Capped(n, bound) <= n
         /\ n >= 1 /\ bound >= 1 => Capped(n, bound) \in 1..bound
BY DEF Capped

LEMMA UpdatedMade ==
  ASSUME NEW at, NEW rank, IsSighting(at, rank), NEW v \in DOMAIN at, NEW record \in Record
  PROVE  /\ Updated(record, v, at) \in Record /\ Updated(record, v, at).misses = 0
         /\ Updated(record, v, at).vehicle = v /\ Updated(record, v, at).cell = at[v]
<1>1. at[v] \in 0..Length /\ at[v] \in Int /\ v \in Vehicles
  BY Limits DEF IsSighting
<1>2. /\ record.cell \in Int /\ record.hits \in 1..MinHits /\ record.misses \in Nat
      /\ record.row \in 1..MaxStopped
  BY FieldsTyped
<1>3. /\ Distance(record.cell, at[v]) \in Nat
      /\ Capped(record.hits + 1, MinHits) \in 1..MinHits
      /\ Capped(record.row + 1, MaxStopped) \in 1..MaxStopped
      /\ 1 \in 1..MaxStopped
  <2>1. record.hits + 1 \in Nat /\ record.hits + 1 >= 1 /\ record.row + 1 \in Nat /\ record.row + 1 >= 1
    BY <1>2, Limits
  <2>2. MinHits \in Nat /\ MinHits >= 1 /\ MaxStopped \in Nat /\ MaxStopped >= 1
    BY Limits
  <2>3. Distance(record.cell, at[v]) \in Nat
    BY <1>1, <1>2, DistanceIsNat
  <2>4. Capped(record.hits + 1, MinHits) \in 1..MinHits
    BY <2>1, <2>2, CappedIs
  <2>5. Capped(record.row + 1, MaxStopped) \in 1..MaxStopped
    BY <2>1, <2>2, CappedIs
  <2> QED BY <2>2, <2>3, <2>4, <2>5
<1> DEFINE row == IF record.vehicle = v /\ record.misses = 0 THEN Capped(record.row + 1, MaxStopped) ELSE 1
<1>4. row \in 1..MaxStopped
  BY <1>3
<1> HIDE DEF row
<1>5. Updated(record, v, at) = [cell |-> at[v], speed |-> Distance(record.cell, at[v]),
                                hits |-> Capped(record.hits + 1, MinHits), misses |-> 0,
                                vehicle |-> v, row |-> row]
  BY DEF Updated, row
<1> QED
  BY <1>1, <1>3, <1>4, <1>5 DEF Record

(***************************************************************************)
(* One frame of the tracker.                                               *)
(***************************************************************************)
LEMMA TrackedFacts ==
  ASSUME RecordsTyped, NEW at, NEW rank, IsSighting(at, rank), NEW new, new = Followed(at, rank)
  PROVE  /\ \A id \in DOMAIN new : new[id] \in Record
         /\ IsFiniteSet(DOMAIN new)
         /\ Cardinality(DOMAIN new \ DOMAIN tracks) \in Nat
         /\ DOMAIN new \subseteq 1..(nextId + Cardinality(DOMAIN new \ DOMAIN tracks) - 1)
         /\ FollowsFrame(new, at) /\ GrowsFrom(new, at)
<1> DEFINE taken == Matches(at, rank)
           loose == LooseOf(taken, at)
           born(v) == BornAs(taken, at, rank, v)
           ids == {born(v) : v \in loose}
<1>1. /\ \A p \in taken : /\ p[1] \in DOMAIN new /\ p[1] \in DOMAIN tracks
                          /\ new[p[1]] = Updated(tracks[p[1]], p[2], at)
      /\ \A v \in loose : /\ born(v) \in DOMAIN new /\ born(v) \notin DOMAIN tracks
                          /\ new[born(v)] = Created(v, at)
      /\ \A id \in DOMAIN new :
           \/ \E p \in taken : p[1] = id
           \/ \E v \in loose : id = born(v)
           \/ id \in DOMAIN tracks /\ new[id] = [tracks[id] EXCEPT !.misses = @ + 1]
      /\ DOMAIN new \ DOMAIN tracks = ids
  BY TrackedCases DEF IdsOf
<1>2. /\ taken \in SUBSET Pairs(at)
      /\ \A p, q \in taken : Competes(p, q) => p = q
  BY MatchesFacts
<1>3. \A p \in taken : /\ p = <<p[1], p[2]>> /\ p[1] \in DOMAIN tracks /\ p[2] \in DOMAIN at
                       /\ Distance(tracks[p[1]].cell, at[p[2]]) <= Reach
  BY <1>2, PairFacts DEF Pairs
<1>4. /\ Cardinality(ids) \in Nat
      /\ \A v \in loose : born(v) \in Nat /\ born(v) >= nextId /\ born(v) < nextId + Cardinality(ids)
      /\ \A v, w \in loose : born(v) = born(w) => v = w
  <2>1. ids = IdsOf(taken, at, rank)
    BY DEF IdsOf
  <2> HIDE DEF ids
  <2> QED BY <2>1, NewIds
<1>5. /\ \A v \in loose : v \in DOMAIN at /\ \A p \in taken : p[2] # v
      /\ \A v \in DOMAIN at : v \in loose \/ \E p \in taken : p[2] = v
  BY DEF LooseOf
<1>6. \A id \in DOMAIN tracks : tracks[id] \in Record
  BY DEF RecordsTyped
<1> HIDE DEF taken, loose, born
<1>7. ASSUME NEW p \in taken
      PROVE  /\ new[p[1]] \in Record /\ new[p[1]].misses = 0 /\ new[p[1]].vehicle = p[2]
             /\ new[p[1]].cell = at[p[2]]
  <2> DEFINE v == p[2]
             record == tracks[p[1]]
  <2>1. v \in DOMAIN at /\ record \in Record /\ new[p[1]] = Updated(record, v, at)
    BY <1>1, <1>3, <1>6
  <2> HIDE DEF v, record
  <2>2. /\ Updated(record, v, at) \in Record /\ Updated(record, v, at).misses = 0
        /\ Updated(record, v, at).vehicle = v /\ Updated(record, v, at).cell = at[v]
    BY <2>1, UpdatedMade
  <2> QED BY <2>1, <2>2 DEF v
<1>8. ASSUME NEW v \in loose
      PROVE  /\ new[born(v)] \in Record /\ new[born(v)].misses = 0 /\ new[born(v)].vehicle = v
             /\ new[born(v)].cell = at[v]
  <2>1. v \in DOMAIN at
    BY <1>5
  <2>2. new[born(v)] = Created(v, at)
    BY <1>1
  <2>3. at[v] \in 0..Length /\ v \in Vehicles /\ 1 \in 1..MinHits /\ 1 \in 1..MaxStopped
    BY <2>1, Limits DEF IsSighting
  <2> QED BY <2>2, <2>3 DEF Created, Record
<1>9. ASSUME NEW id \in DOMAIN new, ~\E p \in taken : p[1] = id, ~\E v \in loose : id = born(v)
      PROVE  new[id] \in Record /\ new[id].misses # 0
  <2>1. id \in DOMAIN tracks /\ new[id] = [tracks[id] EXCEPT !.misses = @ + 1]
    BY <1>1, <1>9
  <2>2. tracks[id] \in Record /\ tracks[id].misses \in Nat
    BY <1>6, <2>1, FieldsTyped
  <2> QED BY <2>1, <2>2 DEF Record
<1>10. \A id \in DOMAIN new : new[id] \in Record
  BY <1>7, <1>8, <1>9
<1>11. DOMAIN new \subseteq 1..(nextId + Cardinality(ids) - 1)
  <2>1. nextId \in Nat \ {0} /\ \A id \in DOMAIN tracks : id \in Nat /\ id >= 1 /\ id < nextId
    BY DEF RecordsTyped
  <2>2. \A id \in DOMAIN new : id \in DOMAIN tracks \/ id \in ids
    BY <1>1
  <2> SUFFICES ASSUME NEW id \in DOMAIN new PROVE id \in 1..(nextId + Cardinality(ids) - 1)
    OBVIOUS
  <2>3. CASE id \in DOMAIN tracks
    <3> HIDE DEF ids
    <3> QED BY <1>4, <2>1, <2>3
  <2>4. CASE id \in ids
    <3>1. PICK v \in loose : id = born(v)
      BY <2>4
    <3> HIDE DEF ids
    <3> QED BY <1>4, <2>1, <3>1
  <2> QED BY <2>2, <2>3, <2>4
<1>12. IsFiniteSet(DOMAIN new)
  <2> DEFINE top == nextId + Cardinality(ids) - 1
  <2>1. top \in Int
    BY <1>4 DEF RecordsTyped
  <2> HIDE DEF top
  <2>2. IsFiniteSet(1..top)
    BY <2>1, FS_Interval
  <2> QED BY <1>11, <2>2, FS_Subset DEF top
<1>13. FollowsFrame(new, at)
  <2>1. ASSUME NEW id \in DOMAIN new, new[id].misses = 0
        PROVE  new[id].vehicle \in DOMAIN at /\ new[id].cell = at[new[id].vehicle]
    <3>1. CASE \E p \in taken : p[1] = id
      BY <1>3, <1>7, <3>1
    <3>2. CASE \E v \in loose : id = born(v)
      BY <1>5, <1>8, <3>2
    <3> QED BY <1>9, <2>1, <3>1, <3>2
  <2>2. ASSUME NEW id \in DOMAIN new, NEW other \in DOMAIN new, new[id].misses = 0, new[other].misses = 0,
               new[id].vehicle = new[other].vehicle
        PROVE  id = other
    <3>1. /\ (\E p \in taken : p[1] = id) \/ \E v \in loose : id = born(v)
          /\ (\E p \in taken : p[1] = other) \/ \E v \in loose : other = born(v)
      BY <1>9, <2>2
    <3>2. CASE \E p \in taken : p[1] = id
      <4>1. PICK p \in taken : p[1] = id
        BY <3>2
      <4>2. new[id].vehicle = p[2]
        BY <1>7, <4>1
      <4>3. CASE \E q \in taken : q[1] = other
        <5>1. PICK q \in taken : q[1] = other
          BY <4>3
        <5>2. q[2] = p[2]
          BY <1>7, <2>2, <4>2, <5>1
        <5>3. p = q
          BY <1>2, <5>2 DEF Competes
        <5> QED BY <4>1, <5>1, <5>3
      <4>4. CASE \E v \in loose : other = born(v)
        <5>1. PICK v \in loose : other = born(v)
          BY <4>4
        <5>2. v = p[2]
          BY <1>8, <2>2, <4>2, <5>1
        <5> QED BY <1>5, <5>2
      <4> QED BY <3>1, <4>3, <4>4
    <3>3. CASE \E v \in loose : id = born(v)
      <4>1. PICK v \in loose : id = born(v)
        BY <3>3
      <4>2. new[id].vehicle = v
        BY <1>8, <4>1
      <4>3. CASE \E q \in taken : q[1] = other
        <5>1. PICK q \in taken : q[1] = other
          BY <4>3
        <5>2. q[2] = v
          BY <1>7, <2>2, <4>2, <5>1
        <5> QED BY <1>5, <5>2
      <4>4. CASE \E w \in loose : other = born(w)
        <5>1. PICK w \in loose : other = born(w)
          BY <4>4
        <5>2. v = w
          BY <1>8, <2>2, <4>2, <5>1
        <5> QED BY <4>1, <5>1, <5>2
      <4> QED BY <3>1, <4>3, <4>4
    <3> QED BY <3>1, <3>2, <3>3
  <2>3. ASSUME NEW v \in DOMAIN at
        PROVE  \E id \in DOMAIN new : new[id].misses = 0 /\ new[id].vehicle = v
    <3>1. CASE v \in loose
      BY <1>1, <1>8, <3>1
    <3>2. CASE v \notin loose
      <4>1. PICK p \in taken : p[2] = v
        BY <1>5, <3>2
      <4> QED BY <1>1, <1>7, <4>1
    <3> QED BY <3>1, <3>2
  <2> QED BY <2>1, <2>2, <2>3 DEF FollowsFrame
<1>14. GrowsFrom(new, at)
  <2> SUFFICES ASSUME NEW id \in DOMAIN new, new[id].misses = 0
               PROVE  IF id \in DOMAIN tracks
                      THEN /\ new[id] = Updated(tracks[id], new[id].vehicle, at)
                           /\ Distance(tracks[id].cell, new[id].cell) <= Reach
                      ELSE new[id] = Created(new[id].vehicle, at)
    BY DEF GrowsFrom
  <2>1. CASE \E p \in taken : p[1] = id
    BY <1>1, <1>3, <1>7, <2>1
  <2>2. CASE \E v \in loose : id = born(v)
    BY <1>1, <1>8, <2>2
  <2> QED BY <1>9, <2>1, <2>2
<1> QED
  BY <1>1, <1>4, <1>10, <1>11, <1>12, <1>13, <1>14

(***************************************************************************)
(* A detection that is nearer to some track, within its reach, than any    *)
(* other detection goes to a track there was, that one or another.         *)
(***************************************************************************)
LEMMA NearestIsMatched ==
  ASSUME RecordsTyped, NEW at, NEW rank, IsSighting(at, rank), NEW new, new = Followed(at, rank),
         NEW id \in DOMAIN tracks, NEW v \in DOMAIN at,
         Distance(tracks[id].cell, at[v]) <= Reach,
         \A w \in DOMAIN at : w # v => Distance(tracks[id].cell, at[w]) > Distance(tracks[id].cell, at[v])
  PROVE  \E other \in DOMAIN new : /\ other \in DOMAIN tracks
                                   /\ new[other] = Updated(tracks[other], v, at)
<1> DEFINE taken == Matches(at, rank)
           p == <<id, v>>
<1>1. /\ taken \in SUBSET Pairs(at)
      /\ p \in Pairs(at) /\ p \notin taken => \E q \in taken : Competes(p, q) /\ Better(q, p, at, rank)
  BY MatchesFacts
<1>2. \A q \in taken : /\ q[1] \in DOMAIN new /\ q[1] \in DOMAIN tracks
                       /\ new[q[1]] = Updated(tracks[q[1]], q[2], at)
  BY TrackedCases
<1>3. p \in Pairs(at)
  BY DEF Pairs
<1> SUFFICES \E q \in taken : q[2] = v
  BY <1>2
<1>4. CASE p \in taken
  BY <1>4
<1>5. CASE p \notin taken
  <2>1. PICK q \in taken : Competes(p, q) /\ Better(q, p, at, rank)
    BY <1>1, <1>3, <1>5
  <2>2. q \in Pairs(at) /\ q[1] \in DOMAIN tracks /\ q[2] \in DOMAIN at
    BY <1>1, PairFacts
  <2>3. CASE q[2] = v
    BY <2>3
  <2>4. CASE q[2] # v
    <3>1. q[1] = id
      BY <2>1, <2>4 DEF Competes
    <3> DEFINE near == Distance(tracks[id].cell, at[v])
               far == Distance(tracks[id].cell, at[q[2]])
    <3>2. near \in Nat /\ far \in Nat
      <4>1. near = Distance(tracks[p[1]].cell, at[p[2]]) /\ far = Distance(tracks[q[1]].cell, at[q[2]])
        BY <3>1
      <4> HIDE DEF near, far
      <4> QED BY <1>3, <2>2, <4>1, PairFacts
    <3>3. far > near
      BY <2>2, <2>4
    <3>4. far <= near
      <4>1. far < near \/ far = near
        BY <2>1, <3>1 DEF Better
      <4> QED BY <3>2, <4>1
    <3> HIDE DEF near, far
    <3> QED BY <3>2, <3>3, <3>4
  <2> QED BY <2>3, <2>4
<1> QED
  BY <1>4, <1>5

-----------------------------------------------------------------------------
(***************************************************************************)
(* The inductive invariant of the perception: vehicles keep their          *)
(* distance; the analyzer knows exactly the confirmed tracks; a vehicle    *)
(* seen in the last frame is where a track of it says.                     *)
(***************************************************************************)
SpacedRoad ==
  /\ road \in [Vehicles -> Ahead..Past]
  /\ \A v, w \in Vehicles :
       v # w /\ InRegion(road[v]) /\ InRegion(road[w]) => Distance(road[v], road[w]) >= Gap

AnalyzerTyped ==
  /\ seen \in [Vehicles -> 0..MinHits]
  /\ DOMAIN movement = Confirmed(tracks)
  /\ \A id \in DOMAIN movement :
       movement[id].stopped \in 0..MaxStopped /\ (movement[id].moving => movement[id].stopped = 0)
  /\ bridged \subseteq DOMAIN movement

SeenIsFollowed ==
  /\ \A id \in DOMAIN tracks :
       tracks[id].misses = 0 /\ seen[tracks[id].vehicle] > 0 => tracks[id].cell = road[tracks[id].vehicle]
  /\ \A v \in Vehicles : seen[v] > 0 =>
       InRegion(road[v]) /\ \E id \in DOMAIN tracks : tracks[id].misses = 0 /\ tracks[id].vehicle = v
  /\ \A id \in DOMAIN movement \ bridged : seen[tracks[id].vehicle] > 0

PerceptionInv == SpacedRoad /\ RecordsTyped /\ AnalyzerTyped /\ SeenIsFollowed

(***************************************************************************)
(* The traffic.                                                            *)
(***************************************************************************)
LEMMA MoveFacts ==
  ASSUME SpacedRoad, Move
  PROVE  /\ SpacedRoad'
         /\ \A v \in Vehicles :
              /\ road[v] \in Int /\ road'[v] \in Int
              /\ InRegion(road'[v]) => /\ road'[v] >= 0 /\ road'[v] <= Length
                                       /\ \/ road[v] = Ahead /\ road'[v] = 0
                                          \/ InRegion(road[v])
              /\ InRegion(road[v]) => /\ road[v] >= 0 /\ road[v] <= Length
                                      /\ road'[v] >= road[v] /\ road'[v] - road[v] <= TopSpeed
         /\ \A v, w \in Vehicles :
              v # w /\ InRegion(road'[v]) /\ InRegion(road'[w]) => Distance(road'[v], road'[w]) >= Gap
<1>1. /\ road' \in [Vehicles -> Ahead..Past]
      /\ \A v \in Vehicles :
           \/ road'[v] = road[v]
           \/ road[v] = Ahead /\ road'[v] = 0
           \/ road[v] \in 0..Length /\ road'[v] - road[v] \in 1..TopSpeed
      /\ \A v, w \in Vehicles :
           v # w /\ InRegion(road'[v]) /\ InRegion(road'[w]) => Distance(road'[v], road'[w]) >= Gap
  <2>1. PICK way \in [Vehicles -> 0..TopSpeed] :
          /\ road' = [v \in Vehicles |-> road[v] + way[v]]
          /\ \A v \in Vehicles :
               way[v] # 0 => \/ road[v] = Ahead /\ road'[v] = 0
                             \/ road[v] \in 0..Length /\ road'[v] <= Past
          /\ \A v, w \in Visible : v # w => Distance(road'[v], road'[w]) >= Gap
    BY DEF Move
  <2>2. ASSUME NEW v \in Vehicles
        PROVE  /\ road'[v] \in Ahead..Past
               /\ \/ road'[v] = road[v]
                  \/ road[v] = Ahead /\ road'[v] = 0
                  \/ road[v] \in 0..Length /\ road'[v] - road[v] \in 1..TopSpeed
    <3>1. /\ road[v] \in Ahead..Past /\ way[v] \in 0..TopSpeed
          /\ road'[v] = road[v] + way[v]
          /\ way[v] # 0 => \/ road[v] = Ahead /\ road'[v] = 0
                           \/ road[v] \in 0..Length /\ road'[v] <= Past
      BY <2>1 DEF SpacedRoad
    <3> QED BY <3>1, Limits DEF Ahead, Past
  <2>3. DOMAIN road' = Vehicles /\ road' = [v \in Vehicles |-> road'[v]]
    BY <2>1
  <2> QED BY <2>1, <2>2, <2>3 DEF Visible
<1>2. SpacedRoad'
  BY <1>1 DEF SpacedRoad, InRegion, Past, Ahead, Distance
<1>3. road \in [Vehicles -> Ahead..Past]
  BY DEF SpacedRoad
<1>4. /\ Length \in Nat /\ TopSpeed \in Nat /\ \A x \in Ahead..Past : x \in Int
  BY Limits DEF Ahead, Past
<1>5. ASSUME NEW v \in Vehicles
      PROVE  /\ road[v] \in Int /\ road'[v] \in Int
             /\ InRegion(road'[v]) => /\ road'[v] >= 0 /\ road'[v] <= Length
                                      /\ \/ road[v] = Ahead /\ road'[v] = 0
                                         \/ InRegion(road[v])
             /\ InRegion(road[v]) => /\ road[v] >= 0 /\ road[v] <= Length
                                     /\ road'[v] >= road[v] /\ road'[v] - road[v] <= TopSpeed
  <2>1. road[v] \in Int /\ road'[v] \in Int
    BY <1>1, <1>3, <1>4
  <2>2. \/ road'[v] = road[v]
        \/ road[v] = Ahead /\ road'[v] = 0
        \/ road[v] \in 0..Length /\ road'[v] - road[v] \in 1..TopSpeed
    BY <1>1
  <2> QED BY <1>4, <2>1, <2>2 DEF InRegion, Ahead
<1> QED
  BY <1>1, <1>2, <1>5

(***************************************************************************)
(* A frame, as the tracker is given it (PerceptionPipeline.process).       *)
(***************************************************************************)
LEMMA ProcessFacts ==
  ASSUME SpacedRoad, RecordsTyped, Move, NEW detected, detected \subseteq Visible, Process(detected)
  PROVE  \E at, rank :
           /\ IsSighting(at, rank) /\ DOMAIN at = detected
           /\ \A v \in detected : at[v] = road'[v] /\ v \in Vehicles /\ InRegion(road'[v])
           /\ tracks' = Followed(at, rank)
           /\ nextId' = nextId + Cardinality(DOMAIN tracks' \ DOMAIN tracks)
           /\ movement' = Analyzed(tracks')
           /\ seen' = [v \in Vehicles |-> IF v \in detected THEN Capped(seen[v] + 1, MinHits) ELSE 0]
           /\ bridged' = bridged \cap DOMAIN movement'
<1> DEFINE at == Restrict(road', detected)
<1>1. PICK rank \in [detected -> 1..Cardinality(detected)] :
        /\ \A v, w \in detected : rank[v] = rank[w] => v = w
        /\ tracks' = Followed(at, rank)
        /\ nextId' = nextId + Cardinality(DOMAIN tracks' \ DOMAIN tracks)
        /\ movement' = Analyzed(tracks')
        /\ seen' = [v \in Vehicles |-> IF v \in detected THEN Capped(seen[v] + 1, MinHits) ELSE 0]
        /\ bridged' = bridged \cap DOMAIN movement'
  BY DEF Process
<1>2. DOMAIN at = detected /\ \A v \in detected : at[v] = road'[v]
  BY DEF Restrict
<1>3. \A v \in detected : v \in Vehicles /\ InRegion(road'[v])
  BY DEF Visible
<1>4. \A v \in detected : rank[v] \in Nat
  <2>1. \A n : \A x \in 1..n : x \in Nat
    OBVIOUS
  <2> QED BY <2>1
<1> HIDE DEF at
<1>5. IsSighting(at, rank)
  BY <1>1, <1>2, <1>3, <1>4 DEF IsSighting, InRegion
<1> QED
  BY <1>1, <1>2, <1>3, <1>5

(***************************************************************************)
(* What the analyzer makes of a track.                                     *)
(***************************************************************************)
LEMMA ClassifiedFacts ==
  ASSUME AnalyzerTyped, NEW id, NEW records
  PROVE  /\ Classified(id, records).stopped \in 0..MaxStopped
         /\ Classified(id, records).moving => Classified(id, records).stopped = 0
         /\ id \notin DOMAIN movement => Classified(id, records).stopped <= 1
         /\ id \in DOMAIN movement =>
              Classified(id, records).stopped <= Capped(movement[id].stopped + 1, MaxStopped)
         /\ id \in DOMAIN movement /\ movement[id].stopped # 0 /\ records[id].speed >= ResumeSpeed =>
              Classified(id, records).stopped = 0
<1> DEFINE moving == IsMoving(id, records[id].speed)
           had == IF id \in DOMAIN movement THEN movement[id].stopped ELSE 0
           c == Classified(id, records)
<1>1. c.moving = moving /\ c.stopped = IF moving THEN 0 ELSE Capped(1 + had, MaxStopped)
  BY DEF Classified, StoppedFor
<1>2. had \in Nat /\ MaxStopped \in Nat \ {0}
  BY Limits DEF AnalyzerTyped
<1>3. Capped(1 + had, MaxStopped) \in 0..MaxStopped /\ Capped(1 + had, MaxStopped) <= 1 + had
  <2> HIDE DEF had
  <2>1. 1 + had \in Nat /\ MaxStopped \in Nat
    BY <1>2
  <2> DEFINE n == 1 + had
  <2> HIDE DEF n
  <2> QED BY <2>1, CappedIs DEF n
<1>4. id \in DOMAIN movement /\ movement[id].stopped # 0 /\ records[id].speed >= ResumeSpeed => moving
  BY DEF IsMoving, AnalyzerTyped
<1>5. 1 + had = had + 1 /\ (id \notin DOMAIN movement => had = 0)
      /\ (id \in DOMAIN movement => had = movement[id].stopped)
  BY <1>2
<1> HIDE DEF moving, had, c
<1>6. c.stopped \in 0..MaxStopped /\ (c.moving => c.stopped = 0)
  BY <1>1, <1>2, <1>3
<1>7. id \notin DOMAIN movement => c.stopped <= 1
  BY <1>1, <1>3, <1>5
<1>8. id \in DOMAIN movement => c.stopped <= Capped(movement[id].stopped + 1, MaxStopped)
  BY <1>1, <1>2, <1>3, <1>5
<1> QED
  BY <1>1, <1>4, <1>6, <1>7, <1>8 DEF c

(***************************************************************************)
(* The invariant through a frame that is tracked.                          *)
(***************************************************************************)
LEMMA ProcessKeepsInv ==
  ASSUME PerceptionInv, Move, NEW detected, detected \subseteq Visible, Process(detected)
  PROVE  PerceptionInv'
<1>0. SpacedRoad /\ RecordsTyped /\ AnalyzerTyped /\ SeenIsFollowed
  BY DEF PerceptionInv
<1>1. PICK at, rank :
        /\ IsSighting(at, rank) /\ DOMAIN at = detected
        /\ \A v \in detected : at[v] = road'[v] /\ v \in Vehicles /\ InRegion(road'[v])
        /\ tracks' = Followed(at, rank)
        /\ nextId' = nextId + Cardinality(DOMAIN tracks' \ DOMAIN tracks)
        /\ movement' = Analyzed(tracks')
        /\ seen' = [v \in Vehicles |-> IF v \in detected THEN Capped(seen[v] + 1, MinHits) ELSE 0]
        /\ bridged' = bridged \cap DOMAIN movement'
  BY <1>0, ProcessFacts
<1>2. /\ \A id \in DOMAIN tracks' : tracks'[id] \in Record
      /\ Cardinality(DOMAIN tracks' \ DOMAIN tracks) \in Nat
      /\ DOMAIN tracks' \subseteq 1..(nextId + Cardinality(DOMAIN tracks' \ DOMAIN tracks) - 1)
      /\ FollowsFrame(tracks', at)
  BY <1>0, <1>1, TrackedFacts
<1>3. RecordsTyped'
  <2>1. nextId' \in Nat \ {0}
    BY <1>0, <1>1, <1>2 DEF RecordsTyped
  <2>2. PICK n \in Nat : nextId' = nextId + n /\ DOMAIN tracks' \subseteq 1..(nextId + n - 1)
    BY <1>1, <1>2
  <2>3. nextId \in Nat
    BY <1>0 DEF RecordsTyped
  <2>4. DOMAIN tracks' \subseteq 1..(nextId' - 1)
    BY <2>2, <2>3
  <2> QED BY <1>2, <2>1, <2>4 DEF RecordsTyped, Record
<1>4. SpacedRoad'
  BY <1>0, MoveFacts
<1>5. AnalyzerTyped'
  <2>1. seen' \in [Vehicles -> 0..MinHits]
    <3>1. \A v \in Vehicles : seen[v] + 1 \in Nat /\ Capped(seen[v] + 1, MinHits) \in 0..MinHits
      <4>1. \A v \in Vehicles : seen[v] + 1 \in Nat
        BY <1>0 DEF AnalyzerTyped
      <4> QED BY <4>1, Limits, CappedIs
    <3>2. 0 \in 0..MinHits
      BY Limits
    <3> QED BY <1>1, <3>1, <3>2
  <2>2. DOMAIN movement' = Confirmed(tracks')
    BY <1>1 DEF Analyzed
  <2>3. \A id \in DOMAIN movement' : /\ movement'[id].stopped \in 0..MaxStopped
                                     /\ movement'[id].moving => movement'[id].stopped = 0
    <3> TAKE id \in DOMAIN movement'
    <3>1. movement'[id] = Classified(id, tracks')
      BY <1>1 DEF Analyzed
    <3> QED BY <1>0, <3>1, ClassifiedFacts
  <2>4. bridged' \subseteq DOMAIN movement'
    BY <1>1
  <2> QED BY <2>1, <2>2, <2>3, <2>4 DEF AnalyzerTyped, Confirmed
<1>6. SeenIsFollowed'
  <2>1. \A v \in Vehicles : seen'[v] > 0 <=> v \in detected
    <3>1. \A v \in Vehicles : v \in detected => seen'[v] = Capped(seen[v] + 1, MinHits)
      BY <1>1
    <3>2. \A v \in Vehicles : seen[v] \in Nat
      BY <1>0 DEF AnalyzerTyped
    <3>3. \A v \in Vehicles : Capped(seen[v] + 1, MinHits) > 0
      BY <3>2, Limits DEF Capped
    <3>4. \A v \in Vehicles : v \notin detected => seen'[v] = 0
      BY <1>1
    <3> QED BY <3>1, <3>3, <3>4
  <2>2. \A id \in DOMAIN tracks' : tracks'[id].misses = 0 =>
          tracks'[id].vehicle \in detected /\ tracks'[id].cell = road'[tracks'[id].vehicle]
    BY <1>1, <1>2 DEF FollowsFrame
  <2>3. \A v \in detected : \E id \in DOMAIN tracks' : tracks'[id].misses = 0 /\ tracks'[id].vehicle = v
    BY <1>1, <1>2 DEF FollowsFrame
  <2>4. \A id \in DOMAIN movement' : id \in DOMAIN tracks' /\ tracks'[id].misses = 0
    BY <1>1 DEF Analyzed, Confirmed
  <2>5. \A v \in detected : v \in Vehicles /\ InRegion(road'[v])
    BY <1>1
  <2>6. \A id \in DOMAIN movement' : seen'[tracks'[id].vehicle] > 0
    BY <2>1, <2>2, <2>4, <2>5
  <2>7. \A v \in Vehicles : seen'[v] > 0 =>
          InRegion(road'[v]) /\ \E id \in DOMAIN tracks' : tracks'[id].misses = 0 /\ tracks'[id].vehicle = v
    BY <2>1, <2>3, <2>5
  <2>8. (\A v \in Vehicles : seen[v] > 0 =>
          InRegion(road[v]) /\ \E id \in DOMAIN tracks : tracks[id].misses = 0 /\ tracks[id].vehicle = v)'
    BY <2>7 DEF InRegion
  <2> QED BY <2>2, <2>6, <2>8 DEF SeenIsFollowed
<1> QED
  BY <1>3, <1>4, <1>5, <1>6 DEF PerceptionInv

LEMMA NextPerception ==
  ASSUME PerceptionInv, [PerceptionNext]_perceptionVars
  PROVE  PerceptionInv'
<1>1. CASE \E detected \in SUBSET Vehicles : Frame(detected) \/ DropTracked(detected)
  BY <1>1, ProcessKeepsInv DEF Frame, DropTracked
<1>2. CASE DropFrame
  <2>1. /\ seen' = [v \in Vehicles |-> 0] /\ bridged' = DOMAIN movement
        /\ UNCHANGED <<tracks, nextId, movement>> /\ Move
    BY <1>2 DEF DropFrame, tracker
  <2>2. SpacedRoad'
    BY <2>1, MoveFacts DEF PerceptionInv
  <2>3. RecordsTyped'
    BY <2>1 DEF PerceptionInv, RecordsTyped
  <2>4. AnalyzerTyped'
    <3>1. 0 \in 0..MinHits
      BY Limits
    <3> QED BY <2>1, <3>1 DEF PerceptionInv, AnalyzerTyped, Confirmed
  <2>5. SeenIsFollowed'
    <3>1. \A v \in Vehicles : ~(seen'[v] > 0)
      BY <2>1
    <3>2. \A id \in DOMAIN tracks' : tracks'[id].vehicle \in Vehicles
      BY <2>1, FieldsTyped DEF PerceptionInv, RecordsTyped
    <3>3. DOMAIN movement' \ bridged' = {}
      BY <2>1
    <3> QED BY <3>1, <3>2, <3>3 DEF SeenIsFollowed
  <2> QED BY <2>2, <2>3, <2>4, <2>5 DEF PerceptionInv
<1>3. CASE UNCHANGED perceptionVars
  BY <1>3 DEF perceptionVars, tracker, PerceptionInv, SpacedRoad, RecordsTyped, AnalyzerTyped,
              SeenIsFollowed, Confirmed, InRegion
<1> QED
  BY <1>1, <1>2, <1>3 DEF PerceptionNext

LEMMA InitPerception == PerceptionInit => PerceptionInv
<1> SUFFICES ASSUME PerceptionInit PROVE PerceptionInv
  OBVIOUS
<1>1. /\ road = [v \in Vehicles |-> Ahead] /\ tracks = NoTracks /\ nextId = 1 /\ movement = NoTracks
      /\ seen = [v \in Vehicles |-> 0] /\ bridged = {}
  BY DEF PerceptionInit
<1>2. DOMAIN tracks = {} /\ DOMAIN movement = {} /\ Confirmed(tracks) = {}
  BY <1>1 DEF NoTracks, Confirmed
<1>3. SpacedRoad
  <2>1. Ahead \in Ahead..Past /\ ~InRegion(Ahead)
    BY Limits DEF Ahead, Past, InRegion
  <2> QED BY <1>1, <2>1 DEF SpacedRoad
<1>4. RecordsTyped
  BY <1>1, <1>2 DEF RecordsTyped
<1>5. AnalyzerTyped
  <2>1. 0 \in 0..MinHits
    BY Limits
  <2> QED BY <1>1, <1>2, <2>1 DEF AnalyzerTyped
<1>6. SeenIsFollowed
  BY <1>1, <1>2 DEF SeenIsFollowed
<1> QED
  BY <1>3, <1>4, <1>5, <1>6 DEF PerceptionInv

(***************************************************************************)
(* The invariant of the perception, through frames that are tracked, fail  *)
(* before or fail after (PerceptionPipeline.process, _process_bundle).     *)
(***************************************************************************)
THEOREM PerceptionInvariant == PerceptionSpec => []PerceptionInv
<1> QED
  BY InitPerception, NextPerception, PTL DEF PerceptionSpec

-----------------------------------------------------------------------------
(***************************************************************************)
(* Whose stopped time it is.  Another vehicle that appears near the place  *)
(* of a vehicle lost is told apart by its distance from there: it is near  *)
(* cells away at least, if vehicles keep far enough apart for what they    *)
(* move in a frame, and the region is longer than that.                    *)
(***************************************************************************)
Tellable(near) == Gap >= TopSpeed + near /\ Length + 1 >= TopSpeed + near

\* A jump that far either counts as moving or is beyond the tracker's reach.
VehiclesTellable == Tellable(ResumeSpeed) \/ Tellable(Reach + 1)

LEMMA OthersAreFar ==
  ASSUME SpacedRoad, Move, NEW near \in Nat, Tellable(near),
         NEW v \in Vehicles, NEW w \in Vehicles, v # w, InRegion(road[w]), InRegion(road'[v])
  PROVE  Distance(road[w], road'[v]) >= near
<1>1. /\ road[v] \in Int /\ road'[v] \in Int /\ road[w] \in Int /\ road'[w] \in Int
      /\ road'[v] >= 0
      /\ (road[v] = Ahead /\ road'[v] = 0) \/ InRegion(road[v])
      /\ InRegion(road[v]) => road'[v] >= road[v] /\ road'[v] - road[v] <= TopSpeed
      /\ road[w] >= 0 /\ road'[w] >= road[w] /\ road'[w] - road[w] <= TopSpeed
      /\ InRegion(road'[w]) => Distance(road'[v], road'[w]) >= Gap
  BY MoveFacts
<1>2. InRegion(road[v]) => Distance(road[v], road[w]) >= Gap
  BY DEF SpacedRoad
<1>3. ~InRegion(road'[w]) => road'[w] >= Length + 1
  BY <1>1, Limits DEF InRegion
<1>4. Gap >= TopSpeed + near /\ Length + 1 >= TopSpeed + near
  BY DEF Tellable
<1> DEFINE a == road[v]
           b == road'[v]
           c == road[w]
           d == road'[w]
<1> HIDE DEF a, b, c, d
<1>5. a \in Int /\ b \in Int /\ c \in Int /\ d \in Int /\ b >= 0 /\ c >= 0 /\ d >= c /\ d - c <= TopSpeed
  BY <1>1 DEF a, b, c, d
<1>6. CASE InRegion(road[v])
  <2>1. b >= a /\ b - a <= TopSpeed /\ Distance(a, c) >= Gap
    BY <1>1, <1>2, <1>6 DEF a, b, c
  <2>2. Distance(c, b) >= near
    BY <1>4, <1>5, <2>1, Limits DEF Distance
  <2> QED BY <2>2 DEF b, c
<1>7. CASE ~InRegion(road[v])
  <2>1. b = 0 /\ (Distance(b, d) >= Gap \/ d >= Length + 1)
    BY <1>1, <1>3, <1>7 DEF b, d
  <2>2. Distance(c, b) >= near
    BY <1>4, <1>5, <2>1, Limits DEF Distance
  <2> QED BY <2>2 DEF b, c
<1> QED
  BY <1>6, <1>7

(***************************************************************************)
(* The stopped time through a frame that is tracked.                       *)
(***************************************************************************)
LEMMA ProcessKeepsWaits ==
  ASSUME VehiclesTellable, PerceptionInv, WaitIsOwn,
         Move, NEW detected, detected \subseteq Visible, Process(detected)
  PROVE  WaitIsOwn'
<1>0. SpacedRoad /\ RecordsTyped /\ AnalyzerTyped /\ SeenIsFollowed
  BY DEF PerceptionInv
<1>1. PICK at, rank :
        /\ IsSighting(at, rank) /\ DOMAIN at = detected
        /\ \A v \in detected : at[v] = road'[v] /\ v \in Vehicles /\ InRegion(road'[v])
        /\ tracks' = Followed(at, rank)
        /\ movement' = Analyzed(tracks')
        /\ bridged' = bridged \cap DOMAIN movement'
  BY <1>0, ProcessFacts
<1>2. /\ \A id \in DOMAIN tracks' : tracks'[id] \in Record
      /\ FollowsFrame(tracks', at) /\ GrowsFrom(tracks', at)
  BY <1>0, <1>1, TrackedFacts
<1>3. DOMAIN movement' = Confirmed(tracks')
  BY <1>1 DEF Analyzed
<1> SUFFICES ASSUME NEW id \in DOMAIN movement' \ bridged'
             PROVE  movement'[id].stopped <= tracks'[id].row
  BY DEF WaitIsOwn
<1> DEFINE was == tracks[id]
           now == tracks'[id]
           v   == now.vehicle
           w   == was.vehicle
           m   == Classified(id, tracks')
<1>4. /\ id \in DOMAIN tracks' /\ id \notin bridged /\ movement'[id] = m
      /\ now \in Record /\ now.misses = 0 /\ v \in detected /\ now.cell = at[v]
  <2>1. id \in DOMAIN tracks' /\ id \notin bridged /\ movement'[id] = m
    BY <1>1, <1>3 DEF Confirmed, Analyzed
  <2>2. now.misses = 0
    BY <1>3 DEF Confirmed
  <2> QED BY <1>1, <1>2, <2>1, <2>2 DEF FollowsFrame
<1>5. m.stopped \in Nat /\ now.row \in Nat /\ now.row >= 1
  <2>1. m.stopped \in 0..MaxStopped
    BY <1>0, ClassifiedFacts
  <2>2. now.row \in 1..MaxStopped
    BY <1>4, FieldsTyped
  <2> HIDE DEF m, now
  <2> QED BY <2>1, <2>2, Limits
<1>6. m.stopped <= 1 => m.stopped <= now.row
  <2> HIDE DEF m, now
  <2> QED BY <1>5
<1>7. CASE id \notin DOMAIN movement
  BY <1>0, <1>4, <1>6, <1>7, ClassifiedFacts
<1>8. CASE id \in DOMAIN movement
  <2>1. id \in DOMAIN tracks /\ was.misses = 0 /\ was \in Record
    BY <1>0, <1>8 DEF AnalyzerTyped, Confirmed, RecordsTyped
  <2>2. now = Updated(was, v, at) /\ Distance(was.cell, now.cell) <= Reach
    BY <1>2, <1>4, <2>1 DEF GrowsFrom
  <2>3. seen[w] > 0 /\ w \in Vehicles
    BY <1>0, <1>4, <1>8, <2>1, FieldsTyped DEF SeenIsFollowed
  <2>4. was.cell = road[w] /\ InRegion(road[w])
    BY <1>0, <2>1, <2>3 DEF SeenIsFollowed
  <2>5. movement[id].stopped \in Nat /\ was.row \in Nat /\ movement[id].stopped <= was.row
    <3>1. movement[id].stopped <= was.row
      BY <1>4, <1>8 DEF WaitIsOwn
    <3>2. movement[id].stopped \in 0..MaxStopped
      BY <1>0, <1>8 DEF AnalyzerTyped
    <3>3. was.row \in 1..MaxStopped
      BY <2>1, FieldsTyped
    <3> HIDE DEF was
    <3> QED BY <3>1, <3>2, <3>3, Limits
  <2>6. m.stopped <= Capped(movement[id].stopped + 1, MaxStopped)
    BY <1>0, <1>8, ClassifiedFacts
  <2>7. CASE v = w
    <3>1. now.row = Capped(was.row + 1, MaxStopped)
      BY <2>1, <2>2, <2>7 DEF Updated
    <3> DEFINE s == movement[id].stopped
               r == was.row
               t == m.stopped
    <3>2. s \in Nat /\ r \in Nat /\ t \in Nat /\ s <= r /\ t <= Capped(s + 1, MaxStopped)
      BY <1>5, <2>5, <2>6
    <3> HIDE DEF s, r, t
    <3>3. t <= Capped(r + 1, MaxStopped)
      BY <3>2, Limits DEF Capped
    <3> QED BY <1>4, <3>1, <3>3 DEF r, t
  <2>8. CASE v # w /\ movement[id].stopped = 0
    <3> DEFINE t == m.stopped
               s == movement[id].stopped
    <3>1. t \in Nat /\ s = 0 /\ t <= Capped(s + 1, MaxStopped)
      BY <1>5, <2>6, <2>8
    <3> HIDE DEF t, s
    <3>2. t <= 1
      BY <3>1, Limits DEF Capped
    <3> QED BY <1>4, <1>6, <3>2 DEF t
  <2>9. CASE v # w /\ movement[id].stopped # 0
    <3> DEFINE far == Distance(road[w], road'[v])
    <3>1. was.cell = road[w] /\ now.cell = road'[v] /\ now.speed = far /\ far <= Reach
          /\ v \in Vehicles /\ InRegion(road'[v])
      <4>1. now.cell = road'[v] /\ v \in Vehicles /\ InRegion(road'[v])
        BY <1>1, <1>4
      <4>2. now.speed = Distance(was.cell, at[v])
        BY <2>2 DEF Updated
      <4>3. at[v] = road'[v]
        BY <1>1, <1>4
      <4> QED BY <2>2, <2>4, <4>1, <4>2, <4>3
    <3>2. road[w] \in Int /\ road'[v] \in Int
      BY <1>0, <2>3, <3>1, MoveFacts
    <3>3. far \in Nat
      BY <3>2, DistanceIsNat
    <3>4. CASE Tellable(ResumeSpeed)
      <4>1. far >= ResumeSpeed
        BY <1>0, <2>3, <2>4, <2>9, <3>1, <3>4, OthersAreFar, Limits
      <4>2. tracks'[id].speed >= ResumeSpeed
        BY <3>1, <4>1
      <4>3. m.stopped = 0
        BY <1>0, <1>8, <2>9, <4>2, ClassifiedFacts
      <4> HIDE DEF m, now
      <4>4. m.stopped <= 1
        BY <4>3
      <4> QED BY <1>4, <1>6, <4>4 DEF now
    <3>5. CASE Tellable(Reach + 1)
      <4>1. Reach \in Nat /\ Reach + 1 \in Nat
        BY Limits
      <4>2. far >= Reach + 1
        BY <1>0, <2>3, <2>4, <2>9, <3>1, <3>5, <4>1, OthersAreFar
      <4> HIDE DEF far
      <4> QED BY <3>1, <3>3, <4>1, <4>2
    <3> QED BY <3>4, <3>5 DEF VehiclesTellable
  <2> QED BY <2>7, <2>8, <2>9
<1> QED
  BY <1>7, <1>8

(***************************************************************************)
(* MovementAnalyzer: the stopped time of a track is that of the vehicle it *)
(* follows, and no other's, as long as vehicles can be told apart.         *)
(***************************************************************************)
THEOREM StoppedTimeIsOwn ==
  ASSUME VehiclesTellable
  PROVE  PerceptionSpec => []WaitIsOwn
<1>1. PerceptionInit => WaitIsOwn
  BY DEF PerceptionInit, WaitIsOwn, NoTracks
<1>2. PerceptionInv /\ WaitIsOwn /\ [PerceptionNext]_perceptionVars => WaitIsOwn'
  <2> SUFFICES ASSUME PerceptionInv, WaitIsOwn, [PerceptionNext]_perceptionVars PROVE WaitIsOwn'
    OBVIOUS
  <2>1. CASE \E detected \in SUBSET Vehicles : Frame(detected) \/ DropTracked(detected)
    BY <2>1, ProcessKeepsWaits DEF Frame, DropTracked
  <2>2. CASE DropFrame
    BY <2>2 DEF DropFrame, tracker, WaitIsOwn
  <2>3. CASE UNCHANGED perceptionVars
    BY <2>3 DEF perceptionVars, tracker, WaitIsOwn
  <2> QED BY <2>1, <2>2, <2>3 DEF PerceptionNext
<1> QED
  BY <1>1, <1>2, PerceptionInvariant, PTL DEF PerceptionSpec

-----------------------------------------------------------------------------
(***************************************************************************)
(* What a fresh state counts.                                              *)
(***************************************************************************)
NoneCountedTwice == ~dropped => last.vehicles <= Cardinality({v \in Vehicles : seen[v] > 0})
NoneLeftOut      == ~dropped => last.vehicles >= Cardinality({v \in Vehicles : seen[v] >= MinHits})

(***************************************************************************)
(* When no vehicle is left out: a track is confirmed within two frames,    *)
(* and from one frame to the next a vehicle stays within the tracker's     *)
(* reach, nearer to its old place than any other vehicle.                  *)
(***************************************************************************)
VehiclesTrackable == MinHits <= 2 /\ TopSpeed <= Reach /\ Gap > 2 * TopSpeed

\* One set is no larger than another that it maps into, one to one.
LEMMA MapsInto ==
  ASSUME NEW S, NEW T, IsFiniteSet(T), NEW f, f \in [S -> T],
         \A x, y \in S : f[x] = f[y] => x = y
  PROVE  IsFiniteSet(S) /\ Cardinality(S) <= Cardinality(T)
<1>1. f \in Injection(S, T)
  BY DEF Injection, IsInjective
<1> QED BY <1>1, FS_Injection

LEMMA FrameCountsSeen ==
  ASSUME PerceptionInv, NEW detected, Frame(detected)
  PROVE  NoneCountedTwice'
<1>0. SpacedRoad /\ RecordsTyped /\ AnalyzerTyped /\ Move /\ detected \subseteq Visible /\ Process(detected)
  BY DEF PerceptionInv, Frame
<1>1. PerceptionInv'
  BY <1>0, ProcessKeepsInv
<1>2. PICK at, rank :
        /\ IsSighting(at, rank) /\ DOMAIN at = detected /\ tracks' = Followed(at, rank)
        /\ seen' = [v \in Vehicles |-> IF v \in detected THEN Capped(seen[v] + 1, MinHits) ELSE 0]
  BY <1>0, ProcessFacts
<1>3. FollowsFrame(tracks', at)
  BY <1>0, <1>2, TrackedFacts
<1> DEFINE S == {v \in Vehicles : seen'[v] > 0}
           f == [id \in Confirmed(tracks') |-> tracks'[id].vehicle]
<1>4. \A v \in detected : v \in Vehicles /\ seen'[v] > 0
  <2>1. \A v \in detected : v \in Vehicles /\ seen[v] \in Nat
    BY <1>0 DEF AnalyzerTyped, Visible
  <2>2. \A v \in detected : seen'[v] = Capped(seen[v] + 1, MinHits)
    BY <1>2, <2>1
  <2>3. \A v \in detected : Capped(seen[v] + 1, MinHits) > 0
    BY <2>1, Limits DEF Capped
  <2> QED BY <2>1, <2>2, <2>3
<1>5. \A id \in Confirmed(tracks') : /\ id \in DOMAIN tracks' /\ tracks'[id].misses = 0
                                     /\ tracks'[id].vehicle \in S
  BY <1>2, <1>3, <1>4 DEF Confirmed, FollowsFrame
<1>6. \A id, other \in Confirmed(tracks') : tracks'[id].vehicle = tracks'[other].vehicle => id = other
  BY <1>3, <1>5 DEF FollowsFrame
<1>7. IsFiniteSet(S)
  BY Limits, FS_Subset
<1>8. Cardinality(Confirmed(tracks')) <= Cardinality(S)
  <2> DEFINE T == Confirmed(tracks')
  <2>1. f \in [T -> S] /\ \A id, other \in T : f[id] = f[other] => id = other
    BY <1>5, <1>6
  <2> HIDE DEF S, f, T
  <2> QED BY <1>7, <2>1, MapsInto DEF T
<1>9. last'.vehicles = Cardinality(Confirmed(tracks'))
  BY DEF Frame, LaneState
<1> QED
  BY <1>8, <1>9 DEF NoneCountedTwice

(***************************************************************************)
(* A vehicle that was seen min_hits frames in a row has a confirmed track. *)
(***************************************************************************)
LEMMA SeenIsConfirmed ==
  ASSUME VehiclesTrackable, PerceptionInv, NEW detected, Frame(detected),
         NEW v \in Vehicles, seen'[v] >= MinHits
  PROVE  \E id \in Confirmed(tracks') : tracks'[id].vehicle = v
<1>0. /\ SpacedRoad /\ RecordsTyped /\ AnalyzerTyped /\ SeenIsFollowed
      /\ Move /\ detected \subseteq Visible /\ Process(detected)
  BY DEF PerceptionInv, Frame
<1>1. PICK at, rank :
        /\ IsSighting(at, rank) /\ DOMAIN at = detected /\ tracks' = Followed(at, rank)
        /\ \A w \in detected : at[w] = road'[w] /\ w \in Vehicles /\ InRegion(road'[w])
        /\ seen' = [w \in Vehicles |-> IF w \in detected THEN Capped(seen[w] + 1, MinHits) ELSE 0]
  BY <1>0, ProcessFacts
<1>2. /\ \A id \in DOMAIN tracks' : tracks'[id] \in Record
      /\ FollowsFrame(tracks', at)
  BY <1>0, <1>1, TrackedFacts
<1>3. seen[v] \in Nat /\ v \in detected /\ seen'[v] = Capped(seen[v] + 1, MinHits)
  <2>1. seen[v] \in Nat
    BY <1>0 DEF AnalyzerTyped
  <2>2. v \notin detected => seen'[v] = 0
    BY <1>1
  <2>3. v \in detected
    BY <2>2, Limits
  <2> QED BY <1>1, <2>1, <2>3
<1>4. MinHits = 1 \/ MinHits = 2
  BY Limits DEF VehiclesTrackable
<1>5. CASE MinHits = 1
  <2>1. PICK id \in DOMAIN tracks' : tracks'[id].misses = 0 /\ tracks'[id].vehicle = v
    BY <1>1, <1>2, <1>3 DEF FollowsFrame
  <2>2. tracks'[id].hits \in 1..MinHits
    BY <1>2, FieldsTyped
  <2>3. tracks'[id].hits >= MinHits
    BY <1>5, <2>2
  <2> QED BY <2>1, <2>3 DEF Confirmed
<1>6. CASE MinHits = 2
  <2>1. seen[v] > 0
    BY <1>3, <1>6 DEF Capped
  <2>2. PICK id \in DOMAIN tracks : tracks[id].misses = 0 /\ tracks[id].vehicle = v
    BY <1>0, <2>1 DEF SeenIsFollowed
  <2>3. tracks[id].cell = road[v] /\ InRegion(road[v]) /\ at[v] = road'[v]
    BY <1>0, <1>1, <1>3, <2>1, <2>2 DEF SeenIsFollowed
  <2>4. /\ road[v] \in Int /\ road'[v] \in Int
        /\ road'[v] >= road[v] /\ road'[v] - road[v] <= TopSpeed
    BY <1>0, <2>3, MoveFacts
  <2>5. Distance(tracks[id].cell, at[v]) <= Reach
    BY <2>3, <2>4, Limits DEF Distance, VehiclesTrackable
  <2>6. ASSUME NEW w \in detected, w # v
        PROVE  Distance(tracks[id].cell, at[w]) > Distance(tracks[id].cell, at[v])
    <3>1. at[w] = road'[w] /\ w \in Vehicles /\ InRegion(road'[w]) /\ InRegion(road'[v])
      BY <1>1, <1>3
    <3>2. road'[w] \in Int /\ Distance(road'[v], road'[w]) >= Gap
      BY <1>0, <2>6, <3>1, MoveFacts
    <3> DEFINE a == road[v]
               b == road'[v]
               c == road'[w]
    <3>3. a \in Int /\ b \in Int /\ c \in Int /\ b >= a /\ b - a <= TopSpeed /\ Distance(b, c) >= Gap
      BY <2>4, <3>2
    <3> HIDE DEF a, b, c
    <3>4. Distance(a, c) > Distance(a, b)
      BY <3>3, Limits DEF Distance, VehiclesTrackable
    <3> QED BY <2>3, <3>1, <3>4 DEF a, b, c
  <2>7. PICK other \in DOMAIN tracks' : /\ other \in DOMAIN tracks
                                        /\ tracks'[other] = Updated(tracks[other], v, at)
    BY <1>0, <1>1, <1>3, <2>5, <2>6, NearestIsMatched
  <2>8. /\ tracks'[other].hits = Capped(tracks[other].hits + 1, MinHits)
        /\ tracks'[other].misses = 0 /\ tracks'[other].vehicle = v
    BY <2>7 DEF Updated
  <2>9. tracks[other].hits \in 1..MinHits
    BY <1>0, <2>7, FieldsTyped DEF RecordsTyped
  <2>10. tracks'[other].hits >= MinHits
    BY <1>6, <2>8, <2>9 DEF Capped
  <2> QED BY <2>8, <2>10 DEF Confirmed
<1> QED
  BY <1>4, <1>5, <1>6

LEMMA FrameCountsAll ==
  ASSUME VehiclesTrackable, PerceptionInv, NEW detected, Frame(detected)
  PROVE  NoneLeftOut'
<1> DEFINE S == {v \in Vehicles : seen'[v] >= MinHits}
           T == Confirmed(tracks')
           f == [v \in S |-> CHOOSE id \in T : tracks'[id].vehicle = v]
<1>1. \A v \in S : f[v] \in T /\ tracks'[f[v]].vehicle = v
  BY SeenIsConfirmed
<1>2. IsFiniteSet(T)
  <2>1. RecordsTyped'
    BY ProcessKeepsInv DEF Frame, PerceptionInv
  <2>2. DOMAIN tracks' \subseteq 1..(nextId' - 1) /\ nextId' - 1 \in Int
    BY <2>1 DEF RecordsTyped
  <2>3. IsFiniteSet(1..(nextId' - 1))
    BY <2>2, FS_Interval
  <2>4. T \subseteq 1..(nextId' - 1)
    BY <2>2 DEF Confirmed
  <2> QED BY <2>3, <2>4, FS_Subset
<1>3. Cardinality(S) <= Cardinality(T)
  <2>1. f \in [S -> T] /\ \A v, w \in S : f[v] = f[w] => v = w
    BY <1>1
  <2> HIDE DEF S, f, T
  <2> QED BY <1>2, <2>1, MapsInto
<1>4. last'.vehicles = Cardinality(T)
  BY DEF Frame, LaneState
<1>5. Cardinality(S) \in Nat /\ Cardinality(T) \in Nat
  <2>1. IsFiniteSet(S)
    BY Limits, FS_Subset
  <2> HIDE DEF S, T
  <2> QED BY <1>2, <2>1, FS_CardinalityType
<1>6. last'.vehicles >= Cardinality(S)
  <2> HIDE DEF S, T
  <2> QED BY <1>3, <1>4, <1>5
<1> QED
  BY <1>6 DEF NoneLeftOut

(***************************************************************************)
(* DensityEstimator: a fresh state counts no vehicle twice and none that   *)
(* was not seen in its frame, whatever the speeds and the thresholds are.  *)
(***************************************************************************)
THEOREM CountsOnlySeen == PerceptionSpec => []NoneCountedTwice
<1>1. PerceptionInit => NoneCountedTwice
  <2> SUFFICES ASSUME PerceptionInit PROVE NoneCountedTwice
    OBVIOUS
  <2> DEFINE S == {v \in Vehicles : seen[v] > 0}
  <2>1. IsFiniteSet(S)
    BY Limits, FS_Subset
  <2> HIDE DEF S
  <2>2. Cardinality(S) \in Nat
    BY <2>1, FS_CardinalityType
  <2>3. last.vehicles = 0
    BY DEF PerceptionInit, NoState
  <2> QED BY <2>2, <2>3 DEF NoneCountedTwice, S
<1>2. PerceptionInv /\ NoneCountedTwice /\ [PerceptionNext]_perceptionVars => NoneCountedTwice'
  <2> SUFFICES ASSUME PerceptionInv, NoneCountedTwice, [PerceptionNext]_perceptionVars
               PROVE  NoneCountedTwice'
    OBVIOUS
  <2>1. CASE \E detected \in SUBSET Vehicles : Frame(detected)
    BY <2>1, FrameCountsSeen
  <2>2. CASE DropFrame \/ \E detected \in SUBSET Vehicles : DropTracked(detected)
    BY <2>2 DEF DropFrame, DropTracked, NoneCountedTwice
  <2>3. CASE UNCHANGED perceptionVars
    BY <2>3 DEF perceptionVars, NoneCountedTwice
  <2> QED BY <2>1, <2>2, <2>3 DEF PerceptionNext
<1> QED
  BY <1>1, <1>2, PerceptionInvariant, PTL DEF PerceptionSpec

(***************************************************************************)
(* IouTracker and DensityEstimator: a fresh state counts every vehicle     *)
(* that was seen in min_hits frames in a row, and only vehicles it has     *)
(* seen, each once, as long as vehicles can be tracked.                    *)
(***************************************************************************)
THEOREM CountsAreRight ==
  ASSUME VehiclesTrackable
  PROVE  PerceptionSpec => []CountsMatch
<1>1. PerceptionInit => NoneLeftOut
  <2> SUFFICES ASSUME PerceptionInit PROVE NoneLeftOut
    OBVIOUS
  <2>1. \A v \in Vehicles : ~(seen[v] >= MinHits)
    BY Limits DEF PerceptionInit
  <2>2. {v \in Vehicles : seen[v] >= MinHits} = {}
    BY <2>1
  <2>3. last.vehicles = 0
    BY DEF PerceptionInit, NoState
  <2> QED BY <2>2, <2>3, FS_EmptySet DEF NoneLeftOut
<1>2. PerceptionInv /\ NoneLeftOut /\ [PerceptionNext]_perceptionVars => NoneLeftOut'
  <2> SUFFICES ASSUME PerceptionInv, NoneLeftOut, [PerceptionNext]_perceptionVars PROVE NoneLeftOut'
    OBVIOUS
  <2>1. CASE \E detected \in SUBSET Vehicles : Frame(detected)
    BY <2>1, FrameCountsAll
  <2>2. CASE DropFrame \/ \E detected \in SUBSET Vehicles : DropTracked(detected)
    BY <2>2 DEF DropFrame, DropTracked, NoneLeftOut
  <2>3. CASE UNCHANGED perceptionVars
    BY <2>3 DEF perceptionVars, NoneLeftOut
  <2> QED BY <2>1, <2>2, <2>3 DEF PerceptionNext
<1>3. NoneCountedTwice /\ NoneLeftOut => CountsMatch
  BY DEF NoneCountedTwice, NoneLeftOut, CountsMatch
<1> QED
  BY <1>1, <1>2, <1>3, CountsOnlySeen, PerceptionInvariant, PTL DEF PerceptionSpec
=============================================================================
