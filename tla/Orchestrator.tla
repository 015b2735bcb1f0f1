---------------------------- MODULE Orchestrator ----------------------------
(***************************************************************************)
(* orchestrator/agent.py: the operating mode, driven by the confidence of  *)
(* perception, and the health of the agents, from their heartbeats and a   *)
(* watchdog that marks the ones it has not heard of for a while.           *)
(*                                                                         *)
(* Heartbeats carry the time they were made at; the model keeps their age  *)
(* instead, which stops at MaxAge, past every threshold.                   *)
(***************************************************************************)
EXTENDS Integers

CONSTANTS Agents,
          StaleAfter,    \* OrchestratorSettings.stale_after_s
          CheckInterval  \* OrchestratorSettings.check_interval_s

\* What OrchestratorSettings accepts, but for the interval 0, which means
\* that there is no watchdog.
OrchestratorSettings == StaleAfter \in Nat \ {0} /\ CheckInterval \in Nat \ {0}

ASSUME OrchestratorAssumption == OrchestratorSettings

VARIABLES mode,       \* _mode: "ai" or "degraded"
          health,     \* _health: per agent, its last status and the age of its heartbeat
          sinceCheck  \* how long the watchdog has slept

orchestrator == <<mode, health, sinceCheck>>

MaxAge   == StaleAfter + CheckInterval + 1
Unknown  == [status |-> "unknown", age |-> 0]
Statuses == {"unknown", "healthy", "unhealthy"}

OrchestratorInit ==
  /\ mode = "ai"
  /\ health = [a \in Agents |-> Unknown]
  /\ sinceCheck = 0

\* Mutant: a heartbeat counts from its arrival.
OnArrival(a, age) ==
  /\ health' = [health EXCEPT ![a] = [status |-> "healthy", age |-> 0]]
  /\ UNCHANGED <<mode, sinceCheck>>

\* _on_heartbeat: whatever was known of the agent is replaced.
OnHeartbeat(a, age) ==
  /\ health' = [health EXCEPT ![a] = [status |-> "healthy", age |-> age]]
  /\ UNCHANGED <<mode, sinceCheck>>

\* Mutant: stale at StaleAfter already.
MarkStaleEarly ==
  /\ sinceCheck = CheckInterval
  /\ sinceCheck' = 0
  /\ health' = [a \in Agents |->
                  IF health[a].status = "healthy" /\ health[a].age >= StaleAfter
                  THEN [health[a] EXCEPT !.status = "unhealthy"] ELSE health[a]]
  /\ UNCHANGED mode

\* _mark_stale_agents, when the watchdog wakes.
MarkStale ==
  /\ sinceCheck = CheckInterval
  /\ sinceCheck' = 0
  /\ health' = [a \in Agents |->
                  IF health[a].status = "healthy" /\ health[a].age > StaleAfter
                  THEN [health[a] EXCEPT !.status = "unhealthy"] ELSE health[a]]
  /\ UNCHANGED mode

Older(age) == IF age < MaxAge THEN age + 1 ELSE age

\* A unit of time passes; the watchdog's sleep is punctual.
TimePasses ==
  /\ sinceCheck < CheckInterval
  /\ sinceCheck' = sinceCheck + 1
  /\ health' = [a \in Agents |->
                  IF health[a].status = "unknown" THEN Unknown
                  ELSE [health[a] EXCEPT !.age = Older(@)]]
  /\ UNCHANGED mode

\* The mode a state asks for; _on_state leaves "degraded" only if it was the
\* confidence that led there, and nothing else does.
ModeFor(confident) == IF confident THEN "ai" ELSE "degraded"

\* _on_state up to the publication of a change, which comes after the assignment.
SetMode(confident) ==
  /\ mode' = ModeFor(confident)
  /\ UNCHANGED <<health, sinceCheck>>
=============================================================================
