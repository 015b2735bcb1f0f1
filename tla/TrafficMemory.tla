---------------------------- MODULE TrafficMemory ----------------------------
(***************************************************************************)
(* memory/agent.py over memory/repository.py: the agent that keeps a       *)
(* rolling window of intersection states and publishes a baseline, the     *)
(* averages over the window, after every PublishEvery states.              *)
(*                                                                         *)
(* A state of the window is given by its place in the feed; what the       *)
(* baseline needs of it is the vehicle count of each lane.                 *)
(***************************************************************************)
EXTENDS Integers, Sequences, FiniteSetsExt

CONSTANTS WindowSize,    \* MemorySettings.window_size
          PublishEvery   \* MemorySettings.baseline_publish_every

\* What MemorySettings accepts.
MemorySettings == WindowSize \in Nat \ {0} /\ PublishEvery \in Nat \ {0}

ASSUME MemoryAssumption == MemorySettings

VARIABLES window,       \* the repository's deque
          sincePublish  \* _updates_since_publish

memory == <<window, sincePublish>>

MemoryInit == window = <<>> /\ sincePublish = 0

\* deque(maxlen=window_size).append
Pushed(win, n) == IF Len(win) = WindowSize THEN Append(Tail(win), n) ELSE Append(win, n)

\* _on_state goes on to _publish_baseline.
Publishes == sincePublish + 1 >= PublishEvery

\* Mutant: the state is recorded when it arrives and again with its baseline.
MemorizeTwice(n) ==
  /\ window' = IF Publishes THEN Pushed(Pushed(window, n), n) ELSE Pushed(window, n)
  /\ sincePublish' = IF Publishes THEN 0 ELSE sincePublish + 1

\* _on_state up to the publication: the state is kept and counted before the
\* baseline is published, whether or not the publication succeeds.
Memorize(n) ==
  /\ window' = Pushed(window, n)
  /\ sincePublish' = IF Publishes THEN 0 ELSE sincePublish + 1

\* InMemoryStateHistoryRepository.baseline: the sum and the number of samples
\* behind each average; counts[n][d] is the vehicle count of lane d in state n.
BaselineOf(win, counts, directions) ==
  [d \in directions |->
     [total   |-> MapThenSumSet(LAMBDA i : counts[win[i]][d], DOMAIN win),
      samples |-> Len(win)]]
=============================================================================
