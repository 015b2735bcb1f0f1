------------------------- MODULE InMemoryBus_proofs -------------------------
(***************************************************************************)
(* Theorems about InMemoryBus, for any number of subscriptions, events and *)
(* sizes of the cache: what join() counts, that an event is processed at   *)
(* most once within the cache window, that events stay in their order, and *)
(* that the bus implements the delivery contract of its port.              *)
(***************************************************************************)
EXTENDS InMemoryBus, SequenceLemmas

-----------------------------------------------------------------------------
(***************************************************************************)
(* The queues.                                                             *)
(***************************************************************************)
MailTyped ==
  /\ queue \in [Consumers -> Seq(Keys \cup {Sentinel})]
  /\ unfinished \in [Consumers -> Nat]
  /\ task \in [Consumers -> Tasks]

MailInv == MailTyped /\ JoinCountsWork

(***************************************************************************)
(* The length of a queue when something is put in or taken out.            *)
(***************************************************************************)
LEMMA QueueFacts ==
  ASSUME MailTyped, NEW c \in Consumers
  PROVE  /\ queue[c] \in Seq(Keys \cup {Sentinel}) /\ Len(queue[c]) \in Nat
         /\ \A k \in Keys \cup {Sentinel} :
              /\ Append(queue[c], k) \in Seq(Keys \cup {Sentinel})
              /\ Len(Append(queue[c], k)) = Len(queue[c]) + 1
         /\ queue[c] # <<>> => /\ Tail(queue[c]) \in Seq(Keys \cup {Sentinel})
                               /\ Len(queue[c]) > 0
                               /\ Len(Tail(queue[c])) = Len(queue[c]) - 1
<1> DEFINE M == Keys \cup {Sentinel}
           q == queue[c]
<1>1. q \in Seq(M)
  BY DEF MailTyped
<1> HIDE DEF M, q
<1>2. /\ Len(q) \in Nat
      /\ \A k \in M : Append(q, k) \in Seq(M) /\ Len(Append(q, k)) = Len(q) + 1
      /\ q # <<>> => /\ Tail(q) \in Seq(M)
                     /\ Len(q) > 0
                     /\ Len(Tail(q)) = Len(q) - 1
  BY <1>1
<1> QED
  BY <1>1, <1>2 DEF M, q

(***************************************************************************)
(* Envelopes and sentinels are counted when they are put in a queue.       *)
(***************************************************************************)
LEMMA PutMail ==
  ASSUME MailInv, NEW receivers \in SUBSET Consumers, NEW k \in Keys \cup {Sentinel},
         queue' = [c \in Consumers |-> IF c \in receivers THEN Append(queue[c], k) ELSE queue[c]],
         unfinished' = [c \in Consumers |-> IF c \in receivers THEN unfinished[c] + 1 ELSE unfinished[c]],
         UNCHANGED task
  PROVE  MailInv'
<1> USE DEF MailInv
<1>1. MailTyped'
  BY QueueFacts DEF MailTyped
<1>2. JoinCountsWork'
  <2> SUFFICES ASSUME NEW c \in Consumers
               PROVE  unfinished'[c] = Len(queue'[c]) + (IF task[c] \in Processing THEN 1 ELSE 0)
    BY DEF JoinCountsWork
  <2>1. unfinished[c] = Len(queue[c]) + (IF task[c] \in Processing THEN 1 ELSE 0)
    BY DEF JoinCountsWork
  <2>2. unfinished[c] \in Nat /\ Len(queue[c]) \in Nat
    BY QueueFacts DEF MailTyped
  <2>3. CASE c \in receivers
    <3>1. unfinished'[c] = unfinished[c] + 1 /\ queue'[c] = Append(queue[c], k)
      BY <2>3
    <3>2. Len(queue'[c]) = Len(queue[c]) + 1
      BY <3>1, QueueFacts
    <3> DEFINE more == IF task[c] \in Processing THEN 1 ELSE 0
    <3>3. more \in Nat /\ unfinished[c] = Len(queue[c]) + more
      BY <2>1
    <3> HIDE DEF more
    <3>4. unfinished'[c] = Len(queue'[c]) + more
      BY <2>2, <3>1, <3>2, <3>3
    <3> QED BY <3>4 DEF more
  <2>4. CASE c \notin receivers
    <3>1. unfinished'[c] = unfinished[c] /\ queue'[c] = queue[c]
      BY <2>4
    <3> QED BY <2>1, <2>2, <3>1
  <2> QED BY <2>3, <2>4
<1> QED
  BY <1>1, <1>2

(***************************************************************************)
(* A worker that takes an envelope goes on processing it, or is done with  *)
(* it.                                                                     *)
(***************************************************************************)
LEMMA TakeMail ==
  ASSUME MailInv, NEW c \in Consumers, NEW k, Takes(c, k), NEW state \in Tasks,
         task' = [task EXCEPT ![c] = state],
         \/ state \in Processing /\ UNCHANGED unfinished
         \/ state \notin Processing /\ TaskDone(c)
  PROVE  MailInv'
<1> USE DEF MailInv
<1>1. /\ task[c] = "waiting" /\ queue[c] # <<>>
      /\ queue' = [queue EXCEPT ![c] = Tail(queue[c])]
  BY DEF Takes
<1>2. /\ queue[c] \in Seq(Keys \cup {Sentinel}) /\ Len(queue[c]) \in Nat
      /\ Tail(queue[c]) \in Seq(Keys \cup {Sentinel})
      /\ Len(queue[c]) > 0 /\ Len(Tail(queue[c])) = Len(queue[c]) - 1
  BY <1>1, QueueFacts
<1>3. unfinished[c] = Len(queue[c])
  <2>1. task[c] \notin Processing
    BY <1>1 DEF Processing
  <2>2. unfinished[c] = Len(queue[c]) + (IF task[c] \in Processing THEN 1 ELSE 0)
    BY DEF JoinCountsWork
  <2> QED BY <1>2, <2>1, <2>2
<1>4. /\ queue' \in [Consumers -> Seq(Keys \cup {Sentinel})]
      /\ \A d \in Consumers : queue'[d] = IF d = c THEN Tail(queue[c]) ELSE queue[d]
  BY <1>1, <1>2 DEF MailTyped
<1>5. /\ task' \in [Consumers -> Tasks]
      /\ \A d \in Consumers : task'[d] = IF d = c THEN state ELSE task[d]
  BY DEF MailTyped
<1>6. /\ unfinished' \in [Consumers -> Nat]
      /\ \A d \in Consumers : d # c => unfinished'[d] = unfinished[d]
      /\ unfinished'[c] = IF state \in Processing THEN unfinished[c] ELSE unfinished[c] - 1
  <2>1. unfinished \in [Consumers -> Nat] /\ unfinished[c] - 1 \in Nat
    BY <1>2, <1>3 DEF MailTyped
  <2>2. CASE state \in Processing
    BY <2>1, <2>2
  <2>3. CASE state \notin Processing
    <3>1. unfinished' = [unfinished EXCEPT ![c] = unfinished[c] - 1]
      BY <2>3 DEF TaskDone
    <3> QED BY <2>1, <2>3, <3>1
  <2> QED BY <2>2, <2>3
<1>7. MailTyped'
  BY <1>4, <1>5, <1>6 DEF MailTyped
<1>8. JoinCountsWork'
  <2> SUFFICES ASSUME NEW d \in Consumers
               PROVE  unfinished'[d] = Len(queue'[d]) + (IF task'[d] \in Processing THEN 1 ELSE 0)
    BY DEF JoinCountsWork
  <2>1. CASE d = c
    <3>1. Len(queue'[d]) = Len(queue[c]) - 1 /\ task'[d] = state
      BY <1>2, <1>4, <1>5, <2>1
    <3>2. unfinished'[c] = Len(queue'[c]) + (IF state \in Processing THEN 1 ELSE 0)
      <4>1. CASE state \in Processing
        BY <1>2, <1>3, <1>6, <2>1, <3>1, <4>1
      <4>2. CASE state \notin Processing
        BY <1>2, <1>3, <1>6, <2>1, <3>1, <4>2
      <4> QED BY <4>1, <4>2
    <3> QED BY <2>1, <3>1, <3>2
  <2>2. CASE d # c
    <3>1. queue'[d] = queue[d] /\ task'[d] = task[d] /\ unfinished'[d] = unfinished[d]
      BY <1>4, <1>5, <1>6, <2>2
    <3>2. unfinished[d] = Len(queue[d]) + (IF task[d] \in Processing THEN 1 ELSE 0)
      BY DEF JoinCountsWork
    <3>3. unfinished[d] \in Nat /\ Len(queue[d]) \in Nat
      BY QueueFacts DEF MailTyped
    <3> QED BY <3>1, <3>2, <3>3
  <2> QED BY <2>1, <2>2
<1> QED
  BY <1>7, <1>8

(***************************************************************************)
(* A worker that processes an envelope keeps it, or is done with it.       *)
(***************************************************************************)
LEMMA ProcessMail ==
  ASSUME MailInv, NEW c \in Consumers, task[c] \in Processing, NEW state \in Tasks,
         task' = [task EXCEPT ![c] = state],
         \/ state \in Processing /\ UNCHANGED unfinished
         \/ state \notin Processing /\ TaskDone(c),
         UNCHANGED queue
  PROVE  MailInv'
<1> USE DEF MailInv
<1>1. unfinished[c] = Len(queue[c]) + 1 /\ Len(queue[c]) \in Nat
  BY QueueFacts DEF JoinCountsWork
<1>2. /\ task' \in [Consumers -> Tasks]
      /\ \A d \in Consumers : task'[d] = IF d = c THEN state ELSE task[d]
  BY DEF MailTyped
<1>3. /\ unfinished' \in [Consumers -> Nat]
      /\ \A d \in Consumers : d # c => unfinished'[d] = unfinished[d]
      /\ unfinished'[c] = IF state \in Processing THEN unfinished[c] ELSE unfinished[c] - 1
  BY <1>1 DEF MailTyped, TaskDone
<1>4. MailTyped'
  BY <1>2, <1>3 DEF MailTyped
<1>5. JoinCountsWork'
  <2> SUFFICES ASSUME NEW d \in Consumers
               PROVE  unfinished'[d] = Len(queue[d]) + (IF task'[d] \in Processing THEN 1 ELSE 0)
    BY DEF JoinCountsWork
  <2>1. CASE d = c
    <3>1. task'[d] = state
      BY <1>2, <2>1
    <3>2. unfinished'[c] = Len(queue[c]) + (IF state \in Processing THEN 1 ELSE 0)
      <4>1. CASE state \in Processing
        BY <1>1, <1>3, <4>1
      <4>2. CASE state \notin Processing
        BY <1>1, <1>3, <4>2
      <4> QED BY <4>1, <4>2
    <3> QED BY <2>1, <3>1, <3>2
  <2>2. CASE d # c
    <3>1. task'[d] = task[d] /\ unfinished'[d] = unfinished[d]
      BY <1>2, <1>3, <2>2
    <3>2. unfinished[d] = Len(queue[d]) + (IF task[d] \in Processing THEN 1 ELSE 0)
      BY DEF JoinCountsWork
    <3>3. unfinished[d] \in Nat /\ Len(queue[d]) \in Nat
      BY QueueFacts DEF MailTyped
    <3> QED BY <3>1, <3>2, <3>3
  <2> QED BY <2>1, <2>2
<1> QED
  BY <1>4, <1>5

(***************************************************************************)
(* Starting and ending a task changes no count.                            *)
(***************************************************************************)
LEMMA IdleMail ==
  ASSUME MailInv, task' \in [Consumers -> Tasks],
         \A c \in Consumers : task'[c] \in Processing <=> task[c] \in Processing,
         UNCHANGED mail
  PROVE  MailInv'
  BY DEF MailInv, MailTyped, JoinCountsWork, mail

(***************************************************************************)
(* The counts are kept by every step.                                      *)
(***************************************************************************)
LEMMA NextMail == MailInv /\ [Next]_vars => MailInv'
<1> SUFFICES ASSUME MailInv, [Next]_vars PROVE MailInv'
  OBVIOUS
<1>1. CASE \E k \in Keys : Publish(k)
  <2>1. PICK k \in Keys : Publish(k)
    BY <1>1
  <2> DEFINE receivers == {c \in Consumers : k \in Interest[c]}
  <2>2. /\ queue' = [c \in Consumers |-> IF c \in receivers THEN Append(queue[c], k) ELSE queue[c]]
        /\ unfinished' = [c \in Consumers |-> IF c \in receivers THEN unfinished[c] + 1 ELSE unfinished[c]]
        /\ UNCHANGED task
    BY <2>1 DEF Publish, work
  <2> HIDE DEF receivers
  <2>3. receivers \in SUBSET Consumers
    BY DEF receivers
  <2> QED BY <2>2, <2>3, PutMail
<1>2. CASE Start
  <2>1. /\ task' \in [Consumers -> Tasks]
        /\ \A c \in Consumers : task'[c] \in Processing <=> task[c] \in Processing
    BY <1>2 DEF Start, MailInv, MailTyped, Tasks, Processing
  <2> QED BY <1>2, <2>1, IdleMail DEF Start
<1>3. CASE Stop
  BY <1>3, PutMail DEF Stop, Sentinels, work
<1>4. CASE StopAwaits
  <2>1. /\ task' \in [Consumers -> Tasks]
        /\ \A c \in Consumers : task'[c] \in Processing <=> task[c] \in Processing
    BY <1>4 DEF StopAwaits, MailInv, MailTyped, Tasks, Processing
  <2> QED BY <1>4, <2>1, IdleMail DEF StopAwaits
<1>5. CASE \E c \in Consumers : Work(c)
  <2>1. PICK c \in Consumers : Work(c)
    BY <1>5
  <2>2. CASE Exit(c)
    BY <2>2, TakeMail DEF Exit, Tasks, Processing
  <2>3. CASE \E k \in Keys : Deduplicate(c, k)
    <3>1. PICK k \in Keys : Deduplicate(c, k)
      BY <2>3
    <3>2. task' = [task EXCEPT ![c] = "waiting"]
      BY <3>1 DEF Deduplicate, Takes, work, MailInv, MailTyped
    <3> QED BY <3>1, <3>2, TakeMail DEF Deduplicate, Tasks, Processing
  <2>4. CASE \E k \in Keys : Handle(c, k)
    BY <2>4, TakeMail DEF Handle, Goes, Tasks, Processing
  <2>5. CASE Succeed(c)
    BY <2>5, ProcessMail DEF Succeed, Goes, Tasks, Processing
  <2>6. CASE Retry(c) \/ Again(c) \/ DeadLetter(c)
    <3>1. /\ task[c] \in Processing /\ UNCHANGED <<queue, unfinished>>
          /\ \E state \in Processing : task' = [task EXCEPT ![c] = state]
      BY <2>6 DEF Retry, Again, DeadLetter, Goes, Processing, mail
    <3> QED BY <3>1, ProcessMail DEF Tasks, Processing
  <2>7. CASE Park(c)
    <3>1. PICK end \in {"waiting", "failed"} : Goes(c, end, Nothing, 0)
      BY <2>7 DEF Park
    <3>2. end \in Tasks \ Processing /\ task' = [task EXCEPT ![c] = end]
      BY <3>1 DEF Goes, Tasks, Processing
    <3> QED BY <2>7, <3>2, ProcessMail DEF Park, Processing
  <2> QED BY <2>1, <2>2, <2>3, <2>4, <2>5, <2>6, <2>7 DEF Work
<1>6. CASE UNCHANGED vars
  BY <1>6 DEF vars, mail, work, MailInv, MailTyped, JoinCountsWork
<1> QED
  BY <1>1, <1>2, <1>3, <1>4, <1>5, <1>6 DEF Next

(***************************************************************************)
(* queue.join() waits for what is queued or in process, and for nothing    *)
(* else, on every path of a worker (_run_worker, _process).                *)
(***************************************************************************)
THEOREM JoinIsExact == Spec => []JoinCountsWork
<1>1. Init => MailInv
  BY DEF Init, MailInv, MailTyped, JoinCountsWork, Tasks, Processing
<1>2. MailInv /\ [Next]_vars => MailInv'
  BY NextMail
<1>3. MailInv => JoinCountsWork
  BY DEF MailInv
<1> QED
  BY <1>1, <1>2, <1>3, PTL DEF Spec

-----------------------------------------------------------------------------
(***************************************************************************)
(* The cache window.                                                       *)
(***************************************************************************)
RecordTyped ==
  /\ task \in [Consumers -> Tasks]
  /\ busy \in [Consumers -> Keys \cup {Nothing}]
  /\ cache \in [Consumers -> Seq(Keys)]
  /\ handled \in [Consumers -> SUBSET Keys]
  /\ newer \in [Consumers -> [Keys -> SUBSET Keys]]

\* A worker tries an event only while its cache does not know it.
TriesNew ==
  \A c \in Consumers :
    task[c] \in {"handling", "backoff"} => busy[c] \in Keys /\ ~Seen(cache[c], busy[c])

CacheInOrder == \A c \in Consumers : Distinct(cache[c]) /\ Len(cache[c]) <= CacheSize

\* A handled event is in the cache, and what follows it there was met later;
\* or it was evicted, and CacheSize others were met since.
Enough(met) == \E others \in SUBSET met : Cardinality(others) = CacheSize
Window ==
  \A c \in Consumers : \A k \in handled[c] :
    /\ \A y : After(cache[c], k, y) => y \in newer[c][k]
    /\ ~Seen(cache[c], k) => Enough(newer[c][k])

WindowInv == RecordTyped /\ TriesNew /\ CacheInOrder /\ Window

(***************************************************************************)
(* A step that records nothing.                                            *)
(***************************************************************************)
LEMMA RecordKept ==
  ASSUME WindowInv, UNCHANGED record,
         task' \in [Consumers -> Tasks],
         busy' \in [Consumers -> Keys \cup {Nothing}],
         TriesNew'
  PROVE  WindowInv'
<1>1. RecordTyped'
  BY DEF WindowInv, RecordTyped, record
<1>2. CacheInOrder'
  BY DEF WindowInv, CacheInOrder, record
<1>3. Window'
  BY DEF WindowInv, Window, record, Enough
<1> QED
  BY <1>1, <1>2, <1>3 DEF WindowInv

(***************************************************************************)
(* A step in which worker c meets event k and remembers it.                *)
(***************************************************************************)
LEMMA RecordMet ==
  ASSUME WindowInv, NEW c \in Consumers, NEW k \in Keys, NEW new,
         /\ new \in Seq(Keys) /\ Distinct(new) /\ Len(new) <= CacheSize
         /\ Seen(new, k) /\ \A y : ~After(new, k, y)
         /\ \A x, y : x # k /\ After(new, x, y) => y = k \/ After(cache[c], x, y)
         /\ \A x : x # k /\ Seen(cache[c], x) /\ ~Seen(new, x) => FollowedByEnough(cache[c], x, k, Keys, CacheSize),
         cache' = [cache EXCEPT ![c] = new],
         handled' \in [Consumers -> SUBSET Keys],
         handled'[c] \subseteq handled[c] \cup {k},
         \A d \in Consumers : d # c => handled'[d] = handled[d],
         Recorded(c, k),
         task' \in [Consumers -> Tasks],
         busy' \in [Consumers -> Keys \cup {Nothing}],
         task'[c] = "waiting",
         \A d \in Consumers : d # c => task'[d] = task[d] /\ busy'[d] = busy[d]
  PROVE  WindowInv'
<1> USE DEF WindowInv
<1>1. /\ cache' \in [Consumers -> Seq(Keys)]
      /\ \A d \in Consumers : cache'[d] = IF d = c THEN new ELSE cache[d]
  BY DEF RecordTyped
<1> DEFINE met == [other \in Keys |->
                    IF other = k \/ other \notin handled[c] THEN {} ELSE newer[c][other] \cup {k}]
<1>2. newer' = [newer EXCEPT ![c] = met]
  BY DEF Recorded
<1>3. met \in [Keys -> SUBSET Keys]
  BY DEF RecordTyped
<1>4. \A x \in handled[c] : x # k => met[x] = newer[c][x] \cup {k}
  BY DEF RecordTyped
<1> HIDE DEF met
<1>5. /\ newer' \in [Consumers -> [Keys -> SUBSET Keys]]
      /\ \A d \in Consumers : newer'[d] = IF d = c THEN met ELSE newer[d]
  BY <1>2, <1>3 DEF RecordTyped
<1>6. RecordTyped'
  BY <1>1, <1>5 DEF RecordTyped
<1>7. TriesNew'
  BY <1>1 DEF TriesNew
<1>8. CacheInOrder'
  BY <1>1 DEF CacheInOrder
<1>9. Window'
  <2> SUFFICES ASSUME NEW d \in Consumers, NEW x \in handled'[d]
               PROVE  /\ \A y : After(cache'[d], x, y) => y \in newer'[d][x]
                      /\ ~Seen(cache'[d], x) => Enough(newer'[d][x])
    BY DEF Window, Enough
  <2>1. CASE d # c
    <3>1. /\ cache'[d] = cache[d] /\ newer'[d] = newer[d] /\ x \in handled[d]
      BY <1>1, <1>5, <2>1
    <3> QED BY <3>1 DEF Window
  <2>2. CASE d = c /\ x = k
    BY <1>1, <2>2
  <2>3. CASE d = c /\ x # k
    <3>1. cache'[d] = new /\ x \in handled[c] /\ newer'[d][x] = newer[c][x] \cup {k}
      BY <1>1, <1>4, <1>5, <2>3
    <3>2. /\ \A y : After(cache[c], x, y) => y \in newer[c][x]
          /\ ~Seen(cache[c], x) => Enough(newer[c][x])
      BY <3>1 DEF Window
    <3>3. \A y : After(new, x, y) => y \in newer[c][x] \cup {k}
      BY <2>3, <3>2
    <3>4. ASSUME ~Seen(new, x) PROVE Enough(newer[c][x] \cup {k})
      <4>1. CASE ~Seen(cache[c], x)
        BY <3>2, <4>1 DEF Enough
      <4>2. CASE Seen(cache[c], x)
        <5>1. PICK others \in SUBSET Keys : /\ Cardinality(others) = CacheSize
                                            /\ \A y \in others : y = k \/ After(cache[c], x, y)
          BY <2>3, <3>4, <4>2 DEF FollowedByEnough
        <5>2. others \in SUBSET (newer[c][x] \cup {k})
          BY <3>2, <5>1
        <5> QED BY <5>1, <5>2 DEF Enough
      <4> QED BY <4>1, <4>2
    <3> QED BY <3>1, <3>3, <3>4
  <2> QED BY <2>1, <2>2, <2>3
<1> QED
  BY <1>6, <1>7, <1>8, <1>9

(***************************************************************************)
(* A duplicate is touched, an event that was handled is added.             *)
(***************************************************************************)
LEMMA DeduplicateWindow ==
  ASSUME WindowInv, NEW c \in Consumers, NEW k \in Keys, Deduplicate(c, k)
  PROVE  WindowInv'
<1> DEFINE old == cache[c]
           new == Touch(old, k)
<1>1. old \in Seq(Keys) /\ Distinct(old) /\ Len(old) <= CacheSize
  BY DEF WindowInv, RecordTyped, CacheInOrder
<1>2. /\ Seen(old, k) /\ task[c] = "waiting" /\ Recorded(c, k)
      /\ cache' = [cache EXCEPT ![c] = new]
      /\ UNCHANGED <<task, busy, handled>>
  BY DEF Deduplicate, Takes, work
<1> HIDE DEF old
<1>3. /\ new \in Seq(Keys) /\ Distinct(new)
      /\ Len(new) \in Nat \ {0} /\ new[Len(new)] = k
      /\ Len(new) = Len(old)
      /\ \A x : x # k => (Seen(new, x) <=> Seen(old, x))
      /\ \A x, y : x # k /\ After(new, x, y) => y = k \/ After(old, x, y)
  BY <1>1, <1>2, TouchOrder
<1> HIDE DEF new
<1>4. Seen(new, k) /\ \A y : ~After(new, k, y)
  BY <1>3 DEF Seen, After, Distinct
<1>5. /\ task \in [Consumers -> Tasks] /\ busy \in [Consumers -> Keys \cup {Nothing}]
      /\ handled \in [Consumers -> SUBSET Keys]
  BY DEF WindowInv, RecordTyped
<1> QED
  BY <1>1, <1>2, <1>3, <1>4, <1>5, RecordMet DEF old

LEMMA SucceedWindow ==
  ASSUME WindowInv, NEW c \in Consumers, Succeed(c)
  PROVE  WindowInv'
<1> DEFINE old == cache[c]
           k   == busy[c]
           new == Add(old, k)
<1>0. /\ task \in [Consumers -> Tasks] /\ busy \in [Consumers -> Keys \cup {Nothing}]
      /\ handled \in [Consumers -> SUBSET Keys]
  BY DEF WindowInv, RecordTyped
<1>1. old \in Seq(Keys) /\ Distinct(old) /\ Len(old) <= CacheSize
  BY DEF WindowInv, RecordTyped, CacheInOrder
<1>2. /\ task[c] = "handling" /\ Recorded(c, k)
      /\ cache' = [cache EXCEPT ![c] = new]
      /\ handled' = [handled EXCEPT ![c] = @ \cup {k}]
      /\ task' = [task EXCEPT ![c] = "waiting"]
      /\ busy' = [busy EXCEPT ![c] = Nothing]
  BY DEF Succeed, Goes
<1>3. k \in Keys
  BY <1>2 DEF WindowInv, TriesNew
<1> HIDE DEF old, k
<1>4. /\ new \in Seq(Keys) /\ Distinct(new) /\ Len(new) <= CacheSize
      /\ Seen(new, k) /\ \A y : ~After(new, k, y)
      /\ \A x, y : x # k /\ After(new, x, y) => y = k \/ After(old, x, y)
      /\ \A x : x # k /\ Seen(old, x) /\ ~Seen(new, x) => FollowedByEnough(old, x, k, Keys, CacheSize)
  <2>1. new = Evicted(Touch(old, k), CacheSize)
    BY DEF Add, Trim, Evicted
  <2>2. CacheSize \in Nat \ {0}
    BY CacheAssumption
  <2> HIDE DEF new
  <2> QED BY <1>1, <1>3, <2>1, <2>2, AddOrder
<1> HIDE DEF new
<1>5. /\ handled' \in [Consumers -> SUBSET Keys]
      /\ handled'[c] \subseteq handled[c] \cup {k}
      /\ \A d \in Consumers : d # c => handled'[d] = handled[d]
  BY <1>0, <1>2, <1>3
<1>6. /\ task' \in [Consumers -> Tasks] /\ task'[c] = "waiting"
      /\ busy' \in [Consumers -> Keys \cup {Nothing}]
      /\ \A d \in Consumers : d # c => task'[d] = task[d] /\ busy'[d] = busy[d]
  BY <1>0, <1>2 DEF Tasks
<1> QED
  BY <1>2, <1>3, <1>4, <1>5, <1>6, RecordMet DEF old

(***************************************************************************)
(* A worker that goes on with an event it may try, or with none.           *)
(***************************************************************************)
LEMMA GoesWindow ==
  ASSUME WindowInv, UNCHANGED record, NEW c \in Consumers,
         NEW state \in Tasks, NEW k \in Keys \cup {Nothing},
         task' = [task EXCEPT ![c] = state],
         busy' = [busy EXCEPT ![c] = k],
         state \in {"handling", "backoff"} => k \in Keys /\ ~Seen(cache[c], k)
  PROVE  WindowInv'
<1>1. /\ task' \in [Consumers -> Tasks] /\ busy' \in [Consumers -> Keys \cup {Nothing}]
      /\ \A d \in Consumers : /\ task'[d] = IF d = c THEN state ELSE task[d]
                              /\ busy'[d] = IF d = c THEN k ELSE busy[d]
  BY DEF WindowInv, RecordTyped
<1>2. TriesNew'
  BY <1>1 DEF WindowInv, TriesNew, record
<1> QED
  BY <1>1, <1>2, RecordKept

(***************************************************************************)
(* The window is kept by every step.                                       *)
(***************************************************************************)
LEMMA NextWindow == WindowInv /\ [Next]_vars => WindowInv'
<1> SUFFICES ASSUME WindowInv, [Next]_vars PROVE WindowInv'
  OBVIOUS
<1>0. /\ task \in [Consumers -> Tasks] /\ busy \in [Consumers -> Keys \cup {Nothing}]
  BY DEF WindowInv, RecordTyped
<1>1. ASSUME UNCHANGED <<task, busy, record>> PROVE WindowInv'
  <2>1. TriesNew'
    BY <1>1 DEF WindowInv, TriesNew, record
  <2> QED BY <1>0, <1>1, <2>1, RecordKept
<1>2. ASSUME UNCHANGED <<busy, record>>, task' \in [Consumers -> Tasks],
             \A c \in Consumers : task'[c] \in {"handling", "backoff"} => task'[c] = task[c]
      PROVE  WindowInv'
  <2>1. TriesNew'
    BY <1>2 DEF WindowInv, TriesNew, record
  <2> QED BY <1>0, <1>2, <2>1, RecordKept
<1>3. CASE (\E k \in Keys : Publish(k)) \/ Stop \/ UNCHANGED vars
  BY <1>1, <1>3 DEF Publish, Stop, vars, work
<1>4. CASE Start
  BY <1>0, <1>2, <1>4 DEF Start, Tasks
<1>5. CASE StopAwaits
  BY <1>0, <1>2, <1>5 DEF StopAwaits, Tasks
<1>6. CASE \E c \in Consumers : Work(c)
  <2>1. PICK c \in Consumers : Work(c)
    BY <1>6
  <2>2. CASE Exit(c)
    BY <1>0, <1>2, <2>2 DEF Exit, Tasks
  <2>3. CASE (\E k \in Keys : Deduplicate(c, k)) \/ Succeed(c)
    BY <2>3, DeduplicateWindow, SucceedWindow
  <2>4. CASE \E k \in Keys : Handle(c, k)
    BY <2>4, GoesWindow DEF Handle, Goes, Tasks
  <2>5. CASE Retry(c) \/ Again(c) \/ DeadLetter(c)
    <3>1. busy[c] \in Keys /\ ~Seen(cache[c], busy[c])
      BY <2>5 DEF Retry, Again, DeadLetter, WindowInv, TriesNew
    <3>2. /\ \E state \in {"backoff", "handling", "parking"} : task' = [task EXCEPT ![c] = state]
          /\ busy' = [busy EXCEPT ![c] = busy[c]]
          /\ UNCHANGED record
      BY <2>5 DEF Retry, Again, DeadLetter, Goes
    <3> QED BY <3>1, <3>2, GoesWindow DEF Tasks
  <2>6. CASE Park(c)
    BY <2>6, GoesWindow DEF Park, Goes, Tasks
  <2> QED BY <2>1, <2>2, <2>3, <2>4, <2>5, <2>6 DEF Work
<1> QED
  BY <1>3, <1>4, <1>5, <1>6 DEF Next

LEMMA InitWindow == Init => WindowInv
<1> SUFFICES ASSUME Init PROVE WindowInv
  OBVIOUS
<1>1. RecordTyped
  BY DEF Init, RecordTyped, Tasks
<1>2. TriesNew /\ Window
  BY DEF Init, TriesNew, Window
<1>3. CacheInOrder
  BY CacheAssumption DEF Init, CacheInOrder, Distinct
<1> QED BY <1>1, <1>2, <1>3 DEF WindowInv

(***************************************************************************)
(* "Processed at most once within the cache window": a handler that has    *)
(* returned from an event is called with it again only when its            *)
(* subscription has met CacheSize others since (IdempotencyCache,          *)
(* _process).                                                              *)
(***************************************************************************)
THEOREM OnceInTheWindow == Spec => []OncePerWindow
<1>1. Init => WindowInv
  BY InitWindow
<1>2. WindowInv /\ [Next]_vars => WindowInv'
  BY NextWindow
<1>3. WindowInv => OncePerWindow
  <2> SUFFICES ASSUME WindowInv, NEW c \in Consumers, NEW k \in Keys,
                      k \in handled[c], Trying(c) = <<k>>
               PROVE  \E others \in SUBSET newer[c][k] : Cardinality(others) = CacheSize
    BY DEF OncePerWindow
  <2>1. task[c] \in {"handling", "backoff"} /\ busy[c] = k
    BY DEF Trying
  <2>2. ~Seen(cache[c], k)
    BY <2>1 DEF WindowInv, TriesNew
  <2> QED BY <2>2 DEF WindowInv, Window, Enough
<1> QED
  BY <1>1, <1>2, <1>3, PTL DEF Spec

-----------------------------------------------------------------------------
(***************************************************************************)
(* What is owed to a consumer, and its order.                              *)
(***************************************************************************)
OwedTyped ==
  /\ queue \in [Consumers -> Seq(Keys \cup {Sentinel})]
  /\ task \in [Consumers -> Tasks]
  /\ busy \in [Consumers -> Keys \cup {Nothing}]
  /\ due \in [Consumers -> Seq(Keys)]

TriesKeys == \A c \in Consumers : task[c] \in {"handling", "backoff"} => busy[c] \in Keys

OwedInv == OwedTyped /\ TriesKeys /\ OwedInOrder

(***************************************************************************)
(* The envelopes of a queue when something is put in or taken out.         *)
(***************************************************************************)
LEMMA MessagesFacts ==
  ASSUME NEW q \in Seq(Keys \cup {Sentinel})
  PROVE  /\ Messages(q) \in Seq(Keys)
         /\ \A k \in Keys : Messages(Append(q, k)) = Append(Messages(q), k)
         /\ Messages(Append(q, Sentinel)) = Messages(q)
         /\ q # <<>> /\ Head(q) \in Keys => Messages(q) = <<Head(q)>> \o Messages(Tail(q))
         /\ q # <<>> /\ Head(q) \notin Keys => Messages(q) = Messages(Tail(q))
<1> DEFINE M == Keys \cup {Sentinel}
<1>0. /\ Sentinel \notin Keys /\ Sentinel \in M /\ \A k \in Keys : k \in M
      /\ q \in Seq(M) /\ M \cap Keys = Keys
  BY BusAssumption
<1> HIDE DEF M
<1>1. Messages(q) \in Seq(Keys)
  BY <1>0, SubsequenceElements DEF Messages
<1>2. \A k \in M : Messages(Append(q, k)) = IF k \in Keys THEN Append(Messages(q), k) ELSE Messages(q)
  BY <1>0, SubsequenceAppend DEF Messages
<1>3. ASSUME q # <<>>
      PROVE  Messages(q) = IF Head(q) \in Keys THEN <<Head(q)>> \o Messages(Tail(q)) ELSE Messages(Tail(q))
  <2>1. Head(q) = q[1]
    BY <1>0, <1>3
  <2>2. Messages(q) = IF q[1] \in Keys THEN <<q[1]>> \o Messages(Tail(q)) ELSE Messages(Tail(q))
    BY <1>0, <1>3, SubsequenceTail DEF Messages
  <2> QED BY <2>1, <2>2
<1> QED
  BY <1>0, <1>1, <1>2, <1>3

(***************************************************************************)
(* Nothing in front changes nothing; an element in front is the head.      *)
(***************************************************************************)
LEMMA FrontFacts ==
  ASSUME NEW s \in Seq(Keys), NEW k \in Keys
  PROVE  /\ <<>> \o s = s
         /\ <<k>> \o s \in Seq(Keys) /\ <<k>> \o s # <<>> /\ Tail(<<k>> \o s) = s
         /\ Append(s, k) \in Seq(Keys)
         /\ \A x \in Keys : Append(<<x>> \o s, k) = <<x>> \o Append(s, k)
  OBVIOUS

(***************************************************************************)
(* A step that puts a message in queues.                                   *)
(***************************************************************************)
LEMMA PutOwed ==
  ASSUME OwedInv, NEW receivers \in SUBSET Consumers, NEW k \in Keys \cup {Sentinel},
         queue' = [c \in Consumers |-> IF c \in receivers THEN Append(queue[c], k) ELSE queue[c]],
         due' = [c \in Consumers |-> IF c \in receivers /\ k \in Keys
                                     THEN Append(due[c], k) ELSE due[c]],
         UNCHANGED <<task, busy>>
  PROVE  OwedInv'
<1> USE DEF OwedInv
<1>1. \A c \in Consumers : /\ queue[c] \in Seq(Keys \cup {Sentinel})
                           /\ due[c] \in Seq(Keys)
                           /\ due[c] = Trying(c) \o Messages(queue[c])
                           /\ Trying(c)' = Trying(c)
                           /\ Trying(c) = <<>> \/ \E x \in Keys : Trying(c) = <<x>>
  BY DEF OwedTyped, OwedInOrder, OwedTo, Trying, TriesKeys
<1>2. OwedTyped'
  <2>1. \A c \in Consumers : queue'[c] \in Seq(Keys \cup {Sentinel}) /\ due'[c] \in Seq(Keys)
    BY <1>1
  <2> QED BY <2>1 DEF OwedTyped
<1>3. OwedInOrder'
  <2> SUFFICES ASSUME NEW c \in Consumers PROVE due'[c] = Trying(c) \o Messages(queue'[c])
    BY <1>1 DEF OwedInOrder, OwedTo, Messages
  <2>1. CASE c \notin receivers
    BY <1>1, <2>1
  <2>2. CASE c \in receivers /\ k \notin Keys
    <3>1. queue'[c] = Append(queue[c], Sentinel) /\ due'[c] = due[c]
      BY <2>2
    <3> QED BY <1>1, <3>1, MessagesFacts
  <2>3. CASE c \in receivers /\ k \in Keys
    <3>1. queue'[c] = Append(queue[c], k) /\ due'[c] = Append(due[c], k)
      BY <2>3
    <3>2. Messages(queue'[c]) = Append(Messages(queue[c]), k) /\ Messages(queue[c]) \in Seq(Keys)
      BY <1>1, <2>3, <3>1, MessagesFacts
    <3> DEFINE m == Messages(queue[c])
    <3>3. m \in Seq(Keys) /\ due[c] = Trying(c) \o m /\ Messages(queue'[c]) = Append(m, k)
      BY <1>1, <3>2
    <3>4. Append(Trying(c) \o m, k) = Trying(c) \o Append(m, k)
      <4> HIDE DEF m
      <4>1. CASE Trying(c) = <<>>
        BY <2>3, <3>3, <4>1, FrontFacts
      <4>2. CASE \E x \in Keys : Trying(c) = <<x>>
        BY <2>3, <3>3, <4>2, FrontFacts
      <4> QED BY <1>1, <4>1, <4>2
    <3> QED BY <3>1, <3>3, <3>4
  <2> QED BY <2>1, <2>2, <2>3
<1>4. TriesKeys'
  BY DEF TriesKeys
<1> QED
  BY <1>2, <1>3, <1>4

(***************************************************************************)
(* A step of worker c: what it is trying and what its queue holds then is  *)
(* what is due to it.                                                      *)
(***************************************************************************)
LEMMA WorkOwed ==
  ASSUME OwedInv, NEW c \in Consumers, OwedTyped',
         \A e \in Consumers \ {c} : /\ task'[e] = task[e] /\ busy'[e] = busy[e]
                                    /\ queue'[e] = queue[e] /\ due'[e] = due[e],
         task'[c] \in {"handling", "backoff"} =>
           busy'[c] \in Keys /\ due'[c] = <<busy'[c]>> \o Messages(queue'[c]),
         task'[c] \notin {"handling", "backoff"} => due'[c] = Messages(queue'[c])
  PROVE  OwedInv'
<1> USE DEF OwedInv
<1>1. TriesKeys'
  BY DEF TriesKeys
<1>2. OwedInOrder'
  <2> SUFFICES ASSUME NEW e \in Consumers PROVE due'[e] = OwedTo(e)'
    BY DEF OwedInOrder
  <2>1. CASE e = c
    <3> DEFINE m == Messages(queue'[c])
    <3>1. m \in Seq(Keys)
      BY MessagesFacts DEF OwedTyped
    <3>2. <<>> \o Messages(queue'[c]) = Messages(queue'[c])
      <4> HIDE DEF m
      <4>1. <<>> \o m = m
        BY <3>1
      <4> QED BY <4>1 DEF m
    <3> QED BY <2>1, <3>2 DEF OwedTo, Trying, Messages
  <2>2. CASE e # c
    <3>1. due[e] = OwedTo(e)
      BY DEF OwedInOrder
    <3> QED BY <2>2, <3>1 DEF OwedTo, Trying, Messages
  <2> QED BY <2>1, <2>2
<1> QED
  BY <1>1, <1>2

(***************************************************************************)
(* What a worker has before it, by what it is doing.                       *)
(***************************************************************************)
LEMMA OwedFacts ==
  ASSUME OwedInv, NEW c \in Consumers
  PROVE  /\ queue[c] \in Seq(Keys \cup {Sentinel}) /\ due[c] \in Seq(Keys)
         /\ task[c] \in {"handling", "backoff"} =>
              /\ busy[c] \in Keys /\ due[c] = <<busy[c]>> \o Messages(queue[c])
              /\ Messages(queue[c]) \in Seq(Keys) /\ Tail(due[c]) = Messages(queue[c])
         /\ task[c] \notin {"handling", "backoff"} => due[c] = Messages(queue[c])
<1> USE DEF OwedInv
<1>1. /\ queue[c] \in Seq(Keys \cup {Sentinel}) /\ due[c] \in Seq(Keys)
      /\ due[c] = Trying(c) \o Messages(queue[c])
      /\ task[c] \in {"handling", "backoff"} => busy[c] \in Keys
  BY DEF OwedTyped, OwedInOrder, OwedTo, TriesKeys
<1> DEFINE m == Messages(queue[c])
<1>2. m \in Seq(Keys) /\ due[c] = Trying(c) \o m
  BY <1>1, MessagesFacts
<1> HIDE DEF m
<1>3. ASSUME task[c] \in {"handling", "backoff"}
      PROVE  busy[c] \in Keys /\ due[c] = <<busy[c]>> \o m /\ Tail(due[c]) = m
  <2>1. busy[c] \in Keys /\ Trying(c) = <<busy[c]>>
    BY <1>1, <1>3 DEF Trying
  <2> QED BY <1>2, <2>1, FrontFacts
<1>4. ASSUME task[c] \notin {"handling", "backoff"} PROVE due[c] = m
  <2>1. Trying(c) = <<>>
    BY <1>4 DEF Trying
  <2> QED BY <1>2, <2>1
<1> QED
  BY <1>1, <1>2, <1>3, <1>4 DEF m

LEMMA TakeOwed ==
  ASSUME OwedInv, NEW c \in Consumers, NEW k, Takes(c, k)
  PROVE  /\ queue' = [queue EXCEPT ![c] = Tail(queue[c])]
         /\ Tail(queue[c]) \in Seq(Keys \cup {Sentinel})
         /\ Messages(Tail(queue[c])) \in Seq(Keys)
         /\ k \in Keys => /\ due[c] = <<k>> \o Messages(Tail(queue[c]))
                          /\ Tail(due[c]) = Messages(Tail(queue[c]))
         /\ k \notin Keys => due[c] = Messages(Tail(queue[c]))
<1>1. /\ task[c] = "waiting" /\ queue[c] # <<>> /\ Head(queue[c]) = k
      /\ queue' = [queue EXCEPT ![c] = Tail(queue[c])]
  BY DEF Takes
<1>2. queue[c] \in Seq(Keys \cup {Sentinel}) /\ due[c] = Messages(queue[c])
  BY <1>1, OwedFacts
<1> DEFINE rest == Tail(queue[c])
<1>3. rest \in Seq(Keys \cup {Sentinel})
  BY <1>1, <1>2
<1>4. /\ k \in Keys => Messages(queue[c]) = <<k>> \o Messages(rest)
      /\ k \notin Keys => Messages(queue[c]) = Messages(rest)
  BY <1>1, <1>2, MessagesFacts
<1> HIDE DEF rest
<1> DEFINE m == Messages(rest)
<1>5. m \in Seq(Keys)
  BY <1>3, MessagesFacts
<1> HIDE DEF m
<1>6. k \in Keys => Tail(<<k>> \o m) = m
  BY <1>5, FrontFacts
<1> QED
  BY <1>1, <1>2, <1>3, <1>4, <1>5, <1>6 DEF m, rest

(***************************************************************************)
(* The debts are kept by every step.                                       *)
(***************************************************************************)
LEMMA NextOwed == OwedInv /\ [Next]_vars => OwedInv'
<1> SUFFICES ASSUME OwedInv, [Next]_vars PROVE OwedInv'
  OBVIOUS
<1>0. /\ queue \in [Consumers -> Seq(Keys \cup {Sentinel})]
      /\ task \in [Consumers -> Tasks]
      /\ busy \in [Consumers -> Keys \cup {Nothing}]
      /\ due \in [Consumers -> Seq(Keys)]
  BY DEF OwedInv, OwedTyped
<1>1. ASSUME NEW k \in Keys, Publish(k) PROVE OwedInv'
  <2> DEFINE receivers == {c \in Consumers : k \in Interest[c]}
  <2>1. queue' = [c \in Consumers |-> IF c \in receivers THEN Append(queue[c], k) ELSE queue[c]]
    BY <1>1 DEF Publish
  <2>2. due' = [c \in Consumers |-> IF c \in receivers /\ k \in Keys THEN Append(due[c], k) ELSE due[c]]
    BY <1>1 DEF Publish
  <2>3. UNCHANGED <<task, busy>>
    BY <1>1 DEF Publish, work
  <2> HIDE DEF receivers
  <2>4. receivers \in SUBSET Consumers
    BY DEF receivers
  <2> QED BY <2>1, <2>2, <2>3, <2>4, PutOwed
<1>2. ASSUME UNCHANGED <<busy, queue, due>>, task' \in [Consumers -> Tasks],
             \A c \in Consumers : task'[c] = task[c] \/ {task[c], task'[c]} \cap {"handling", "backoff"} = {}
      PROVE  OwedInv'
  <2>1. \A c \in Consumers : task'[c] = task[c]
                             \/ (task[c] \notin {"handling", "backoff"} /\ task'[c] \notin {"handling", "backoff"})
    BY <1>2
  <2>2. \A c \in Consumers : Trying(c)' = Trying(c)
    BY <1>2, <2>1 DEF Trying
  <2>3. OwedInOrder'
    BY <1>2, <2>2 DEF OwedInv, OwedInOrder, OwedTo, Messages
  <2>4. TriesKeys'
    BY <1>2, <2>1 DEF OwedInv, TriesKeys
  <2>5. OwedTyped'
    BY <1>0, <1>2 DEF OwedTyped
  <2> QED BY <2>3, <2>4, <2>5 DEF OwedInv
<1>3. CASE Start
  BY <1>0, <1>2, <1>3 DEF Start, Tasks, mail, ledger
<1>4. CASE Stop
  <2>1. /\ Sentinels(Consumers) /\ UNCHANGED <<task, busy, due>>
        /\ Sentinel \notin Keys
    BY <1>4, BusAssumption DEF Stop, work, ledger
  <2>2. due' = [c \in Consumers |-> IF c \in Consumers /\ Sentinel \in Keys
                                    THEN Append(due[c], Sentinel) ELSE due[c]]
    BY <1>0, <2>1
  <2> QED BY <2>1, <2>2, PutOwed DEF Sentinels
<1>5. CASE StopAwaits
  BY <1>0, <1>2, <1>5 DEF StopAwaits, Tasks, mail, ledger
<1>6. CASE \E c \in Consumers : Work(c)
  <2>1. PICK c \in Consumers : Work(c)
    BY <1>6
  <2>0. queue[c] \in Seq(Keys \cup {Sentinel}) /\ due[c] \in Seq(Keys)
    BY <1>0
  <2> DEFINE Others == \A e \in Consumers \ {c} : /\ task'[e] = task[e] /\ busy'[e] = busy[e]
                                                  /\ queue'[e] = queue[e] /\ due'[e] = due[e]
  <2>2. CASE Exit(c)
    <3>1. /\ Takes(c, Sentinel) /\ Sentinel \notin Keys
          /\ task' = [task EXCEPT ![c] = "exited"] /\ UNCHANGED <<busy, due>>
      BY <2>2, BusAssumption DEF Exit, ledger
    <3>2. /\ queue' = [queue EXCEPT ![c] = Tail(queue[c])]
          /\ Tail(queue[c]) \in Seq(Keys \cup {Sentinel})
          /\ due[c] = Messages(Tail(queue[c]))
      BY <3>1, TakeOwed
    <3>3. /\ Others /\ OwedTyped' /\ task'[c] = "exited"
          /\ queue'[c] = Tail(queue[c]) /\ due'[c] = due[c]
      BY <1>0, <3>1, <3>2 DEF OwedTyped, Tasks
    <3> QED BY <3>2, <3>3, WorkOwed
  <2>3. CASE \E k \in Keys : Deduplicate(c, k)
    <3>1. PICK k \in Keys : Deduplicate(c, k)
      BY <2>3
    <3>2. /\ Takes(c, k) /\ task[c] = "waiting" /\ UNCHANGED <<task, busy>>
          /\ due' = [due EXCEPT ![c] = Tail(due[c])]
      BY <3>1 DEF Deduplicate, Settled, work, Takes
    <3>3. /\ queue' = [queue EXCEPT ![c] = Tail(queue[c])]
          /\ Tail(queue[c]) \in Seq(Keys \cup {Sentinel})
          /\ Messages(Tail(queue[c])) \in Seq(Keys)
          /\ Tail(due[c]) = Messages(Tail(queue[c]))
      BY <3>2, TakeOwed
    <3>4. /\ Others /\ OwedTyped' /\ task'[c] = "waiting"
          /\ queue'[c] = Tail(queue[c]) /\ due'[c] = Tail(due[c])
      BY <1>0, <3>2, <3>3 DEF OwedTyped
    <3> QED BY <3>3, <3>4, WorkOwed
  <2>4. CASE \E k \in Keys : Handle(c, k)
    <3>1. PICK k \in Keys : Handle(c, k)
      BY <2>4
    <3>2. /\ Takes(c, k) /\ UNCHANGED due
          /\ task' = [task EXCEPT ![c] = "handling"] /\ busy' = [busy EXCEPT ![c] = k]
      BY <3>1 DEF Handle, Goes, ledger
    <3>3. /\ queue' = [queue EXCEPT ![c] = Tail(queue[c])]
          /\ Tail(queue[c]) \in Seq(Keys \cup {Sentinel})
          /\ due[c] = <<k>> \o Messages(Tail(queue[c]))
      BY <3>2, TakeOwed
    <3>4. /\ Others /\ OwedTyped' /\ task'[c] = "handling" /\ busy'[c] = k
          /\ queue'[c] = Tail(queue[c]) /\ due'[c] = due[c]
      BY <1>0, <3>2, <3>3 DEF OwedTyped, Tasks
    <3> QED BY <3>3, <3>4, WorkOwed
  <2>5. CASE Succeed(c) \/ DeadLetter(c)
    <3>1. PICK state \in {"waiting", "parking"}, left \in {busy[c], Nothing} :
             /\ task[c] = "handling" /\ UNCHANGED queue
             /\ due' = [due EXCEPT ![c] = Tail(due[c])]
             /\ task' = [task EXCEPT ![c] = state] /\ busy' = [busy EXCEPT ![c] = left]
      BY <2>5 DEF Succeed, DeadLetter, Goes, Settled, mail
    <3>2. Messages(queue[c]) \in Seq(Keys) /\ Tail(due[c]) = Messages(queue[c])
      BY <3>1, OwedFacts
    <3>3. /\ Others /\ OwedTyped' /\ task'[c] = state
          /\ queue'[c] = queue[c] /\ due'[c] = Tail(due[c])
      BY <1>0, <3>1, <3>2 DEF OwedTyped, Tasks
    <3> QED BY <3>2, <3>3, WorkOwed
  <2>6. CASE Retry(c) \/ Again(c)
    <3>1. PICK state \in {"handling", "backoff"} :
             /\ task[c] \in {"handling", "backoff"} /\ UNCHANGED <<queue, due>>
             /\ task' = [task EXCEPT ![c] = state] /\ busy' = [busy EXCEPT ![c] = busy[c]]
      BY <2>6 DEF Retry, Again, Goes, mail, ledger
    <3>2. busy[c] \in Keys /\ due[c] = <<busy[c]>> \o Messages(queue[c])
      BY <3>1, OwedFacts
    <3>3. /\ Others /\ OwedTyped' /\ task'[c] = state /\ busy'[c] = busy[c]
          /\ queue'[c] = queue[c] /\ due'[c] = due[c]
      BY <1>0, <3>1 DEF OwedTyped, Tasks
    <3> QED BY <3>2, <3>3, WorkOwed
  <2>7. CASE Park(c)
    <3>1. PICK state \in {"waiting", "failed"} :
             /\ task[c] = "parking" /\ UNCHANGED <<queue, due>>
             /\ task' = [task EXCEPT ![c] = state] /\ busy' = [busy EXCEPT ![c] = Nothing]
      BY <2>7 DEF Park, Goes, ledger
    <3>2. due[c] = Messages(queue[c])
      BY <3>1, OwedFacts
    <3>3. /\ Others /\ OwedTyped' /\ task'[c] = state
          /\ queue'[c] = queue[c] /\ due'[c] = due[c]
      BY <1>0, <3>1 DEF OwedTyped, Tasks
    <3> QED BY <3>2, <3>3, WorkOwed
  <2> QED BY <2>1, <2>2, <2>3, <2>4, <2>5, <2>6, <2>7 DEF Work
<1>7. CASE UNCHANGED vars
  BY <1>0, <1>2, <1>7 DEF vars, mail, work, ledger
<1> QED
  BY <1>1, <1>3, <1>4, <1>5, <1>6, <1>7 DEF Next

LEMMA InitOwed == Init => OwedInv
<1> SUFFICES ASSUME Init PROVE OwedInv
  OBVIOUS
<1>1. OwedTyped /\ TriesKeys
  BY DEF Init, OwedTyped, TriesKeys, Tasks
<1>2. \A c \in Consumers : Trying(c) = <<>> /\ Messages(queue[c]) = <<>> /\ due[c] = <<>>
  BY SubsequenceEmpty DEF Init, Trying, Messages
<1>3. <<>> \o <<>> = <<>>
  OBVIOUS
<1>4. OwedInOrder
  BY <1>2, <1>3 DEF OwedInOrder, OwedTo
<1> QED BY <1>1, <1>4 DEF OwedInv

(***************************************************************************)
(* Each consumer settles its events one at a time, in the order they were  *)
(* published: retries happen in place (_process), and neither stop() nor   *)
(* start() nor a duplicate loses, adds or reorders any.                    *)
(***************************************************************************)
THEOREM InOrder == Spec => []OwedInOrder
<1>1. Init => OwedInv
  BY InitOwed
<1>2. OwedInv /\ [Next]_vars => OwedInv'
  BY NextOwed
<1>3. OwedInv => OwedInOrder
  BY DEF OwedInv
<1> QED
  BY <1>1, <1>2, <1>3, PTL DEF Spec

-----------------------------------------------------------------------------
(***************************************************************************)
(* The types of the rest of the state, and of all of it.                   *)
(***************************************************************************)
RestTyped ==
  /\ running \in BOOLEAN
  /\ stopper \in 0..Subscriptions
  /\ attempt \in [Consumers -> 0..MaxRetries]
  /\ deadLetters \in [Consumers -> SUBSET Keys]
  /\ published \in Nat

LEMMA NextTyped == RestTyped /\ OwedInv /\ [Next]_vars => RestTyped'
<1> SUFFICES ASSUME RestTyped, OwedInv, [Next]_vars PROVE RestTyped'
  OBVIOUS
<1> USE DEF RestTyped
<1>0. Subscriptions \in Nat \ {0} /\ MaxRetries \in Nat
  BY BusAssumption, CacheAssumption
<1>1. CASE (\E k \in Keys : Publish(k)) \/ UNCHANGED vars
  BY <1>1 DEF Publish, vars, lifecycle, work, ledger
<1>2. CASE Start
  BY <1>2 DEF Start, ledger
<1>3. CASE Stop
  <2>1. running' = FALSE /\ stopper' = 1 /\ UNCHANGED <<attempt, deadLetters, published>>
    BY <1>3 DEF Stop, work, ledger
  <2>2. 1 \in 0..Subscriptions
    BY <1>0
  <2> QED BY <2>1, <2>2
<1>4. CASE StopAwaits
  BY <1>0, <1>4 DEF StopAwaits, ledger
<1>5. CASE \E c \in Consumers : Work(c)
  <2>1. PICK c \in Consumers : Work(c)
    BY <1>5
  <2>2. CASE Exit(c) \/ \E k \in Keys : Deduplicate(c, k)
    <3>1. UNCHANGED <<running, stopper, attempt, deadLetters, published>>
      BY <2>2 DEF Exit, Deduplicate, lifecycle, ledger, Settled, work
    <3> QED BY <3>1
  <2>3. CASE (\E k \in Keys : Handle(c, k)) \/ Succeed(c) \/ Park(c)
    <3>1. UNCHANGED <<running, stopper, deadLetters, published>> /\ attempt' = [attempt EXCEPT ![c] = 0]
      BY <2>3 DEF Handle, Succeed, Park, Goes, lifecycle, ledger, Settled
    <3> QED BY <1>0, <3>1
  <2>4. CASE Retry(c) \/ Again(c)
    <3>1. /\ UNCHANGED <<running, stopper, deadLetters, published>>
          /\ \E tries \in 0..MaxRetries : attempt' = [attempt EXCEPT ![c] = tries]
      BY <1>0, <2>4 DEF Retry, Again, Goes, lifecycle, ledger, ShouldRetry
    <3> QED BY <3>1
  <2>5. CASE DeadLetter(c)
    <3>1. busy[c] \in Keys
      BY <2>5, OwedFacts DEF DeadLetter
    <3> QED BY <2>5, <3>1 DEF DeadLetter, Goes, Settled, lifecycle
  <2> QED BY <2>1, <2>2, <2>3, <2>4, <2>5 DEF Work
<1> QED
  BY <1>1, <1>2, <1>3, <1>4, <1>5 DEF Next

(***************************************************************************)
(* The invariants of this module, for the theorems that need several.      *)
(***************************************************************************)
Inv == MailInv /\ WindowInv /\ OwedInv /\ RestTyped

LEMMA Invariant == Spec => []Inv
<1>1. Init => RestTyped
  <2> SUFFICES ASSUME Init PROVE RestTyped
    OBVIOUS
  <2>1. Subscriptions \in Nat \ {0} /\ MaxRetries \in Nat
    BY BusAssumption, CacheAssumption
  <2>2. /\ running = FALSE /\ stopper = 0 /\ published = 0
        /\ attempt = [c \in Consumers |-> 0] /\ deadLetters = [c \in Consumers |-> {}]
    BY DEF Init
  <2>3. attempt \in [Consumers -> 0..MaxRetries] /\ stopper \in 0..Subscriptions
    BY <2>1, <2>2
  <2>4. deadLetters \in [Consumers -> SUBSET Keys]
    BY <2>2
  <2> QED BY <2>2, <2>3, <2>4 DEF RestTyped
<1>2. Init => MailInv
  BY DEF Init, MailInv, MailTyped, JoinCountsWork, Tasks, Processing
<1>3. Init => Inv
  BY <1>1, <1>2, InitWindow, InitOwed DEF Inv
<1>4. Inv /\ [Next]_vars => Inv'
  BY NextMail, NextWindow, NextOwed, NextTyped DEF Inv
<1> QED
  BY <1>3, <1>4, PTL DEF Spec

(***************************************************************************)
(* Every variable keeps its type.                                          *)
(***************************************************************************)
THEOREM TypeCorrect == Spec => []TypeOK
<1>1. Inv => TypeOK
  BY DEF Inv, MailInv, MailTyped, WindowInv, RecordTyped, OwedInv, OwedTyped, RestTyped, TypeOK
<1> QED
  BY <1>1, Invariant, PTL

-----------------------------------------------------------------------------
(***************************************************************************)
(* The contract of the port.                                               *)
(***************************************************************************)

(***************************************************************************)
(* How often an event is in a sequence with one more, at either end.       *)
(***************************************************************************)
LEMMA CopiesAppend ==
  ASSUME NEW s \in Seq(Keys), NEW x \in Keys, NEW k
  PROVE  /\ Copies(s, k) \in Nat
         /\ Copies(Append(s, x), k) = IF x = k THEN Copies(s, k) + 1 ELSE Copies(s, k)
<1> DEFINE n == Len(s)
           longer == Append(s, x)
           at == {i \in 1..n : s[i] = k}
<1>1. /\ n \in Nat /\ Len(longer) = n + 1 /\ longer[n + 1] = x
      /\ \A i \in 1..n : longer[i] = s[i]
  OBVIOUS
<1> HIDE DEF n, longer
<1>2. {i \in 1..(n + 1) : longer[i] = k} = IF x = k THEN at \cup {n + 1} ELSE at
  BY <1>1
<1>3. n + 1 \notin at
  BY <1>1
<1>4. IsFiniteSet(1..n) /\ at \in SUBSET (1..n)
  BY <1>1, FS_Interval
<1> HIDE DEF at
<1>5. IsFiniteSet(at)
  BY <1>4, FS_Subset
<1>6. Cardinality(at) \in Nat /\ Cardinality(at \cup {n + 1}) = Cardinality(at) + 1
  BY <1>3, <1>5, FS_AddElement, FS_CardinalityType
<1>7. Copies(s, k) = Cardinality(at)
  BY DEF Copies, at, n
<1>8. Copies(longer, k) = IF x = k THEN Cardinality(at \cup {n + 1}) ELSE Cardinality(at)
  BY <1>1, <1>2 DEF Copies
<1> QED
  BY <1>6, <1>7, <1>8 DEF longer

LEMMA CopiesFront ==
  ASSUME NEW s \in Seq(Keys), NEW x \in Keys, NEW k
  PROVE  /\ Copies(s, k) \in Nat
         /\ Copies(<<x>> \o s, k) = IF x = k THEN Copies(s, k) + 1 ELSE Copies(s, k)
<1> DEFINE Counted(q) == Copies(<<x>> \o q, k) = IF x = k THEN Copies(q, k) + 1 ELSE Copies(q, k)
           Good == {q \in Seq(Keys) : Counted(q)}
<1>1. <<>> \in Good
  <2>1. <<>> \in Seq(Keys) /\ <<x>> \o <<>> = Append(<<>>, x)
    OBVIOUS
  <2>2. Copies(Append(<<>>, x), k) = IF x = k THEN Copies(<<>>, k) + 1 ELSE Copies(<<>>, k)
    BY <2>1, CopiesAppend
  <2> QED BY <2>1, <2>2
<1>2. ASSUME NEW q \in Seq(Keys), NEW y \in Keys, q \in Good PROVE Append(q, y) \in Good
  <2>1. /\ <<x>> \o q \in Seq(Keys) /\ Append(q, y) \in Seq(Keys)
        /\ <<x>> \o Append(q, y) = Append(<<x>> \o q, y)
    OBVIOUS
  <2>2. /\ Copies(Append(q, y), k) = IF y = k THEN Copies(q, k) + 1 ELSE Copies(q, k)
        /\ Copies(q, k) \in Nat
    BY CopiesAppend
  <2>3. Copies(Append(<<x>> \o q, y), k) = IF y = k THEN Copies(<<x>> \o q, k) + 1
                                                    ELSE Copies(<<x>> \o q, k)
    BY <2>1, CopiesAppend
  <2>4. Copies(<<x>> \o q, k) = IF x = k THEN Copies(q, k) + 1 ELSE Copies(q, k)
    BY <1>2
  <2>5. Counted(Append(q, y))
    BY <2>1, <2>2, <2>3, <2>4
  <2> HIDE DEF Counted
  <2> QED BY <2>1, <2>5
<1> HIDE DEF Good
<1>3. s \in Good
  BY <1>1, <1>2, SequenceInduction
<1> QED
  BY <1>3, CopiesAppend DEF Good

(***************************************************************************)
(* What the cache remembers was handled.                                   *)
(***************************************************************************)
CachedIsHandled == \A c \in Consumers, k \in Keys : Seen(cache[c], k) => k \in handled[c]

LEMMA NextCached == Inv /\ CachedIsHandled /\ [Next]_vars => CachedIsHandled'
<1> SUFFICES ASSUME Inv, CachedIsHandled, [Next]_vars PROVE CachedIsHandled'
  OBVIOUS
<1>0. cache \in [Consumers -> Seq(Keys)] /\ handled \in [Consumers -> SUBSET Keys]
  BY DEF Inv, WindowInv, RecordTyped
<1>1. CASE UNCHANGED record
  BY <1>1 DEF CachedIsHandled, record
<1>2. ASSUME NEW c \in Consumers, NEW k \in Keys, Deduplicate(c, k) PROVE CachedIsHandled'
  <2>1. Seen(cache[c], k) /\ cache' = [cache EXCEPT ![c] = Touch(cache[c], k)] /\ UNCHANGED handled
    BY <1>2 DEF Deduplicate
  <2>2. \A other : Seen(Touch(cache[c], k), other) => other = k \/ Seen(cache[c], other)
    BY <1>0, TouchProps
  <2> QED BY <1>0, <2>1, <2>2 DEF CachedIsHandled
<1>3. ASSUME NEW c \in Consumers, Succeed(c) PROVE CachedIsHandled'
  <2> DEFINE k == busy[c]
  <2>1. /\ cache' = [cache EXCEPT ![c] = Add(cache[c], k)]
        /\ handled' = [handled EXCEPT ![c] = handled[c] \cup {k}]
    BY <1>3 DEF Succeed
  <2>2. k \in Keys
    BY <1>3, OwedFacts DEF Succeed, Inv
  <2> HIDE DEF k
  <2>3. \A other : Seen(Add(cache[c], k), other) => other = k \/ Seen(cache[c], other)
    <3>1. Add(cache[c], k) = Evicted(Touch(cache[c], k), CacheSize) /\ CacheSize \in Nat \ {0}
      BY CacheAssumption DEF Add, Trim, Evicted
    <3> QED BY <1>0, <2>2, <3>1, AddProps
  <2> QED BY <1>0, <2>1, <2>3 DEF CachedIsHandled
<1> QED
  BY <1>1, <1>2, <1>3
     DEF Next, Work, Publish, Start, Stop, StopAwaits, Exit, Handle, Retry, Again, DeadLetter, Park, vars

(***************************************************************************)
(* The refinement mapping, and what becomes of it when the debts change.   *)
(***************************************************************************)
Owed == [c \in Consumers |-> [k \in Keys |-> Copies(OwedTo(c), k)]]

LEMMA OwedIsDue ==
  ASSUME OwedInv
  PROVE  Owed = [c \in Consumers |-> [k \in Keys |-> Copies(due[c], k)]]
  BY DEF OwedInv, OwedInOrder, Owed

LEMMA SettledOwed ==
  ASSUME OwedInv, OwedInv', NEW c \in Consumers, NEW k \in Keys, NEW m \in Seq(Keys),
         due[c] = <<k>> \o m, Settled(c)
  PROVE  /\ Owed[c][k] > 0
         /\ Owed' = [Owed EXCEPT ![c][k] = @ - 1]
<1>1. due \in [Consumers -> Seq(Keys)]
  BY DEF OwedInv, OwedTyped
<1>2. Tail(due[c]) = m
  BY FrontFacts
<1>3. \A d \in Consumers : due'[d] = IF d = c THEN m ELSE due[d]
  BY <1>1, <1>2 DEF Settled
<1>4. \A other : /\ Copies(m, other) \in Nat
                 /\ Copies(due[c], other) = IF k = other THEN Copies(m, other) + 1 ELSE Copies(m, other)
  BY CopiesFront
<1>5. Owed = [d \in Consumers |-> [other \in Keys |-> Copies(due[d], other)]]
  BY OwedIsDue
<1>6. Owed' = [d \in Consumers |-> [other \in Keys |-> Copies(due'[d], other)]]
  BY DEF OwedInv, OwedInOrder, Owed, Copies
<1> DEFINE Now(d, other) == Copies(due[d], other)
           Then(d, other) == Copies(due'[d], other)
<1>7. \A d \in Consumers, other \in Keys :
        Then(d, other) = IF d = c /\ other = k THEN Now(d, other) - 1 ELSE Now(d, other)
  <2> SUFFICES ASSUME NEW d \in Consumers, NEW other \in Keys
               PROVE  Then(d, other) = IF d = c /\ other = k THEN Now(d, other) - 1
                                                             ELSE Now(d, other)
    OBVIOUS
  <2>1. CASE d # c
    BY <1>3, <2>1
  <2>2. CASE d = c
    <3>1. Then(d, other) = Copies(m, other) /\ Now(d, other) = Copies(due[c], other)
      BY <1>3, <2>2
    <3> HIDE DEF Then, Now
    <3> QED BY <1>4, <2>2, <3>1
  <2> QED BY <2>1, <2>2
<1>8. Now(c, k) > 0
  BY <1>4
<1>9. /\ Owed = [d \in Consumers |-> [other \in Keys |-> Now(d, other)]]
      /\ Owed' = [d \in Consumers |-> [other \in Keys |-> Then(d, other)]]
  BY <1>5, <1>6
<1> HIDE DEF Owed, Now, Then
<1>10. Owed' = [Owed EXCEPT ![c][k] = @ - 1]
  <2> DEFINE new == [Owed EXCEPT ![c] = [Owed[c] EXCEPT ![k] = @ - 1]]
  <2>1. ASSUME NEW d \in Consumers PROVE new[d] = Owed'[d]
    BY <1>7, <1>9
  <2>2. new = Owed'
    BY <1>9, <2>1
  <2> QED BY <2>2
<1> QED
  BY <1>8, <1>9, <1>10

LEMMA UnchangedOwed ==
  ASSUME OwedInv, OwedInv', UNCHANGED due
  PROVE  UNCHANGED Owed
<1>1. Owed' = [d \in Consumers |-> [other \in Keys |-> Copies(due'[d], other)]]
  BY DEF OwedInv, OwedInOrder, Owed, Copies
<1> QED
  BY <1>1, OwedIsDue

LEMMA PublishedOwed ==
  ASSUME OwedInv, OwedInv', NEW k \in Keys, Publish(k)
  PROVE  Owed' = [c \in Consumers |->
                    IF k \in Interest[c] THEN [Owed[c] EXCEPT ![k] = @ + 1] ELSE Owed[c]]
<1>1. due \in [Consumers -> Seq(Keys)]
  BY DEF OwedInv, OwedTyped
<1>2. \A c \in Consumers : due'[c] = IF k \in Interest[c] THEN Append(due[c], k) ELSE due[c]
  BY DEF Publish
<1>3. \A c \in Consumers, other \in Keys :
        Copies(Append(due[c], k), other) = IF k = other THEN Copies(due[c], other) + 1
                                                        ELSE Copies(due[c], other)
  BY <1>1, CopiesAppend
<1>4. Owed = [d \in Consumers |-> [other \in Keys |-> Copies(due[d], other)]]
  BY OwedIsDue
<1>5. Owed' = [d \in Consumers |-> [other \in Keys |-> Copies(due'[d], other)]]
  BY DEF OwedInv, OwedInOrder, Owed, Copies
<1>6. Owed' = [d \in Consumers |-> [other \in Keys |->
                 IF k \in Interest[d] /\ other = k THEN Copies(due[d], other) + 1
                                                   ELSE Copies(due[d], other)]]
  BY <1>2, <1>3, <1>5
<1>7. [c \in Consumers |-> IF k \in Interest[c] THEN [Owed[c] EXCEPT ![k] = @ + 1] ELSE Owed[c]]
        = [d \in Consumers |-> [other \in Keys |->
             IF k \in Interest[d] /\ other = k THEN Copies(due[d], other) + 1
                                               ELSE Copies(due[d], other)]]
  <2> DEFINE more == [c \in Consumers |-> IF k \in Interest[c] THEN [Owed[c] EXCEPT ![k] = @ + 1] ELSE Owed[c]]
             counts == [d \in Consumers |-> [other \in Keys |->
                          IF k \in Interest[d] /\ other = k THEN Copies(due[d], other) + 1
                                                            ELSE Copies(due[d], other)]]
  <2>1. ASSUME NEW c \in Consumers PROVE more[c] = counts[c]
    <3>1. Owed[c] = [other \in Keys |-> Copies(due[c], other)]
      BY <1>4
    <3>2. more[c] = IF k \in Interest[c] THEN [Owed[c] EXCEPT ![k] = @ + 1] ELSE Owed[c]
      OBVIOUS
    <3>3. counts[c] = [other \in Keys |-> IF k \in Interest[c] /\ other = k THEN Copies(due[c], other) + 1
                                                                            ELSE Copies(due[c], other)]
      OBVIOUS
    <3> HIDE DEF more, counts
    <3> QED BY <3>1, <3>2, <3>3
  <2> QED BY <2>1
<1> QED
  BY <1>6, <1>7

(***************************************************************************)
(* Every step of the bus is a step of the contract, or none.               *)
(***************************************************************************)
LEMMA StepKeepsContract ==
  ASSUME Inv, Inv', CachedIsHandled, [Next]_vars
  PROVE  [Contract!Next]_(Contract!vars)
<1>0. OwedInv /\ OwedInv'
  BY DEF Inv
<1>1. ASSUME UNCHANGED <<due, handled, deadLetters>> PROVE UNCHANGED Contract!vars
  BY <1>0, <1>1, UnchangedOwed DEF Owed, Contract!vars
<1>2. ASSUME NEW k \in Keys, Publish(k) PROVE Contract!Publish(k)
  <2>1. UNCHANGED <<handled, deadLetters>>
    BY <1>2 DEF Publish, record
  <2> QED BY <1>0, <1>2, <2>1, PublishedOwed DEF Owed, Contract!Publish
<1>3. ASSUME NEW c \in Consumers, NEW k \in Keys, Deduplicate(c, k) PROVE Contract!Recognise(c, k)
  <2>1. /\ Takes(c, k) /\ Seen(cache[c], k) /\ Settled(c) /\ UNCHANGED <<handled, deadLetters>>
    BY <1>3 DEF Deduplicate
  <2>2. k \in handled[c]
    BY <2>1 DEF CachedIsHandled
  <2>3. /\ due[c] = <<k>> \o Messages(Tail(queue[c]))
        /\ Messages(Tail(queue[c])) \in Seq(Keys)
    BY <1>0, <2>1, TakeOwed
  <2>4. Owed[c][k] > 0 /\ Owed' = [Owed EXCEPT ![c][k] = @ - 1]
    BY <1>0, <2>1, <2>3, SettledOwed
  <2> QED BY <2>1, <2>2, <2>4 DEF Owed, Contract!Recognise, Contract!Settle
<1>4. ASSUME NEW c \in Consumers, Succeed(c) \/ DeadLetter(c)
      PROVE  Contract!Handle(c, busy[c]) \/ Contract!GiveUp(c, busy[c])
  <2>1. /\ task[c] = "handling" /\ Settled(c)
        /\ \/ handled' = [handled EXCEPT ![c] = @ \cup {busy[c]}] /\ UNCHANGED deadLetters
           \/ deadLetters' = [deadLetters EXCEPT ![c] = @ \cup {busy[c]}] /\ UNCHANGED handled
    BY <1>4 DEF Succeed, DeadLetter, record
  <2>2. /\ busy[c] \in Keys /\ due[c] = <<busy[c]>> \o Messages(queue[c])
        /\ Messages(queue[c]) \in Seq(Keys)
    BY <1>0, <2>1, OwedFacts
  <2>3. Owed[c][busy[c]] > 0 /\ Owed' = [Owed EXCEPT ![c][busy[c]] = @ - 1]
    BY <1>0, <2>1, <2>2, SettledOwed
  <2> QED BY <2>1, <2>3 DEF Owed, Contract!Handle, Contract!GiveUp, Contract!Settle
<1>5. CASE \E k \in Keys : Publish(k)
  BY <1>2, <1>5 DEF Contract!Next
<1>6. CASE Start \/ Stop \/ StopAwaits \/ UNCHANGED vars
  BY <1>1, <1>6 DEF Start, Stop, StopAwaits, vars, record, ledger
<1>7. CASE \E c \in Consumers : Work(c)
  <2>1. PICK c \in Consumers : Work(c)
    BY <1>7
  <2>2. CASE Exit(c) \/ (\E k \in Keys : Handle(c, k)) \/ Retry(c) \/ Again(c) \/ Park(c)
    BY <1>1, <2>2 DEF Exit, Handle, Retry, Again, Park, record, ledger
  <2>3. CASE \E k \in Keys : Deduplicate(c, k)
    BY <1>3, <2>3 DEF Contract!Next
  <2>4. CASE Succeed(c) \/ DeadLetter(c)
    <3>1. busy[c] \in Keys
      BY <1>0, <2>4, OwedFacts DEF Succeed, DeadLetter
    <3> QED BY <1>4, <2>4, <3>1 DEF Contract!Next
  <2> QED BY <2>1, <2>2, <2>3, <2>4 DEF Work
<1> QED
  BY <1>5, <1>6, <1>7 DEF Next

(***************************************************************************)
(* The in-memory bus implements the delivery contract of the port: what is *)
(* published is settled by the handler returning, by recognising an event  *)
(* that was handled, or by dead-lettering, and by nothing else, across     *)
(* stop(), start() and the failure of a worker.                            *)
(***************************************************************************)
THEOREM Refinement == Spec => KeepsContract
<1>1. Init => Contract!Init
  <2> SUFFICES ASSUME Init PROVE Contract!Init
    OBVIOUS
  <2>1. Owed = [c \in Consumers |-> [k \in Keys |-> Copies(due[c], k)]]
    BY InitOwed, OwedIsDue
  <2>2. \A k : Copies(<<>>, k) = 0
    <3>1. \A k : {i \in 1..Len(<<>>) : <<>>[i] = k} = {}
      OBVIOUS
    <3> QED BY <3>1, FS_EmptySet DEF Copies
  <2>3. Owed = [c \in Consumers |-> [k \in Keys |-> 0]]
    BY <2>1, <2>2 DEF Init
  <2> QED BY <2>3 DEF Init, Owed, Contract!Init
<1>2. Init => CachedIsHandled
  BY DEF Init, CachedIsHandled, Seen
<1>3. Inv /\ CachedIsHandled /\ [Next]_vars => CachedIsHandled'
  BY NextCached
<1>4. Inv /\ Inv' /\ CachedIsHandled /\ [Next]_vars => [Contract!Next]_(Contract!vars)
  BY StepKeepsContract
<1> QED
  BY <1>1, <1>2, <1>3, <1>4, Invariant, PTL DEF Spec, KeepsContract, Contract!Spec
=============================================================================
