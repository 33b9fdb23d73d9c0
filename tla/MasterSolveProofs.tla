-------------------------- MODULE MasterSolveProofs --------------------------
(***************************************************************************)
(* Proofs about MasterSolve, for every tree, frontier, depth, retry budget *)
(* and truthful environment.                                               *)
(***************************************************************************)
EXTENDS MasterSolve, Functions, FiniteSetTheorems, SequenceTheorems, TLAPS

LEMMA JobFacts ==
  /\ \A n \in Node : FirstTry(n) \in Job
  /\ \A j \in Job : j.node \in Node /\ j.retry \in 0..MaxAttempts
  /\ \A j \in Job : j.retry < MaxAttempts => NextTry(j) \in Job
BY SolveAssumption DEF Job, FirstTry, NextTry

(* The first attempts at a sequence of nodes are a sequence of jobs.        *)
LEMMA FirstTries ==
  ASSUME NEW F \in Seq(Node)
  PROVE  LET s == [i \in DOMAIN F |-> FirstTry(F[i])]
         IN  s \in Seq(Job) /\ Len(s) = Len(F) /\ DOMAIN s = DOMAIN F
<1> DEFINE s == [i \in DOMAIN F |-> FirstTry(F[i])]
<1>1. DOMAIN F = 1..Len(F) /\ Len(F) \in Nat /\ \A i \in DOMAIN F : F[i] \in Node
  OBVIOUS
<1>2. s \in [1..Len(F) -> Job]
  BY <1>1, JobFacts
<1> QED
  BY <1>1, <1>2

LEMMA KidsFacts ==
  ASSUME NEW n \in Node
  PROVE  /\ Kids[n] \in Seq(Node)
         /\ Kids[n] # <<>> => /\ Kids[n][1] \in Node /\ Kids[n][2] \in Node
                             /\ DOMAIN Kids[n] = {1, 2}
                             /\ Len(Kids[n]) = 2
<1>1. Kids[n] = <<>> \/ Kids[n] \in Node \X Node
  BY TreeAssumption DEF TreeTypes
<1>2. CASE Kids[n] = <<>>
  BY <1>2
<1>3. CASE Kids[n] \in Node \X Node
  <2>1. PICK l \in Node, r \in Node : Kids[n] = <<l, r>>
    BY <1>3
  <2> QED
    BY <2>1
<1> QED
  BY <1>1, <1>2, <1>3

(* An answer of the environment is a Result.                                *)
LEMMA AnswerType ==
  ASSUME NEW j \in Job, NEW r \in TruthfulAnswers(j)
  PROVE  r \in Result /\ r.job = j /\ Truthful(r) /\ r.x \in Pts[j.node] \cup {NoPoint}
<1>1. PICK s \in Answers, x \in Pts[j.node] \cup {NoPoint} :
        r = [job |-> j, status |-> s, x |-> x] /\ Truthful(r)
  BY DEF TruthfulAnswers
<1>2. s \in ResultStatus /\ x \in Point \cup {NoPoint}
  BY SolveAssumption, TreeAssumption, JobFacts DEF TreeTypes
<1> QED
  BY <1>1, <1>2 DEF Result

(* The points aggregate_results may return are points.                      *)
LEMMA BestPointsType ==
  ASSUME results \subseteq Result
  PROVE  \A x \in BestPoints(results) : x \in Point /\ \E r \in results : r.x = x
BY DEF BestPoints, Feasible, Result

LEMMA StatusType ==
  ASSUME NEW R, NEW n, NEW t
  PROVE  AggregateStatus(R, n, t) \in Answer
BY DEF AggregateStatus, Answer

(* Aggregate and FinishCancelled answer with a Response and a closed entry. *)
LEMMA AggregateType ==
  ASSUME TypeOK, NEW t \in BOOLEAN, Aggregate(t)
  PROVE  response' \in Response /\ entry' \in Entry /\ entry'.finished
<1>1. Cardinality(results) \in Nat
  BY FS_CardinalityType DEF TypeOK
<1>2. AggregateStatus(results, count.expected, t) \in Answer
  BY StatusType
<1>3. count.expected \in Nat /\ count.published \in Nat /\ count.redelegated \in Nat
      /\ count.split \in Nat
  BY DEF TypeOK, Counts
<1>4. response' \in Response
  <2>1. PICK x \in IF Feasible(results) = {} THEN {NoPoint} ELSE BestPoints(results) :
           response' = [status |-> AggregateStatus(results, count.expected, t),
                        x |-> x, timedOut |-> t,
                        expected |-> count.expected, published |-> count.published,
                        completed |-> Cardinality(results),
                        redelegated |-> count.redelegated, split |-> count.split]
    BY DEF Aggregate
  <2>2. x \in Point \cup {NoPoint}
    BY BestPointsType DEF TypeOK
  <2> QED
    BY <1>1, <1>2, <1>3, <2>1, <2>2 DEF Response
<1>5. entry' \in Entry /\ entry'.finished
  BY <1>1, <1>2, <1>3 DEF Aggregate, TypeOK, Entry
<1> QED
  BY <1>4, <1>5

LEMMA CancelType ==
  ASSUME TypeOK, FinishCancelled
  PROVE  /\ response' \in Response /\ entry' \in Entry
         /\ jobStatus' \in [Job -> JobStatus] /\ pc' = "done"
BY DEF FinishCancelled, TypeOK, Response, Entry, Answer, JobStatus

-----------------------------------------------------------------------------
(* Sequences and finite sets.                                               *)

LEMMA NodesInFinite ==
  ASSUME NEW S, NEW s \in Seq(S)
  PROVE  /\ NodesIn(s) \subseteq S
         /\ IsFiniteSet(NodesIn(s))
         /\ Cardinality(NodesIn(s)) <= Len(s)
<1>1. Len(s) \in Nat /\ s \in [1..Len(s) -> S] /\ DOMAIN s = 1..Len(s)
  BY LenProperties
<1>2. s \in Surjection(1..Len(s), NodesIn(s))
  BY <1>1 DEF Surjection, NodesIn
<1>3. IsFiniteSet(1..Len(s))
  BY <1>1, FS_Interval
<1>4. IsFiniteSet(NodesIn(s))
  BY <1>2, <1>3, FS_Surjection
<1>5. Cardinality(NodesIn(s)) <= Len(s)
  BY <1>1, <1>2, FS_SurjCardinalityBound DEF ExistsSurjection
<1> QED
  BY <1>1, <1>4, <1>5 DEF NodesIn

LEMMA HeadTailNodes ==
  ASSUME NEW S, NEW s \in Seq(S), s # <<>>
  PROVE  /\ Head(s) \in S
         /\ Tail(s) \in Seq(S)
         /\ NodesIn(s) = {Head(s)} \cup NodesIn(Tail(s))
<1>1. /\ Head(s) \in S
      /\ Tail(s) \in Seq(S)
      /\ Len(Tail(s)) = Len(s) - 1
      /\ \A i \in 1..Len(Tail(s)) : Tail(s)[i] = s[i + 1]
  BY HeadTailProperties
<1>2. Len(s) \in Nat \ {0} /\ DOMAIN s = 1..Len(s) /\ Head(s) = s[1]
  BY LenProperties, EmptySeq
<1>3. DOMAIN Tail(s) = 1..(Len(s) - 1)
  BY <1>1, LenProperties
<1>4. NodesIn(Tail(s)) = {s[i + 1] : i \in 1..(Len(s) - 1)}
  BY <1>1, <1>3 DEF NodesIn
<1>5. ASSUME NEW i \in 1..Len(s) PROVE s[i] \in {s[1]} \cup NodesIn(Tail(s))
  <2>1. CASE i = 1
    BY <2>1
  <2>2. CASE i # 1
    <3>1. i - 1 \in 1..(Len(s) - 1) /\ (i - 1) + 1 = i
      BY <1>2, <2>2
    <3> QED
      BY <3>1, <1>4
  <2> QED
    BY <2>1, <2>2
<1>6. ASSUME NEW x \in NodesIn(Tail(s)) PROVE x \in NodesIn(s)
  <2>1. PICK i \in 1..(Len(s) - 1) : x = s[i + 1]
    BY <1>4
  <2>2. i + 1 \in DOMAIN s
    BY <1>2
  <2> QED
    BY <2>1, <2>2 DEF NodesIn
<1>7. Head(s) \in NodesIn(s)
  BY <1>2 DEF NodesIn
<1> QED
  BY <1>1, <1>2, <1>5, <1>6, <1>7 DEF NodesIn

LEMMA EmptyNodes == NodesIn(<<>>) = {}
BY DEF NodesIn

-----------------------------------------------------------------------------
(* Replacing a live attempt a by others, K, that stand for subtrees of a's. *)

LEMMA ReplaceLive ==
  ASSUME NEW L \in SUBSET Job, NEW C \in SUBSET Job, NEW a \in L, NEW K \in SUBSET Job,
         Apart(L), Newest(L, C), Apart(K),
         \A k \in K : /\ Below[k.node] \subseteq Below[a.node]
                      /\ a.node \in Below[k.node] => k.node = a.node /\ a.retry < k.retry
  PROVE  Apart((L \ {a}) \cup K) /\ Newest((L \ {a}) \cup K, C \cup {a})
<1>1. \A j \in Job : j.node \in Below[j.node]
  BY TreeAssumption, JobFacts DEF TreeShape
<1>2. Apart((L \ {a}) \cup K)
  BY DEF Apart
<1>3. ASSUME NEW j \in (L \ {a}) \cup K, NEW c \in C \cup {a}, c.node \in Below[j.node]
      PROVE  c.node = j.node /\ c.retry < j.retry
  <2>1. CASE j \in K /\ c = a
    BY <1>3, <2>1
  <2>2. CASE j \in K /\ c \in C
    <3>1. c.node = a.node /\ c.retry < a.retry
      BY <1>3, <2>2 DEF Newest
    <3>2. j.node = a.node /\ a.retry < j.retry
      BY <1>3, <2>2, <3>1
    <3>3. c.retry \in Nat /\ a.retry \in Nat /\ j.retry \in Nat
      BY JobFacts, SolveAssumption, <2>2
    <3> QED
      BY <3>1, <3>2, <3>3
  <2>3. CASE j \in L \ {a} /\ c = a
    <3>1. Below[a.node] \cap Below[j.node] = {}
      BY <2>3 DEF Apart
    <3> QED
      BY <1>1, <1>3, <2>3, <3>1
  <2>4. CASE j \in L \ {a} /\ c \in C
    BY <1>3, <2>4 DEF Newest
  <2> QED
    BY <2>1, <2>2, <2>3, <2>4
<1> QED
  BY <1>2, <1>3 DEF Newest

(* The next attempt at the same node may replace an attempt.                *)
LEMMA NextTryReplaces ==
  ASSUME NEW a \in Job, a.retry < MaxAttempts
  PROVE  LET k == NextTry(a)
         IN  /\ k \in Job /\ k.node = a.node /\ k.retry = a.retry + 1
             /\ Below[k.node] \subseteq Below[a.node]
             /\ a.node \in Below[k.node] => k.node = a.node /\ a.retry < k.retry
             /\ Apart({k})
<1> DEFINE k == NextTry(a)
<1>1. k \in Job /\ k.node = a.node /\ k.retry = a.retry + 1
  BY JobFacts DEF NextTry, Job
<1>2. a.retry \in Nat
  BY JobFacts, SolveAssumption
<1> QED
  BY <1>1, <1>2 DEF Apart

(* So may the first attempts at its two children.                           *)
LEMMA KidsReplace ==
  ASSUME NEW a \in Job, Kids[a.node] # <<>>
  PROVE  LET l == FirstTry(Kids[a.node][1])
             r == FirstTry(Kids[a.node][2])
         IN  /\ {l, r} \in SUBSET Job
             /\ \A k \in {l, r} :
                  /\ Below[k.node] \subseteq Below[a.node]
                  /\ a.node \in Below[k.node] => k.node = a.node /\ a.retry < k.retry
             /\ Apart({l, r})
             /\ Pts[a.node] = Pts[l.node] \cup Pts[r.node]
<1> DEFINE l == FirstTry(Kids[a.node][1])
           r == FirstTry(Kids[a.node][2])
<1>1. a.node \in Node /\ Kids[a.node][1] \in Node /\ Kids[a.node][2] \in Node
  BY JobFacts, KidsFacts
<1>2. l \in Job /\ r \in Job /\ l.node = Kids[a.node][1] /\ r.node = Kids[a.node][2]
  BY <1>1, JobFacts DEF FirstTry
<1>3. /\ Below[l.node] \subseteq Below[a.node] \ {a.node}
      /\ Below[r.node] \subseteq Below[a.node] \ {a.node}
      /\ Below[l.node] \cap Below[r.node] = {}
  BY <1>1, <1>2, TreeAssumption DEF TreeShape
<1>4. Pts[a.node] = Pts[l.node] \cup Pts[r.node]
  BY <1>1, <1>2, TreeAssumption DEF TreeCovers
<1> QED
  BY <1>2, <1>3, <1>4 DEF Apart
-----------------------------------------------------------------------------
(* Type correctness, one step per action.                                   *)

LEMMA PublishFailsType ==
  ASSUME TypeOK, NEW j \in Job, PublishFails(j)
  PROVE  stream' \subseteq Job
BY DEF TypeOK, PublishFails

LEMMA RecordTerminalType ==
  ASSUME TypeOK, NEW r \in Result, RecordTerminal(r)
  PROVE  /\ jobStatus' \in [Job -> JobStatus] /\ entry' \in Entry
         /\ results' \subseteq Result /\ IsFiniteSet(results')
<1>1. r.job \in Job /\ r.status \in JobStatus
  BY DEF Result, JobStatus
<1>2. IsFiniteSet(results')
  BY FS_AddElement DEF TypeOK, RecordTerminal
<1>3. jobStatus' \in [Job -> JobStatus]
  BY <1>1 DEF TypeOK, RecordTerminal
<1>4. entry' \in Entry
  <2>1. entry \in Entry /\ entry' = [entry EXCEPT !.completed = entry.completed + 1]
    BY DEF TypeOK, RecordTerminal
  <2>2. entry.completed \in Nat /\ entry.completed + 1 \in Nat
    BY <2>1 DEF Entry
  <2> QED
    BY <2>1, <2>2 DEF Entry
<1>5. results' \subseteq Result
  BY DEF TypeOK, RecordTerminal
<1> QED
  BY <1>2, <1>3, <1>4, <1>5

LEMMA TypeInit == Init => TypeOK
<1> SUFFICES ASSUME Init PROVE TypeOK
  OBVIOUS
<1>1. PICK F \in Frontiers :
        /\ unsent = [i \in DOMAIN F |-> FirstTry(F[i])]
        /\ expected = NodesIn(unsent)
        /\ count = [expected |-> Len(F), published |-> Len(F), redelegated |-> 0, split |-> 0]
        /\ entry = [status |-> "running", finished |-> FALSE, cancelRequested |-> FALSE,
                    expected |-> Len(F), published |-> 0, completed |-> 0,
                    redelegated |-> 0, split |-> 0]
  BY DEF Init
<1>2. F \in Seq(Node) /\ Len(F) \in Nat
  BY SolveAssumption, LenProperties
<1>3. unsent \in Seq(Job)
  BY <1>1, <1>2, FirstTries
<1>4. expected \subseteq Job /\ IsFiniteSet(expected)
  BY <1>1, <1>3, NodesInFinite
<1>5. count \in Counts /\ entry \in Entry
  BY <1>1, <1>2 DEF Counts, Entry, Answer
<1>6. IsFiniteSet(results)
  BY FS_EmptySet DEF Init
<1> QED
  BY <1>3, <1>4, <1>5, <1>6 DEF Init, TypeOK, Phase, JobStatus, ResultStatus, Metrics

LEMMA CounterTypes ==
  /\ \A c \in Counts : /\ OnePublished(c) \in Counts /\ OneRetry(c) \in Counts
                       /\ OneSplit(c) \in Counts /\ OneMoreToCome(c) \in Counts
  /\ \A c \in Entry : /\ OnePublished(c) \in Entry /\ OneRetry(c) \in Entry
                      /\ OneSplit(c) \in Entry /\ OneMoreToCome(c) \in Entry
  /\ \A c \in Metrics : /\ OnePublished(c) \in Metrics /\ OneRetry(c) \in Metrics
                        /\ OneSplit(c) \in Metrics
<1>1. \A c \in Counts : /\ OnePublished(c) \in Counts /\ OneRetry(c) \in Counts
                        /\ OneSplit(c) \in Counts /\ OneMoreToCome(c) \in Counts
  BY DEF Counts, OnePublished, OneRetry, OneSplit, OneMoreToCome
<1>2. \A c \in Entry : /\ OnePublished(c) \in Entry /\ OneRetry(c) \in Entry
                       /\ OneSplit(c) \in Entry /\ OneMoreToCome(c) \in Entry
  BY DEF Entry, OnePublished, OneRetry, OneSplit, OneMoreToCome
<1>3. \A c \in Metrics : /\ OnePublished(c) \in Metrics /\ OneRetry(c) \in Metrics
                         /\ OneSplit(c) \in Metrics
  BY DEF Metrics, OnePublished, OneRetry, OneSplit
<1> QED
  BY <1>1, <1>2, <1>3

(* jobs_expected moves only when a split is complete.                       *)
LEMMA CounterValues ==
  ASSUME NEW c \in Counts
  PROVE  /\ OnePublished(c).expected = c.expected
         /\ OneRetry(OnePublished(c)).expected = c.expected
         /\ OneMoreToCome(OneSplit(c)).expected = c.expected + 1
<1>1. OnePublished(c) \in Counts /\ OneSplit(c) \in Counts
  BY CounterTypes
<1>2. OnePublished(c).expected = c.expected /\ OneSplit(c).expected = c.expected
  BY DEF Counts, OnePublished, OneSplit
<1>3. \A d \in Counts : OneRetry(d).expected = d.expected
  BY DEF Counts, OneRetry
<1>4. \A d \in Counts : OneMoreToCome(d).expected = d.expected + 1
  BY DEF Counts, OneMoreToCome
<1> QED
  BY <1>1, <1>2, <1>3, <1>4

LEMMA TypeReceive ==
  ASSUME TypeOK, NEW r \in Result, Receive(r)
  PROVE  TypeOK'
<1>0. r.job \in Job
  BY DEF Result
<1>1. CASE IgnoreResult(r)
  BY <1>1 DEF IgnoreResult, TypeOK, locals, Phase
<1>2. Accept(r) => /\ completed' \subseteq Job
                   /\ metrics' \in Metrics
  BY <1>0 DEF Accept, TypeOK, Metrics
<1>3. CASE ReceiveCancelled(r)
  BY <1>2, <1>3, CancelType DEF ReceiveCancelled, TypeOK, Phase
<1>4. CASE ReceiveTerminal(r)
  BY <1>2, <1>4, RecordTerminalType DEF ReceiveTerminal, TypeOK, Phase
<1>5. CASE ReceiveSplit(r)
  <2>1. Kids[r.job.node] \in Seq(Node)
    BY <1>0, JobFacts, KidsFacts
  <2>2. unsent' \in Seq(Job)
    BY <1>5, <2>1, FirstTries DEF ReceiveSplit
  <2> QED
    BY <1>2, <1>5, <2>2 DEF ReceiveSplit, TypeOK, Phase
<1>6. CASE ReceiveFailed(r)
  BY <1>0, <1>2, <1>6 DEF ReceiveFailed, TypeOK, Phase, JobStatus
<1> QED
  BY <1>1, <1>3, <1>4, <1>5, <1>6 DEF Receive

LEMMA TypeStep ==
  ASSUME TypeOK, HandlerOK, [Next]_vars
  PROVE  TypeOK'
<1> USE DEF Phase
<1>0. unsent # <<>> => Head(unsent) \in Job /\ Tail(unsent) \in Seq(Job)
  BY HeadTailProperties DEF TypeOK
<1>1. CASE PublishFrontierJob
  BY <1>0, <1>1, CounterTypes DEF PublishFrontierJob, RegistersJob, TypeOK, JobStatus
<1>2. CASE PublishFrontierFails
  BY <1>0, <1>2, PublishFailsType DEF PublishFrontierFails, TypeOK, locals
<1>3. CASE OpenResultConsumer
  BY <1>3 DEF OpenResultConsumer, TypeOK, locals
<1>5. CASE ObserveCancel
  BY <1>5, CancelType DEF ObserveCancel, TypeOK, locals
<1>6. CASE Finish
  BY <1>6, AggregateType DEF Finish, Aggregate, TypeOK, locals
<1>7. CASE BeginWait
  BY <1>7 DEF BeginWait, TypeOK, locals
<1>8. ASSUME NEW j \in Job, RequeueStale(j) PROVE TypeOK'
  <2>1. NextTry(j) \in Job
    BY <1>8, JobFacts DEF RequeueStale
  <2>2. expected' \subseteq Job /\ IsFiniteSet(expected')
    BY <1>8, <2>1, FS_AddElement, FS_RemoveElement DEF RequeueStale, Supersede, TypeOK
  <2>3. count' \in Counts /\ entry' \in Entry /\ metrics' \in Metrics
    BY <1>8, CounterTypes DEF RequeueStale, TypeOK
  <2> QED
    BY <1>8, <2>1, <2>2, <2>3 DEF RequeueStale, Supersede, TypeOK, JobStatus
<1>9. ASSUME NEW j \in Job, RequeueStaleFails(j) PROVE TypeOK'
  <2>1. NextTry(j) \in Job
    BY <1>9, JobFacts DEF RequeueStaleFails
  <2> QED
    BY <1>9, <2>1, PublishFailsType DEF RequeueStaleFails, TypeOK, locals
<1>10. CASE TimeOut
  BY <1>10, AggregateType DEF TimeOut, Aggregate, TypeOK, locals
<1>11. CASE Poll
  BY <1>11 DEF Poll, TypeOK, locals
<1>12. ASSUME NEW j \in stream, NEW r \in TruthfulAnswers(j), Receive(r) PROVE TypeOK'
  BY <1>12, AnswerType, TypeReceive DEF TypeOK
<1>13. CASE PublishChild
  <2>1. expected' \subseteq Job /\ IsFiniteSet(expected')
    BY <1>0, <1>13, FS_AddElement DEF PublishChild, TypeOK
  <2>2. count' \in Counts /\ entry' \in Entry /\ metrics' \in Metrics
    BY <1>13, CounterTypes DEF PublishChild, TypeOK
  <2> QED
    BY <1>0, <1>13, <2>1, <2>2 DEF PublishChild, RegistersJob, TypeOK, JobStatus
<1>14. CASE PublishChildFails
  <2>1. [current EXCEPT !.status = "error"] \in Result
    BY <1>14 DEF PublishChildFails, HandlerOK, Result, ResultStatus
  <2>2. stream' \subseteq Job
    BY <1>0, <1>14, PublishFailsType DEF PublishChildFails
  <2> QED
    BY <1>14, <2>1, <2>2, RecordTerminalType DEF PublishChildFails, NextTurn, TypeOK
<1>15. CASE CompleteSplit
  <2>1. count' \in Counts /\ entry' \in Entry /\ metrics' \in Metrics
    BY <1>15, CounterTypes DEF CompleteSplit, TypeOK
  <2> QED
    BY <1>15, <2>1 DEF CompleteSplit, NextTurn, TypeOK, JobStatus, ResultStatus
<1>16. CASE Redelegate
  <2>1. NextTry(current.job) \in Job
    BY <1>16, JobFacts, SolveAssumption
       DEF Redelegate, HandlerOK, ShouldRedelegate, Result
  <2>2. expected' \subseteq Job /\ IsFiniteSet(expected')
    BY <1>16, <2>1, FS_AddElement DEF Redelegate, TypeOK
  <2>3. count' \in Counts /\ entry' \in Entry /\ metrics' \in Metrics
    BY <1>16, CounterTypes DEF Redelegate, TypeOK
  <2> QED
    BY <1>16, <2>1, <2>2, <2>3 DEF Redelegate, RegistersJob, NextTurn, TypeOK, JobStatus
<1>17. CASE RedelegateFails
  <2>1. current \in Result
    BY <1>17 DEF RedelegateFails, HandlerOK
  <2>2. NextTry(current.job) \in Job
    BY <1>17, JobFacts, SolveAssumption
       DEF RedelegateFails, HandlerOK, ShouldRedelegate, Result
  <2> QED
    BY <1>17, <2>1, <2>2, PublishFailsType, RecordTerminalType
       DEF RedelegateFails, NextTurn, TypeOK
<1>18. ASSUME NEW j \in Job, WorkerProgress(j) PROVE TypeOK'
  BY <1>18 DEF WorkerProgress, TypeOK, locals, JobStatus
<1>19. CASE RequestCancel \/ CancelFrame
  BY <1>19 DEF RequestCancel, CancelFrame, MarkCancelling, TypeOK, locals, Entry
<1>20. CASE RecordCancel
  BY <1>20 DEF RecordCancel, TypeOK, locals
<1>21. CASE UNCHANGED vars
  BY <1>21 DEF vars, TypeOK
<1> QED
  BY <1>1, <1>2, <1>3, <1>5, <1>6, <1>7, <1>8, <1>9, <1>10, <1>11, <1>12, <1>13,
     <1>14, <1>15, <1>16, <1>17, <1>18, <1>19, <1>20, <1>21 DEF Next, MasterStep
-----------------------------------------------------------------------------
(* The part of the invariant about the live attempts L, the answered ones   *)
(* C, the results R and the number n of results L and R may add up to.      *)

CoreOK(L, C, R, n) ==
  /\ Apart(L)
  /\ Newest(L, C)
  /\ Covered(L, R)
  /\ (\A r \in R : r.status # "error") => Cardinality(R) + Cardinality(L) <= n

Room == count.expected + (IF pc = "split" THEN 1 ELSE 0)

CoreInv == Running => CoreOK(Live, Spent, results, Room)

LEMMA SpentType == TypeOK => Spent \in SUBSET Job
BY DEF TypeOK, Spent

LEMMA CoreParts ==
  CoreInv <=> NoPointLost /\ NoDoubleWork /\ LiveIsNewest /\ NeverStopsEarly
BY DEF CoreInv, CoreOK, Room, NoPointLost, NoDoubleWork, LiveIsNewest, NeverStopsEarly

LEMMA LiveType ==
  ASSUME TypeOK, HandlerOK
  PROVE  Live \subseteq Job /\ IsFiniteSet(Live)
<1>1. Outstanding \subseteq Job /\ IsFiniteSet(Outstanding)
  BY FS_Subset DEF TypeOK, Outstanding
<1>2. NodesIn(unsent) \subseteq Job /\ IsFiniteSet(NodesIn(unsent))
  BY NodesInFinite DEF TypeOK
<1>3. pc = "redelegate" => NextTry(current.job) \in Job
  BY JobFacts, SolveAssumption DEF HandlerOK, ShouldRedelegate, Result
<1> DEFINE A == IF pc = "split" THEN NodesIn(unsent) ELSE {}
           B == IF pc = "redelegate" THEN {NextTry(current.job)} ELSE {}
<1>4. A \subseteq Job /\ IsFiniteSet(A) /\ B \subseteq Job /\ IsFiniteSet(B)
  BY <1>2, <1>3, FS_EmptySet, FS_Singleton
<1>5. IsFiniteSet(Outstanding \cup A)
  BY <1>1, <1>4, FS_Union
<1>6. IsFiniteSet((Outstanding \cup A) \cup B)
  BY <1>4, <1>5, FS_Union
<1>7. Live = (Outstanding \cup A) \cup B
  BY DEF Live
<1> QED
  BY <1>1, <1>4, <1>6, <1>7

(* The points of live and answered nodes.                                   *)
LEMMA PtsOfUnion ==
  /\ \A M, N : PtsOf(M \cup N) = PtsOf(M) \cup PtsOf(N)
  /\ \A n : PtsOf({n}) = Pts[n]
  /\ PtsOf({}) = {}
  /\ \A J, K : NodesOf(J \cup K) = NodesOf(J) \cup NodesOf(K)
  /\ \A j : NodesOf({j}) = {j.node}
BY DEF PtsOf, NodesOf

LEMMA PtsOfLive ==
  ASSUME NEW L, NEW a \in L
  PROVE  PtsOf(NodesOf(L)) = PtsOf(NodesOf(L \ {a})) \cup Pts[a.node]
BY DEF PtsOf, NodesOf

LEMMA PtsOfResults ==
  ASSUME NEW R, NEW r
  PROVE  PtsOf({s.job.node : s \in R \cup {r}})
           = PtsOf({s.job.node : s \in R}) \cup Pts[r.job.node]
BY DEF PtsOf

(* A live attempt is answered by a result that stays in hand.               *)
LEMMA CoreAnswer ==
  ASSUME NEW L \in SUBSET Job, NEW C \in SUBSET Job, NEW R \in SUBSET Result, NEW n \in Nat,
         IsFiniteSet(L), IsFiniteSet(R), CoreOK(L, C, R, n),
         NEW r \in Result, r.job \in L
  PROVE  CoreOK(L \ {r.job}, C \cup {r.job}, R \cup {r}, n)
<1> DEFINE a == r.job
<1>1. Apart(L \ {a}) /\ Newest(L \ {a}, C \cup {a})
  <2>1. Apart({})
    BY DEF Apart
  <2>2. Apart((L \ {a}) \cup {}) /\ Newest((L \ {a}) \cup {}, C \cup {a})
    BY <2>1, ReplaceLive DEF CoreOK
  <2> QED
    BY <2>2
<1>2. Covered(L \ {a}, R \cup {r})
  <2>2. PtsOf(NodesOf(L)) = PtsOf(NodesOf(L \ {a})) \cup Pts[a.node]
    BY PtsOfLive
  <2>4. PtsOf({s.job.node : s \in R \cup {r}}) = PtsOf({s.job.node : s \in R}) \cup Pts[a.node]
    BY PtsOfResults
  <2> QED
    BY <2>2, <2>4 DEF CoreOK, Covered
<1>3. ASSUME \A s \in R \cup {r} : s.status # "error"
      PROVE  Cardinality(R \cup {r}) + Cardinality(L \ {a}) <= n
  <2>1. Cardinality(R) + Cardinality(L) <= n
    BY <1>3 DEF CoreOK
  <2>2. Cardinality(L \ {a}) = Cardinality(L) - 1
    <3>1. Cardinality(L \ {a}) = IF a \in L THEN Cardinality(L) - 1 ELSE Cardinality(L)
      BY Zenon, FS_RemoveElement
    <3> QED
      BY <3>1
  <2>3. Cardinality(R \cup {r}) \in {Cardinality(R), Cardinality(R) + 1}
    BY FS_AddElement
  <2>4. Cardinality(R \cup {r}) \in Nat /\ Cardinality(L) \in Nat /\ Cardinality(R) \in Nat
    BY FS_AddElement, FS_CardinalityType
  <2> QED
    BY <2>1, <2>2, <2>3, <2>4
<1> QED
  BY <1>1, <1>2, <1>3 DEF CoreOK

(* A live attempt gives way to at most m others that cover its points.      *)
LEMMA CoreReplace ==
  ASSUME NEW L \in SUBSET Job, NEW C \in SUBSET Job, NEW R \in SUBSET Result, NEW n \in Nat,
         IsFiniteSet(L), IsFiniteSet(R), CoreOK(L, C, R, n),
         NEW a \in L, NEW K \in SUBSET Job, NEW m \in Nat,
         IsFiniteSet(K), Cardinality(K) <= m, Apart(K),
         \A k \in K : /\ Below[k.node] \subseteq Below[a.node]
                      /\ a.node \in Below[k.node] => k.node = a.node /\ a.retry < k.retry,
         PtsOf(NodesOf(K)) = Pts[a.node]
  PROVE  CoreOK((L \ {a}) \cup K, C \cup {a}, R, n + m - 1)
<1>1. Apart((L \ {a}) \cup K) /\ Newest((L \ {a}) \cup K, C \cup {a})
  BY ReplaceLive DEF CoreOK
<1>2. Covered((L \ {a}) \cup K, R)
  <2>2. PtsOf(NodesOf(L)) = PtsOf(NodesOf(L \ {a})) \cup Pts[a.node]
    BY PtsOfLive
  <2>3. PtsOf(NodesOf((L \ {a}) \cup K)) = PtsOf(NodesOf(L \ {a})) \cup PtsOf(NodesOf(K))
    BY PtsOfUnion
  <2> QED
    BY <2>2, <2>3 DEF CoreOK, Covered
<1>3. ASSUME \A s \in R : s.status # "error"
      PROVE  Cardinality(R) + Cardinality((L \ {a}) \cup K) <= n + m - 1
  <2>1. Cardinality(R) + Cardinality(L) <= n
    BY <1>3 DEF CoreOK
  <2>2. IsFiniteSet(L \ {a}) /\ Cardinality(L \ {a}) = Cardinality(L) - 1
    BY FS_RemoveElement
  <2>3. /\ Cardinality((L \ {a}) \cup K)
             = Cardinality(L \ {a}) + Cardinality(K) - Cardinality((L \ {a}) \cap K)
        /\ IsFiniteSet((L \ {a}) \cup K)
        /\ IsFiniteSet((L \ {a}) \cap K)
    BY <2>2, FS_Union, FS_Intersection
  <2>4. /\ Cardinality(R) \in Nat /\ Cardinality(L) \in Nat /\ Cardinality(K) \in Nat
        /\ Cardinality((L \ {a}) \cap K) \in Nat
    BY <2>3, FS_CardinalityType
  <2> QED
    BY <2>1, <2>2, <2>3, <2>4
<1> QED
  BY <1>1, <1>2, <1>3 DEF CoreOK

(* Live attempts below a node are given up for an error result of the node. *)
LEMMA CoreGiveUp ==
  ASSUME NEW L \in SUBSET Job, NEW C \in SUBSET Job, NEW R \in SUBSET Result, NEW n,
         CoreOK(L, C, R, n),
         NEW M \in SUBSET L, NEW r \in Result, r.status = "error",
         PtsOf(NodesOf(L \ M)) \subseteq Pts[r.job.node],
         Pts[r.job.node] \subseteq Pts[Root], NEW k
  PROVE  CoreOK(M, C, R \cup {r}, k)
<1>1. Apart(M) /\ Newest(M, C)
  BY DEF CoreOK, Apart, Newest
<1>2. Covered(M, R \cup {r})
  <2>1. L = M \cup (L \ M)
    OBVIOUS
  <2>2. PtsOf(NodesOf(L)) = PtsOf(NodesOf(M)) \cup PtsOf(NodesOf(L \ M))
    BY <2>1, PtsOfUnion
  <2>4. PtsOf({s.job.node : s \in R \cup {r}}) = PtsOf({s.job.node : s \in R}) \cup Pts[r.job.node]
    BY PtsOfResults
  <2> QED
    BY <2>2, <2>4 DEF CoreOK, Covered
<1> QED
  BY <1>1, <1>2 DEF CoreOK
-----------------------------------------------------------------------------
(* Each action keeps CoreInv.  First the actions that leave what is live,   *)
(* answered and in hand as it was.                                          *)

LEMMA CoreStutter ==
  ASSUME CoreInv, Running' => Running /\ Room' = Room,
         Running' => Live' = Live, Spent' = Spent, results' = results
  PROVE  CoreInv'
BY DEF CoreInv

LEMMA CoreEnds ==
  ASSUME pc' \in {"done", "failed"}
  PROVE  CoreInv'
BY DEF CoreInv, Running

LEMMA CorePhase ==
  ASSUME CoreInv, UNCHANGED locals,
         pc \in {"publish", "check", "wait"}, pc' \in {"publish", "check", "wait"}
  PROVE  CoreInv'
<1>1. Running' /\ Running /\ Room' = Room /\ Live' = Live
  BY DEF Running, Room, Live, Outstanding, locals
<1> QED
  BY <1>1, CoreStutter DEF locals, Spent

LEMMA CoreIdle ==
  ASSUME CoreInv, UNCHANGED locals, pc' = pc
  PROVE  CoreInv'
<1>1. Running' = Running /\ Room' = Room /\ Live' = Live
  BY DEF Running, Room, Live, Outstanding, locals
<1> QED
  BY <1>1, CoreStutter DEF locals, Spent

LEMMA CorePublishFrontierJob ==
  ASSUME CoreInv, PublishFrontierJob
  PROVE  CoreInv'
<1>1. Running' = Running /\ Room' = Room /\ Live' = Live
  BY DEF PublishFrontierJob, Running, Room, Live, Outstanding
<1> QED
  BY <1>1, CoreStutter DEF PublishFrontierJob, Spent

(* Nothing live is spent, nor is the next attempt after a live one.         *)
LEMMA LiveIsFresh ==
  ASSUME CoreInv, Running, NEW j \in Live, j \in Job
  PROVE  /\ j \notin Spent
         /\ j.retry < MaxAttempts => NextTry(j) \notin Spent
<1>1. \A c \in Spent : c.node \in Below[j.node] => c.retry < j.retry
  BY DEF CoreInv, CoreOK, Newest
<1>2. j.node \in Below[j.node] /\ j.retry \in Nat
  BY JobFacts, SolveAssumption, TreeAssumption DEF TreeShape
<1>3. j \notin Spent
  BY <1>1, <1>2
<1>4. ASSUME j.retry < MaxAttempts PROVE NextTry(j) \notin Spent
  <2>1. NextTry(j).node = j.node /\ NextTry(j).retry = j.retry + 1
    BY <1>4, NextTryReplaces
  <2> QED
    BY <1>1, <1>2, <2>1
<1> QED
  BY <1>3, <1>4

(* A child is live before and after it enters the expected set: an answered *)
(* attempt at it would be older than the live one.                          *)
LEMMA PublishChildLive ==
  ASSUME TypeOK, HandlerOK, CoreInv, PublishChild
  PROVE  Running /\ Running' /\ Room' = Room /\ Live' = Live
<1> DEFINE h == Head(unsent)
<1>1. h \in Job /\ NodesIn(unsent) = {h} \cup NodesIn(unsent')
  BY HeadTailNodes DEF PublishChild, TypeOK
<1>2. Running /\ Running' /\ Room' = Room
  <2>1. count'.expected = count.expected
    BY CounterValues DEF PublishChild, TypeOK
  <2> QED
    BY <2>1 DEF PublishChild, Running, Room
<1>3. h \in Live
  BY <1>1 DEF Live, PublishChild
<1>4. h \notin completed
  BY <1>1, <1>2, <1>3, LiveIsFresh DEF Spent
<1>5. Live' = Live
  BY <1>1, <1>4 DEF PublishChild, Live, Outstanding
<1> QED
  BY <1>2, <1>5

LEMMA CorePublishChild ==
  ASSUME TypeOK, HandlerOK, CoreInv, PublishChild
  PROVE  CoreInv'
BY PublishChildLive, CoreStutter DEF PublishChild, Spent

LEMMA CompleteSplitLive ==
  ASSUME TypeOK, CompleteSplit
  PROVE  Running /\ Running' /\ Room' = Room /\ Live' = Live
<1>1. count'.expected = count.expected + 1 /\ count.expected \in Nat
  BY CounterValues DEF CompleteSplit, TypeOK, Counts
<1>2. Running /\ Running' /\ Room' = Room
  BY <1>1 DEF CompleteSplit, NextTurn, Running, Room
<1>3. Live' = Live
  BY EmptyNodes DEF CompleteSplit, NextTurn, Live, Outstanding
<1> QED
  BY <1>2, <1>3

LEMMA CoreCompleteSplit ==
  ASSUME TypeOK, CoreInv, CompleteSplit
  PROVE  CoreInv'
BY CompleteSplitLive, CoreStutter DEF CompleteSplit, Spent

LEMMA RedelegateLive ==
  ASSUME TypeOK, HandlerOK, CoreInv, Redelegate
  PROVE  Running /\ Running' /\ Room' = Room /\ Live' = Live
<1> DEFINE k == NextTry(current.job)
<1>1. k \in Job
  BY JobFacts, SolveAssumption DEF Redelegate, HandlerOK, ShouldRedelegate, Result
<1>2. Running /\ Running' /\ Room' = Room
  <2>1. count'.expected = count.expected
    BY CounterValues DEF Redelegate, TypeOK
  <2> QED
    BY <2>1 DEF Redelegate, NextTurn, Running, Room
<1>3. k \in Live
  BY DEF Live, Redelegate
<1>4. k \notin completed
  BY <1>1, <1>2, <1>3, LiveIsFresh DEF Spent
<1>5. Live' = Live
  BY <1>4 DEF Redelegate, NextTurn, Live, Outstanding
<1> QED
  BY <1>2, <1>5

LEMMA CoreRedelegate ==
  ASSUME TypeOK, HandlerOK, CoreInv, Redelegate
  PROVE  CoreInv'
BY RedelegateLive, CoreStutter DEF Redelegate, Spent

-----------------------------------------------------------------------------
(* Then the actions that replace a live attempt or give some up.            *)

LEMMA CoreRequeueStale ==
  ASSUME TypeOK, HandlerOK, CoreInv, NEW j \in Job, RequeueStale(j)
  PROVE  CoreInv'
<1> DEFINE k == NextTry(j)
<1>1. /\ k \in Job /\ k.node = j.node /\ k.retry = j.retry + 1 /\ Apart({k})
      /\ \A i \in {k} : /\ Below[i.node] \subseteq Below[j.node]
                        /\ j.node \in Below[i.node] => i.node = j.node /\ j.retry < i.retry
  BY NextTryReplaces DEF RequeueStale
<1>2. Running /\ Running' /\ Room' = count.expected /\ Room = count.expected
  <2>1. count'.expected = count.expected /\ count.expected \in Nat
    BY CounterValues DEF RequeueStale, TypeOK, Counts
  <2>2. pc = "wait" /\ pc' = "wait"
    BY DEF RequeueStale
  <2> QED
    BY <2>1, <2>2 DEF Running, Room
<1>3. j \in Live /\ Live = Outstanding
  BY DEF RequeueStale, Live
<1>4. k \notin completed
  BY <1>2, <1>3, LiveIsFresh DEF RequeueStale, Spent
<1>5. Live' = (Live \ {j}) \cup {k}
  BY <1>3, <1>4 DEF RequeueStale, Supersede, Live, Outstanding
<1>6. IsFiniteSet(Live) /\ Live \subseteq Job /\ count.expected \in Nat
  BY LiveType DEF TypeOK, Counts
<1>7. IsFiniteSet({k}) /\ Cardinality({k}) <= 1 /\ PtsOf(NodesOf({k})) = Pts[j.node]
  <2>1. NodesOf({k}) = {j.node}
    BY <1>1 DEF NodesOf
  <2>2. PtsOf(NodesOf({k})) = Pts[j.node]
    BY <2>1, PtsOfUnion
  <2>3. \A x : IsFiniteSet({x}) /\ Cardinality({x}) = 1
    BY FS_Singleton
  <2>4. Cardinality({k}) = 1 /\ IsFiniteSet({k})
    BY <2>3
  <2> QED
    BY <2>2, <2>4
<1>8. CoreOK(Live, Spent, results, count.expected)
  BY <1>2 DEF CoreInv
<1>9. CoreOK((Live \ {j}) \cup {k}, Spent \cup {j}, results, count.expected + 1 - 1)
  <2> HIDE DEF k
  <2> QED
    BY SpentType, <1>1, <1>3, <1>6, <1>7, <1>8, CoreReplace DEF TypeOK
<1>10. count.expected + 1 - 1 = count.expected
  BY <1>6
<1>11. Spent' = Spent \cup {j} /\ results' = results
  BY DEF RequeueStale, Supersede, Spent
<1> QED
  BY <1>2, <1>5, <1>9, <1>10, <1>11 DEF CoreInv

LEMMA CoreReceiveTerminal ==
  ASSUME TypeOK, HandlerOK, CoreInv, NEW r \in Result, ReceiveTerminal(r)
  PROVE  CoreInv'
<1>1. /\ Running /\ Running' /\ Room' = count.expected /\ Room = count.expected
      /\ count.expected \in Nat
  BY DEF ReceiveTerminal, Accept, Running, Room, TypeOK, Counts
<1>2. r.job \in Live /\ Live' = Live \ {r.job}
  BY DEF ReceiveTerminal, Accept, Accepted, Live, Outstanding
<1>3. CoreOK(Live, Spent, results, count.expected)
  BY <1>1 DEF CoreInv
<1>4. CoreOK(Live \ {r.job}, Spent \cup {r.job}, results \cup {r}, count.expected)
  BY SpentType, <1>1, <1>2, <1>3, LiveType, CoreAnswer DEF TypeOK
<1> QED
  BY <1>1, <1>2, <1>4 DEF CoreInv, ReceiveTerminal, Accept, RecordTerminal, Spent
LEMMA CoreReceiveFailed ==
  ASSUME TypeOK, HandlerOK, CoreInv, NEW r \in Result, ReceiveFailed(r)
  PROVE  CoreInv'
<1> DEFINE a == r.job
           k == NextTry(a)
<1>1. a \in Job /\ a.retry < MaxAttempts
  BY JobFacts, SolveAssumption DEF ReceiveFailed, ShouldRedelegate, Result
<1>2. /\ k \in Job /\ k.node = a.node /\ k.retry = a.retry + 1 /\ Apart({k})
      /\ \A i \in {k} : /\ Below[i.node] \subseteq Below[a.node]
                        /\ a.node \in Below[i.node] => i.node = a.node /\ a.retry < i.retry
  BY <1>1, NextTryReplaces
<1>3. /\ Running /\ Running' /\ Room' = count.expected /\ Room = count.expected
      /\ count.expected \in Nat
  BY DEF ReceiveFailed, Accept, Running, Room, TypeOK, Counts
<1>4. a \in Live
  BY DEF ReceiveFailed, Accept, Accepted, Live, Outstanding
<1>5. Live' = (Live \ {a}) \cup {k}
  BY DEF ReceiveFailed, Accept, Live, Outstanding
<1>6. IsFiniteSet(Live) /\ Live \subseteq Job
  BY LiveType
<1>7. IsFiniteSet({k}) /\ Cardinality({k}) <= 1 /\ PtsOf(NodesOf({k})) = Pts[a.node]
  <2>1. NodesOf({k}) = {a.node}
    BY <1>2 DEF NodesOf
  <2>2. PtsOf(NodesOf({k})) = Pts[a.node]
    BY <2>1, PtsOfUnion
  <2>3. \A x : IsFiniteSet({x}) /\ Cardinality({x}) = 1
    BY FS_Singleton
  <2>4. Cardinality({k}) = 1 /\ IsFiniteSet({k})
    BY <2>3
  <2> QED
    BY <2>2, <2>4
<1>8. CoreOK(Live, Spent, results, count.expected)
  BY <1>3 DEF CoreInv
<1>9. CoreOK((Live \ {a}) \cup {k}, Spent \cup {a}, results, count.expected + 1 - 1)
  <2> HIDE DEF a, k
  <2> QED
    BY SpentType, <1>2, <1>3, <1>4, <1>6, <1>7, <1>8, CoreReplace DEF TypeOK
<1>10. count.expected + 1 - 1 = count.expected
  BY <1>3
<1> QED
  BY <1>3, <1>5, <1>9, <1>10 DEF CoreInv, ReceiveFailed, Accept, Spent

(* The elements of a two-element sequence.                                  *)
LEMMA TryKids ==
  ASSUME NEW n \in Node, Kids[n] # <<>>
  PROVE  LET s == [i \in DOMAIN Kids[n] |-> FirstTry(Kids[n][i])]
         IN  NodesIn(s) = {FirstTry(Kids[n][1]), FirstTry(Kids[n][2])}
<1>1. DOMAIN Kids[n] = {1, 2}
  BY KidsFacts
<1> QED
  BY <1>1 DEF NodesIn

(* The two children of a node share out its points.                         *)
LEMMA KidsPoints ==
  ASSUME NEW a \in Job, Kids[a.node] # <<>>
  PROVE  PtsOf(NodesOf({FirstTry(Kids[a.node][1]), FirstTry(Kids[a.node][2])})) = Pts[a.node]
<1> DEFINE l == FirstTry(Kids[a.node][1])
           r == FirstTry(Kids[a.node][2])
<1>1. Pts[a.node] = Pts[l.node] \cup Pts[r.node]
  BY KidsReplace
<1> HIDE DEF l, r
<1>2. NodesOf({l, r}) = {l.node, r.node}
  BY DEF NodesOf
<1>3. PtsOf({l.node, r.node}) = Pts[l.node] \cup Pts[r.node]
  BY DEF PtsOf
<1> QED
  BY <1>1, <1>2, <1>3 DEF l, r

LEMMA CoreReceiveSplit ==
  ASSUME TypeOK, HandlerOK, CoreInv, NEW r \in Result, Truthful(r), ReceiveSplit(r)
  PROVE  CoreInv'
<1> DEFINE a == r.job
           K == {FirstTry(Kids[a.node][1]), FirstTry(Kids[a.node][2])}
<1>1. a \in Job /\ Kids[a.node] # <<>>
  BY DEF ReceiveSplit, Truthful, Result
<1>2. /\ K \in SUBSET Job
      /\ \A k \in K : /\ Below[k.node] \subseteq Below[a.node]
                      /\ a.node \in Below[k.node] => k.node = a.node /\ a.retry < k.retry
      /\ Apart(K)
  BY <1>1, KidsReplace
<1>3. PtsOf(NodesOf(K)) = Pts[a.node]
  BY <1>1, KidsPoints
<1>4. IsFiniteSet(K) /\ Cardinality(K) <= 2
  <2>1. \A x, y : IsFiniteSet({x, y}) /\ Cardinality({x, y}) \in {1, 2}
    <3> SUFFICES ASSUME NEW x, NEW y
                 PROVE  IsFiniteSet({x, y}) /\ Cardinality({x, y}) \in {1, 2}
      OBVIOUS
    <3>1. IsFiniteSet({x}) /\ Cardinality({x}) = 1
      BY FS_Singleton
    <3>2. {x, y} = {x} \cup {y}
      OBVIOUS
    <3> QED
      BY <3>1, <3>2, FS_AddElement
  <2>2. Cardinality(K) \in {1, 2} /\ IsFiniteSet(K)
    BY <2>1
  <2> QED
    BY <2>2
<1>5. /\ Running /\ Running' /\ Room' = count.expected + 1 /\ Room = count.expected
      /\ count.expected \in Nat
  BY DEF ReceiveSplit, Accept, Running, Room, TypeOK, Counts
<1>6. a \in Live
  BY DEF ReceiveSplit, Accept, Accepted, Live, Outstanding
<1>7. Live' = (Live \ {a}) \cup K
  <2>1. NodesIn(unsent') = K
    BY <1>1, JobFacts, TryKids DEF ReceiveSplit
  <2>2. Live = expected \ completed
    BY DEF ReceiveSplit, Accept, Live, Outstanding
  <2>3. Live' = (expected \ (completed \cup {a})) \cup K
    BY <2>1 DEF ReceiveSplit, Accept, Live, Outstanding
  <2> QED
    BY <2>2, <2>3
<1>8. CoreOK(Live, Spent, results, count.expected)
  BY <1>5 DEF CoreInv
<1>9. CoreOK((Live \ {a}) \cup K, Spent \cup {a}, results, count.expected + 2 - 1)
  <2> HIDE DEF a, K
  <2> QED
    BY SpentType, <1>2, <1>3, <1>4, <1>5, <1>6, <1>8, LiveType, CoreReplace DEF TypeOK
<1>10. count.expected + 2 - 1 = count.expected + 1
  BY <1>5
<1> QED
  BY <1>5, <1>7, <1>9, <1>10 DEF CoreInv, ReceiveSplit, Accept, Spent

LEMMA CorePublishChildFails ==
  ASSUME TypeOK, HandlerOK, CoreInv, PublishChildFails
  PROVE  CoreInv'
<1> DEFINE r == [current EXCEPT !.status = "error"]
           a == current.job
<1>1. /\ current \in Result /\ a \in Job /\ Kids[a.node] # <<>>
      /\ Pts[a.node] \subseteq Pts[Root]
      /\ NodesIn(unsent) \subseteq {FirstTry(Kids[a.node][1]), FirstTry(Kids[a.node][2])}
  BY DEF PublishChildFails, HandlerOK, Truthful, Result
<1>2. r \in Result /\ r.status = "error" /\ r.job = a
  BY <1>1 DEF Result, ResultStatus
<1>3. Live' = Outstanding /\ Live = Outstanding \cup NodesIn(unsent)
  BY DEF PublishChildFails, NextTurn, Live, Outstanding
<1>4. PtsOf(NodesOf(Live \ Outstanding)) \subseteq Pts[a.node]
  <2> DEFINE K == {FirstTry(Kids[a.node][1]), FirstTry(Kids[a.node][2])}
  <2>1. PtsOf(NodesOf(K)) = Pts[a.node]
    BY <1>1, KidsPoints
  <2>2. Live \ Outstanding \subseteq K
    BY <1>1, <1>3
  <2> HIDE DEF K, a
  <2> QED
    BY <2>1, <2>2 DEF PtsOf, NodesOf
<1>5. Running /\ results' = results \cup {r} /\ Spent' = Spent
  BY DEF PublishChildFails, RecordTerminal, Running, Spent
<1>6. CoreOK(Live, Spent, results, Room)
  BY <1>5 DEF CoreInv
<1>7. CoreOK(Outstanding, Spent, results \cup {r}, Room')
  <2> HIDE DEF a, r
  <2>1. Outstanding \in SUBSET Live
    BY <1>3
  <2>2. PtsOf(NodesOf(Live \ Outstanding)) \subseteq Pts[r.job.node]
    BY <1>2, <1>4
  <2>3. Pts[r.job.node] \subseteq Pts[Root]
    BY <1>1, <1>2
  <2> QED
    BY SpentType, <1>2, <1>6, <2>1, <2>2, <2>3, LiveType, CoreGiveUp DEF TypeOK
<1> QED
  BY <1>3, <1>5, <1>7 DEF CoreInv

LEMMA CoreRedelegateFails ==
  ASSUME TypeOK, HandlerOK, CoreInv, RedelegateFails
  PROVE  CoreInv'
<1> DEFINE a == current.job
<1>1. /\ current \in Result /\ current.status = "error" /\ a \in Job
      /\ Pts[a.node] \subseteq Pts[Root]
  BY DEF RedelegateFails, HandlerOK, ShouldRedelegate, Result
<1>2. Live' = Outstanding /\ Live = Outstanding \cup {NextTry(a)}
  BY DEF RedelegateFails, NextTurn, Live, Outstanding
<1>3. PtsOf(NodesOf(Live \ Outstanding)) \subseteq Pts[a.node]
  <2>1. \A k \in Live \ Outstanding : k.node = a.node
    BY <1>1, <1>2 DEF NextTry, Job
  <2> QED
    BY <2>1 DEF PtsOf, NodesOf
<1>4. Running /\ results' = results \cup {current} /\ Spent' = Spent
  BY DEF RedelegateFails, RecordTerminal, Running, Spent
<1>5. CoreOK(Live, Spent, results, Room)
  BY <1>4 DEF CoreInv
<1>6. CoreOK(Outstanding, Spent, results \cup {current}, Room')
  <2>1. Outstanding \in SUBSET Live
    BY <1>2
  <2> QED
    BY SpentType, <1>1, <1>3, <1>5, <2>1, LiveType, CoreGiveUp DEF TypeOK
<1> QED
  BY <1>2, <1>4, <1>6 DEF CoreInv
-----------------------------------------------------------------------------
(* The handler of an accepted result.                                       *)

LEMMA LivePoints ==
  ASSUME NEW L, NEW R, Covered(L, R), NEW j \in L
  PROVE  Pts[j.node] \subseteq Pts[Root]
BY DEF Covered, PtsOf, NodesOf

LEMMA HandlerReceive ==
  ASSUME TypeOK, CoreInv, NEW r \in Result, Truthful(r), ReceiveSplit(r) \/ ReceiveFailed(r)
  PROVE  HandlerOK'
<1>1. Running /\ r.job \in Live /\ r.job \in Job
  BY DEF ReceiveSplit, ReceiveFailed, Accept, Accepted, Running, Live, Outstanding, Result
<1>2. Pts[r.job.node] \subseteq Pts[Root]
  BY <1>1, LivePoints DEF CoreInv, CoreOK
<1>3. CASE ReceiveSplit(r)
  <2>1. Kids[r.job.node] # <<>>
    BY <1>3 DEF ReceiveSplit, Truthful
  <2>2. NodesIn(unsent') = {FirstTry(Kids[r.job.node][1]), FirstTry(Kids[r.job.node][2])}
    BY <1>1, <1>3, <2>1, JobFacts, TryKids DEF ReceiveSplit
  <2>3. current' = r /\ pc' = "split" /\ r.status = "split"
    BY <1>3 DEF ReceiveSplit
  <2> QED
    BY <1>2, <2>2, <2>3 DEF HandlerOK, Truthful
<1>4. CASE ReceiveFailed(r)
  <2>1. current' = r /\ pc' = "redelegate" /\ ShouldRedelegate(r)
    BY <1>4 DEF ReceiveFailed
  <2> QED
    BY <1>2, <2>1 DEF HandlerOK, Truthful, ShouldRedelegate
<1> QED
  BY <1>3, <1>4

LEMMA HandlerKept ==
  ASSUME TypeOK, HandlerOK,
         \/ pc' \notin {"split", "redelegate"}
         \/ UNCHANGED <<pc, locals>>
         \/ PublishChild
  PROVE  HandlerOK'
<1>1. CASE pc' \notin {"split", "redelegate"}
  BY <1>1 DEF HandlerOK
<1>2. CASE UNCHANGED <<pc, locals>>
  BY <1>2 DEF HandlerOK, locals, Truthful, ShouldRedelegate
<1>3. CASE PublishChild
  <2>1. NodesIn(unsent') \subseteq NodesIn(unsent)
    BY <1>3, HeadTailNodes DEF PublishChild, TypeOK
  <2>2. pc = "split" /\ pc' = "split" /\ current' = current
    BY <1>3 DEF PublishChild
  <2> QED
    BY <2>1, <2>2 DEF HandlerOK, Truthful
<1> QED
  BY <1>1, <1>2, <1>3

-----------------------------------------------------------------------------
(* The results in hand are true of their subtrees.                          *)

ResultTruthful(r) ==
  /\ r.status # "split"
  /\ r.status \in {"optimal", "infeasible"} => Truthful(r)
  /\ r.x \in Pts[r.job.node] \cup {NoPoint}

LEMMA TruthfulAdd ==
  ASSUME ResultsTruthful, NEW r, ResultTruthful(r), results' = results \cup {r}
  PROVE  ResultsTruthful'
BY DEF ResultsTruthful, ResultTruthful, Truthful

LEMMA TruthfulKept ==
  ASSUME ResultsTruthful, results' = results
  PROVE  ResultsTruthful'
BY DEF ResultsTruthful, Truthful

LEMMA TruthfulPublishChildFails ==
  ASSUME HandlerOK, ResultsTruthful, PublishChildFails
  PROVE  ResultsTruthful'
<1> DEFINE r == [current EXCEPT !.status = "error"]
<1>1. current \in Result /\ current.x = NoPoint
  BY DEF PublishChildFails, HandlerOK, Truthful
<1>2. r.status = "error" /\ r.x = NoPoint
  BY <1>1 DEF Result
<1>3. results' = results \cup {r}
  BY DEF PublishChildFails, RecordTerminal
<1> QED
  BY <1>2, <1>3, TruthfulAdd DEF ResultTruthful

LEMMA TruthfulRedelegateFails ==
  ASSUME HandlerOK, ResultsTruthful, RedelegateFails
  PROVE  ResultsTruthful'
<1>1. current.status = "error" /\ current.x = NoPoint
  BY DEF RedelegateFails, HandlerOK, ShouldRedelegate, Truthful
<1>2. results' = results \cup {current}
  BY DEF RedelegateFails, RecordTerminal
<1> QED
  BY <1>1, <1>2, TruthfulAdd DEF ResultTruthful

-----------------------------------------------------------------------------
(* The answer.                                                              *)

LEMMA StatusMeaning ==
  ASSUME NEW R, NEW n, NEW t
  PROVE  LET s == AggregateStatus(R, n, t)
         IN  /\ s = "optimal" => Feasible(R) # {} /\ AllTerminal(R, n, t)
             /\ s = "feasible-partial" => Feasible(R) # {}
             /\ s = "infeasible" =>
                  /\ Feasible(R) = {} /\ ~t
                  /\ \A r \in R : r.status \notin {"unbounded", "error", "iter-limit",
                                                   "numerical-error"}
BY DEF AggregateStatus

(* When no result is an error and there are enough of them, none is         *)
(* missing: the results alone cover the problem.                            *)
LEMMA NothingLive ==
  ASSUME TypeOK, HandlerOK, CoreInv, Running, pc # "split",
         \A r \in results : r.status # "error",
         Cardinality(results) >= count.expected
  PROVE  PtsOf({r.job.node : r \in results}) = Pts[Root]
<1>1. Cardinality(results) + Cardinality(Live) <= count.expected
  BY DEF CoreInv, CoreOK, Room, TypeOK, Counts
<1>2. IsFiniteSet(Live) /\ Cardinality(Live) \in Nat /\ Cardinality(results) \in Nat
  BY LiveType, FS_CardinalityType DEF TypeOK
<1>3. count.expected \in Nat
  BY DEF TypeOK, Counts
<1>4. Cardinality(Live) = 0
  BY <1>1, <1>2, <1>3
<1>5. Live = {}
  BY <1>2, <1>4, FS_EmptySet
<1>6. PtsOf(NodesOf(Live)) = {}
  BY <1>5 DEF NodesOf, PtsOf
<1> QED
  BY <1>6 DEF CoreInv, CoreOK, Covered

(* A feasible result carries a point of the problem.                        *)
LEMMA FoundPoints ==
  ASSUME TypeOK, ResultsTruthful, CoreInv, Running
  PROVE  \A r \in results : r.x # NoPoint => r.x \in Pts[Root]
<1> SUFFICES ASSUME NEW r \in results, r.x # NoPoint
             PROVE  r.x \in Pts[Root]
  OBVIOUS
<1>1. r.x \in Pts[r.job.node]
  BY DEF ResultsTruthful
<1> QED
  BY <1>1 DEF CoreInv, CoreOK, Covered, PtsOf

LEMMA AggregateSound ==
  ASSUME TypeOK, HandlerOK, ResultsTruthful, CoreInv, Running, pc # "split",
         NEW t \in BOOLEAN, Aggregate(t),
         ~t => Cardinality(results) >= count.expected
  PROVE  AnswerIsSound'
<1> DEFINE s == AggregateStatus(results, count.expected, t)
<1>1. PICK x \in IF Feasible(results) = {} THEN {NoPoint} ELSE BestPoints(results) :
         response'.status = s /\ response'.x = x
  BY DEF Aggregate
<1>2. NoPoint \notin Pts[Root]
  BY SolveAssumption, TreeAssumption DEF TreeTypes
<1>3. ASSUME Feasible(results) # {}
      PROVE  /\ x \in Pts[Root]
             /\ \A r \in Feasible(results) : Obj[r.x] <= Obj[x]
  BY <1>1, <1>3, FoundPoints DEF BestPoints, Feasible
<1>4. ASSUME s = "optimal" PROVE IsBestOf(x, Pts[Root])
  <2>1. Feasible(results) # {} /\ AllTerminal(results, count.expected, t)
    BY <1>4, StatusMeaning
  <2>2. /\ \A r \in results : r.status \in {"optimal", "infeasible"}
        /\ Cardinality(results) = count.expected /\ count.expected \in Nat
    BY <2>1 DEF AllTerminal, TypeOK, Counts
  <2>3. PtsOf({r.job.node : r \in results}) = Pts[Root]
    BY <2>2, NothingLive
  <2>4. ASSUME NEW y \in Pts[Root] PROVE Obj[y] <= Obj[x]
    <3>1. PICK r \in results : y \in Pts[r.job.node]
      BY <2>3 DEF PtsOf
    <3>2. r.status = "optimal" /\ IsBestOf(r.x, Pts[r.job.node])
      BY <2>2, <3>1 DEF ResultsTruthful, Truthful
    <3>3. r.job.node \in Node /\ Pts[r.job.node] \subseteq Point
      BY TreeAssumption, JobFacts DEF TypeOK, Result, TreeTypes
    <3>4. r \in Feasible(results)
      BY <3>2, <3>3, SolveAssumption DEF IsBestOf, Feasible
    <3>5. Obj[y] <= Obj[r.x] /\ Obj[r.x] <= Obj[x]
      BY <1>3, <2>1, <3>1, <3>2, <3>4 DEF IsBestOf
    <3>6. y \in Point /\ r.x \in Point /\ x \in Point
      BY <1>3, <2>1, <3>1, <3>2, <3>3, TreeAssumption DEF IsBestOf, TreeTypes
    <3>7. Obj[y] \in Int /\ Obj[r.x] \in Int /\ Obj[x] \in Int
      BY <3>6, TreeAssumption DEF TreeTypes
    <3> QED
      BY <3>5, <3>7
  <2> QED
    BY <1>3, <2>1, <2>4 DEF IsBestOf
<1>5. ASSUME s = "infeasible" PROVE Pts[Root] = {}
  <2>1. /\ Feasible(results) = {} /\ ~t
        /\ \A r \in results : r.status \notin {"unbounded", "error", "iter-limit",
                                               "numerical-error"}
    BY <1>5, StatusMeaning
  <2>2. PtsOf({r.job.node : r \in results}) = Pts[Root]
    BY <2>1, NothingLive
  <2>3. ASSUME NEW r \in results PROVE Pts[r.job.node] = {}
    <3>1. r.status \in {"optimal", "infeasible"} /\ r.job.node \in Node
      BY <2>1, JobFacts DEF ResultsTruthful, TypeOK, Result, ResultStatus
    <3>2. r.x = NoPoint
      BY <2>1 DEF Feasible
    <3>3. NoPoint \notin Pts[r.job.node]
      BY <3>1, SolveAssumption, TreeAssumption DEF TreeTypes
    <3> QED
      BY <3>1, <3>2, <3>3 DEF ResultsTruthful, Truthful, IsBestOf
  <2> QED
    BY <2>2, <2>3 DEF PtsOf
<1>6. ASSUME s = "feasible-partial" PROVE x \in Pts[Root]
  BY <1>3, <1>6, StatusMeaning
<1> QED
  BY <1>1, <1>4, <1>5, <1>6 DEF AnswerIsSound, IsBestOf

LEMMA CancelSound ==
  ASSUME FinishCancelled
  PROVE  AnswerIsSound'
BY DEF FinishCancelled, AnswerIsSound

LEMMA AnswerKept ==
  ASSUME AnswerIsSound, response' = response
  PROVE  AnswerIsSound'
BY DEF AnswerIsSound, IsBestOf
-----------------------------------------------------------------------------
(* The inductive invariant.                                                 *)

LEMMA InvInit == Init => IInv
<1> SUFFICES ASSUME Init PROVE IInv
  OBVIOUS
<1>1. PICK F \in Frontiers :
        /\ unsent = [i \in DOMAIN F |-> FirstTry(F[i])]
        /\ expected = NodesIn(unsent)
        /\ count = [expected |-> Len(F), published |-> Len(F), redelegated |-> 0, split |-> 0]
  BY DEF Init
<1>2. F \in Seq(Node) /\ Len(F) \in Nat /\ IsFrontier(NodesIn(F))
  BY SolveAssumption, LenProperties
<1>3. unsent \in Seq(Job) /\ Len(unsent) = Len(F) /\ DOMAIN unsent = DOMAIN F
  BY <1>1, <1>2, FirstTries
<1>4. /\ pc = "publish" /\ completed = {} /\ superseded = {} /\ results = {}
      /\ response = NoResponse
  BY DEF Init
<1>5. Live = expected /\ Room = Len(F)
  BY <1>1, <1>2, <1>4 DEF Live, Outstanding, Room
<1>6. expected = {FirstTry(n) : n \in NodesIn(F)}
  BY <1>1, <1>3 DEF NodesIn
<1>7. Apart(expected)
  <2>1. \A j \in expected : j.node \in NodesIn(F) /\ j = FirstTry(j.node)
    BY <1>6 DEF FirstTry
  <2>2. \A m, n \in NodesIn(F) : m # n => Below[m] \cap Below[n] = {}
    BY <1>2 DEF IsFrontier
  <2> QED
    BY <2>1, <2>2 DEF Apart
<1>8. Covered(expected, {})
  <2>1. NodesOf(expected) = NodesIn(F)
    <3>1. \A n : FirstTry(n).node = n
      BY DEF FirstTry
    <3> QED
      BY <1>6, <3>1 DEF NodesOf
  <2>2. PtsOf(NodesIn(F)) = Pts[Root]
    BY <1>2 DEF IsFrontier
  <2>3. PtsOf({r.job.node : r \in {}}) = {}
    BY DEF PtsOf
  <2> QED
    BY <2>1, <2>2, <2>3 DEF Covered
<1>9. Cardinality({}) + Cardinality(expected) <= Len(F)
  <2>1. Cardinality(expected) <= Len(F) /\ IsFiniteSet(expected)
    BY <1>1, <1>3, NodesInFinite
  <2>2. Cardinality({}) = 0 /\ Cardinality(expected) \in Nat
    BY <2>1, FS_EmptySet, FS_CardinalityType
  <2> QED
    BY <1>2, <2>1, <2>2
<1>10. CoreInv
  BY <1>4, <1>5, <1>7, <1>8, <1>9 DEF CoreInv, CoreOK, Newest, Spent
<1> QED
  BY <1>4, <1>10, TypeInit, CoreParts DEF IInv, HandlerOK, ResultsTruthful, AnswerIsSound

(* An answer of a worker, whatever becomes of it.                           *)
LEMMA InvReceive ==
  ASSUME IInv, CoreInv, NEW r \in Result, Truthful(r),
         r.x \in Pts[r.job.node] \cup {NoPoint}, Receive(r)
  PROVE  HandlerOK' /\ ResultsTruthful' /\ CoreInv' /\ AnswerIsSound'
<1> USE DEF IInv
<1>1. CASE IgnoreResult(r)
  BY <1>1, HandlerKept, TruthfulKept, CorePhase, AnswerKept DEF IgnoreResult, locals
<1>2. CASE ReceiveCancelled(r)
  <2>1. pc' = "done" /\ results' = results
    BY <1>2 DEF ReceiveCancelled, FinishCancelled
  <2> QED
    BY <1>2, <2>1, HandlerKept, TruthfulKept, CoreEnds, CancelSound DEF ReceiveCancelled
<1>3. CASE ReceiveTerminal(r)
  <2>1. ResultTruthful(r)
    BY <1>3 DEF ReceiveTerminal, ResultTruthful
  <2>2. ResultsTruthful'
    BY <1>3, <2>1, TruthfulAdd DEF ReceiveTerminal, RecordTerminal
  <2> QED
    BY <1>3, <2>2, HandlerKept, CoreReceiveTerminal, AnswerKept DEF ReceiveTerminal
<1>4. CASE ReceiveSplit(r)
  BY <1>4, HandlerReceive, TruthfulKept, CoreReceiveSplit, AnswerKept DEF ReceiveSplit
<1>5. CASE ReceiveFailed(r)
  BY <1>5, HandlerReceive, TruthfulKept, CoreReceiveFailed, AnswerKept DEF ReceiveFailed
<1> QED
  BY <1>1, <1>2, <1>3, <1>4, <1>5 DEF Receive

LEMMA InvStep == IInv /\ [Next]_vars => IInv'
<1> SUFFICES ASSUME IInv, [Next]_vars PROVE IInv'
  OBVIOUS
<1>0. CoreInv
  BY CoreParts DEF IInv
<1> SUFFICES HandlerOK' /\ ResultsTruthful' /\ CoreInv' /\ AnswerIsSound'
  <2>1. TypeOK'
    BY TypeStep DEF IInv
  <2>2. CoreInv' <=> NoPointLost' /\ NoDoubleWork' /\ LiveIsNewest' /\ NeverStopsEarly'
    BY CoreParts, PTL
  <2> QED
    BY <2>1, <2>2 DEF IInv
<1> DEFINE Goal == HandlerOK' /\ ResultsTruthful' /\ CoreInv' /\ AnswerIsSound'
<1> USE DEF IInv
<1>1. CASE PublishFrontierJob
  BY <1>0, <1>1, HandlerKept, TruthfulKept, CorePublishFrontierJob, AnswerKept
     DEF PublishFrontierJob
<1>2. CASE PublishFrontierFails
  BY <1>0, <1>2, HandlerKept, TruthfulKept, CoreEnds, AnswerKept
     DEF PublishFrontierFails, locals
<1>3. CASE OpenResultConsumer
  <2>1. CoreInv'
    BY <1>0, <1>3, CoreEnds, CorePhase DEF OpenResultConsumer
  <2> QED
    BY <1>3, <2>1, HandlerKept, TruthfulKept, AnswerKept DEF OpenResultConsumer, locals
<1>4. ASSUME NEW t \in BOOLEAN, Aggregate(t), Running, pc # "split",
             ~t => Cardinality(results) >= count.expected
      PROVE  Goal
  <2>1. pc' = "done" /\ results' = results
    BY <1>4 DEF Aggregate, locals
  <2> QED
    BY <1>0, <1>4, <2>1, HandlerKept, TruthfulKept, CoreEnds, AggregateSound
<1>6. CASE ObserveCancel
  <2>1. pc' = "done" /\ results' = results
    BY <1>6 DEF ObserveCancel, FinishCancelled, locals
  <2> QED
    BY <1>6, <2>1, HandlerKept, TruthfulKept, CoreEnds, CancelSound DEF ObserveCancel
<1>7. CASE Finish
  BY <1>4, <1>7 DEF Finish, Running
<1>8. CASE BeginWait
  BY <1>0, <1>8, HandlerKept, TruthfulKept, CorePhase, AnswerKept DEF BeginWait, locals
<1>9. ASSUME NEW j \in Job, RequeueStale(j) PROVE Goal
  <2>1. pc' = "wait" /\ results' = results /\ response' = response
    BY <1>9 DEF RequeueStale
  <2> QED
    BY <1>0, <1>9, <2>1, HandlerKept, TruthfulKept, CoreRequeueStale, AnswerKept
<1>10. ASSUME NEW j \in Job, RequeueStaleFails(j) PROVE Goal
  BY <1>0, <1>10, HandlerKept, TruthfulKept, CoreIdle, AnswerKept
     DEF RequeueStaleFails, locals
<1>11. CASE TimeOut
  BY <1>4, <1>11 DEF TimeOut, Running
<1>12. CASE Poll
  BY <1>0, <1>12, HandlerKept, TruthfulKept, CorePhase, AnswerKept DEF Poll, locals
<1>13. ASSUME NEW j \in stream, NEW r \in TruthfulAnswers(j), Receive(r) PROVE Goal
  <2>1. j \in Job
    BY DEF TypeOK
  <2>2. r \in Result /\ Truthful(r) /\ r.x \in Pts[r.job.node] \cup {NoPoint}
    BY <2>1, AnswerType
  <2> QED
    BY <1>0, <1>13, <2>2, InvReceive
<1>14. CASE PublishChild
  BY <1>0, <1>14, HandlerKept, TruthfulKept, CorePublishChild, AnswerKept DEF PublishChild
<1>15. CASE PublishChildFails
  <2>1. pc' = "check" /\ response' = response
    BY <1>15 DEF PublishChildFails, NextTurn
  <2> QED
    BY <1>0, <1>15, <2>1, HandlerKept, TruthfulPublishChildFails, CorePublishChildFails,
       AnswerKept
<1>16. CASE CompleteSplit
  BY <1>0, <1>16, HandlerKept, TruthfulKept, CoreCompleteSplit, AnswerKept
     DEF CompleteSplit, NextTurn
<1>17. CASE Redelegate
  <2>1. pc' = "check" /\ response' = response /\ results' = results
    BY <1>17 DEF Redelegate, NextTurn
  <2> QED
    BY <1>0, <1>17, <2>1, HandlerKept, TruthfulKept, CoreRedelegate, AnswerKept
<1>18. CASE RedelegateFails
  <2>1. pc' = "check" /\ response' = response
    BY <1>18 DEF RedelegateFails, NextTurn
  <2> QED
    BY <1>0, <1>18, <2>1, HandlerKept, TruthfulRedelegateFails, CoreRedelegateFails,
       AnswerKept
<1>19. ASSUME UNCHANGED <<pc, locals, response>> PROVE Goal
  BY <1>0, <1>19, HandlerKept, TruthfulKept, CoreIdle, AnswerKept DEF locals
<1>20. ASSUME NEW j \in Job, WorkerProgress(j) PROVE Goal
  BY <1>19, <1>20 DEF WorkerProgress
<1>21. CASE RequestCancel \/ CancelFrame
  BY <1>19, <1>21 DEF RequestCancel, CancelFrame, MarkCancelling
<1>22. CASE RecordCancel
  BY <1>19, <1>22 DEF RecordCancel
<1>23. CASE UNCHANGED vars
  BY <1>19, <1>23 DEF vars, locals
<1> QED
  BY <1>1, <1>2, <1>3, <1>6, <1>7, <1>8, <1>9, <1>10, <1>11, <1>12, <1>13, <1>14,
     <1>15, <1>16, <1>17, <1>18, <1>20, <1>21, <1>22, <1>23 DEF Next, MasterStep

THEOREM Inductive == Spec => []IInv
BY InvInit, InvStep, PTL DEF Spec

(* Type correctness: the counters of the task, the registry and the metrics *)
(* stay counters, and every id in use is the id of some attempt at a node.  *)
THEOREM TypeCorrect == Spec => []TypeOK
BY Inductive, PTL DEF IInv

(* The answer of a solve is true of the problem, for every tree, split      *)
(* depth, retry budget and truthful environment.                            *)
THEOREM SoundAnswer == Spec => []AnswerIsSound
BY Inductive, PTL DEF IInv

(* No feasible point drops out of the search while the solve runs, through  *)
(* any sequence of retries, stale requeues, splits and failed publishes.    *)
THEOREM NoLoss == Spec => []NoPointLost
BY Inductive, PTL DEF IInv

(* Live attempts never overlap: no part of the tree counts twice.           *)
THEOREM NoOverlap == Spec => []NoDoubleWork
BY Inductive, PTL DEF IInv

(* An answered attempt is older than every live attempt at its subtree, so  *)
(* the id of a retry or of a child never collides with an answered one.     *)
THEOREM Fresh == Spec => []LiveIsNewest
BY Inductive, PTL DEF IInv

(* An attempt answered or given up is never awaited again.                  *)
THEOREM NeverTwice == Spec => NeverReexpected
<1> DEFINE Goal == (expected' \ expected) \cap Spent = {}
<1>1. ASSUME IInv, [Next]_vars PROVE Goal
  <2>0. CoreInv /\ Live \subseteq Job
    BY <1>1, CoreParts, LiveType DEF IInv
  <2>1. ASSUME NEW j \in Job, RequeueStale(j) PROVE Goal
    <3>1. Running /\ j \in Live /\ j.retry < MaxAttempts
      BY <2>1 DEF RequeueStale, Running, Live
    <3>2. expected' \ expected \subseteq {NextTry(j)}
      BY <2>1 DEF RequeueStale, Supersede
    <3> QED
      BY <2>0, <3>1, <3>2, LiveIsFresh
  <2>2. CASE PublishChild
    <3>1. Head(unsent) \in NodesIn(unsent)
      BY <1>1, <2>2, HeadTailNodes DEF PublishChild, IInv, TypeOK
    <3>2. Running /\ Head(unsent) \in Live
      BY <2>2, <3>1 DEF PublishChild, Running, Live
    <3>3. expected' \ expected \subseteq {Head(unsent)}
      BY <2>2 DEF PublishChild
    <3> QED
      BY <2>0, <3>2, <3>3, LiveIsFresh
  <2>3. CASE Redelegate
    <3>1. Running /\ NextTry(current.job) \in Live
      BY <2>3 DEF Redelegate, Running, Live
    <3>2. expected' \ expected \subseteq {NextTry(current.job)}
      BY <2>3 DEF Redelegate
    <3> QED
      BY <2>0, <3>1, <3>2, LiveIsFresh
  <2>4. ASSUME UNCHANGED expected PROVE Goal
    BY <2>4
  <2>5. ASSUME NEW r, Receive(r) PROVE UNCHANGED expected
    BY <2>5 DEF Receive, IgnoreResult, ReceiveCancelled, ReceiveTerminal, ReceiveSplit,
                ReceiveFailed, locals
  <2>6. ASSUME NEW j, RequeueStaleFails(j) \/ WorkerProgress(j) PROVE UNCHANGED expected
    BY <2>6 DEF RequeueStaleFails, WorkerProgress, locals
  <2>7. CASE \/ Finish \/ TimeOut \/ ObserveCancel
             \/ PublishFrontierJob \/ PublishFrontierFails \/ OpenResultConsumer
             \/ BeginWait \/ Poll \/ PublishChildFails \/ CompleteSplit \/ RedelegateFails
             \/ RequestCancel \/ CancelFrame \/ RecordCancel \/ UNCHANGED vars
    <3>1. UNCHANGED expected
      BY <2>7 DEF Finish, TimeOut, Aggregate, ObserveCancel,
                  PublishFrontierJob, PublishFrontierFails, OpenResultConsumer, BeginWait,
                  Poll, PublishChildFails, CompleteSplit, RedelegateFails, RequestCancel,
                  CancelFrame, MarkCancelling, RecordCancel, vars, locals
    <3> QED
      BY <2>4, <3>1
  <2> QED
    BY <1>1, <2>1, <2>2, <2>3, <2>4, <2>5, <2>6, <2>7 DEF Next, MasterStep
<1>2. IInv /\ [Next]_vars => [Goal]_vars
  BY <1>1
<1> QED
  BY <1>2, Inductive, PTL DEF Spec, NeverReexpected
-----------------------------------------------------------------------------
(* One result per subproblem.  A second inductive invariant, on top of      *)
(* IInv: what is in hand was accepted, no subtree with a result is live, and *)
(* the result whose handler runs is the only trace of its attempt.          *)

NoneLive(R, L) == \A r \in R, j \in L : r.job.node # j.node

Unique ==
  /\ OneResultPerNode
  /\ \A r \in results : r.job \in completed
  /\ Running => NoneLive(results, Live)
  /\ pc \in {"split", "redelegate"} =>
       /\ current.job \in completed
       /\ \A r \in results : r.job.node # current.job.node
       /\ \A j \in Outstanding : j.node # current.job.node

(* Steps that add no result and bring no new subtree to life.               *)
LEMMA UniqueKept ==
  ASSUME Unique, results' = results, completed \subseteq completed',
         Running' => Running /\ NodesOf(Live') \subseteq NodesOf(Live),
         pc' \in {"split", "redelegate"} =>
           pc' = pc /\ current' = current /\ NodesOf(Outstanding') \subseteq NodesOf(Outstanding)
  PROVE  Unique'
<1>1. OneResultPerNode' /\ \A r \in results' : r.job \in completed'
  BY DEF Unique, OneResultPerNode
<1>2. Running' => NoneLive(results', Live')
  BY DEF Unique, NoneLive, NodesOf
<1>3. pc' \in {"split", "redelegate"} =>
        /\ current'.job \in completed'
        /\ \A r \in results' : r.job.node # current'.job.node
        /\ \A j \in Outstanding' : j.node # current'.job.node
  BY DEF Unique, NodesOf
<1> QED
  BY <1>1, <1>2, <1>3 DEF Unique

(* Steps that take a result for a subtree that has none.                    *)
LEMMA UniqueAdd ==
  ASSUME Unique, Running, NEW r, results' = results \cup {r},
         completed \subseteq completed', r.job \in completed',
         \A s \in results : s.job.node # r.job.node,
         pc' = "check", Live' \subseteq Live, \A j \in Live' : j.node # r.job.node
  PROVE  Unique'
<1>1. OneResultPerNode' /\ \A s \in results' : s.job \in completed'
  BY DEF Unique, OneResultPerNode
<1>2. NoneLive(results', Live')
  BY DEF Unique, NoneLive
<1> QED
  BY <1>1, <1>2 DEF Unique

(* Steps of the loop between two results.                                   *)
LEMMA UniqueIdle ==
  ASSUME Unique, UNCHANGED locals,
         pc' = pc \/ {pc, pc'} \subseteq {"publish", "check", "wait"}
  PROVE  Unique'
<1>1. Live' = Live /\ Outstanding' = Outstanding /\ (Running' => Running)
  BY DEF Live, Outstanding, Running, locals
<1>2. pc' \in {"split", "redelegate"} => pc' = pc
  OBVIOUS
<1> QED
  BY <1>1, <1>2, UniqueKept DEF locals

LEMMA UniqueEnds ==
  ASSUME Unique, results' = results, completed \subseteq completed',
         pc' \in {"done", "failed"}
  PROVE  Unique'
BY UniqueKept DEF Running

(* Live attempts at distinct subtrees are attempts at distinct nodes.       *)
LEMMA ApartNodes ==
  ASSUME NEW L \in SUBSET Job, Apart(L), NEW j \in L, NEW k \in L, j # k
  PROVE  j.node # k.node
<1>1. j.node \in Below[j.node]
  BY TreeAssumption, JobFacts DEF TreeShape
<1> QED
  BY <1>1 DEF Apart

LEMMA UniqueRequeueStale ==
  ASSUME TypeOK, HandlerOK, Unique, NEW j \in Job, RequeueStale(j)
  PROVE  Unique'
<1>1. NextTry(j).node = j.node
  BY NextTryReplaces DEF RequeueStale
<1>2. pc = "wait" /\ pc' = "wait" /\ results' = results /\ completed' = completed
  BY DEF RequeueStale
<1>3. Live = Outstanding /\ j \in Live /\ Live' \subseteq Live \cup {NextTry(j)}
  BY <1>2 DEF RequeueStale, Supersede, Live, Outstanding
<1>4. NodesOf(Live') \subseteq NodesOf(Live)
  BY <1>1, <1>3 DEF NodesOf
<1> QED
  BY <1>2, <1>4, UniqueKept DEF Running

(* What Accept says of the answered attempt.                                *)
LEMMA Accepting ==
  ASSUME NEW r, Accept(r)
  PROVE  /\ pc = "wait" /\ Running /\ r.job \in Live /\ Live = Outstanding
         /\ completed' = completed \cup {r.job}
BY DEF Accept, Accepted, Running, Live, Outstanding

(* A child is not its parent.                                               *)
LEMMA KidNodes ==
  ASSUME NEW a \in Job, Kids[a.node] # <<>>
  PROVE  \A k \in {FirstTry(Kids[a.node][1]), FirstTry(Kids[a.node][2])} : k.node # a.node
<1>1. a.node \in Node /\ Kids[a.node][1] \in Node /\ Kids[a.node][2] \in Node
  BY JobFacts, KidsFacts
<1>2. /\ Below[Kids[a.node][1]] \subseteq Below[a.node] \ {a.node}
      /\ Below[Kids[a.node][2]] \subseteq Below[a.node] \ {a.node}
      /\ Kids[a.node][1] \in Below[Kids[a.node][1]]
      /\ Kids[a.node][2] \in Below[Kids[a.node][2]]
  BY <1>1, TreeAssumption DEF TreeShape
<1> QED
  BY <1>2 DEF FirstTry

LEMMA UniqueReceive ==
  ASSUME IInv, CoreInv, Unique, NEW r \in Result, Truthful(r), Receive(r)
  PROVE  Unique'
<1> DEFINE a == r.job
<1>0. /\ a \in Job /\ Live \subseteq Job
      /\ Running => Apart(Live) /\ Newest(Live, Spent) /\ NoneLive(results, Live)
  BY LiveType DEF IInv, CoreInv, CoreOK, Result, Unique
<1>1. CASE IgnoreResult(r)
  BY <1>1, UniqueIdle DEF IgnoreResult
<1>2. CASE ReceiveCancelled(r)
  BY <1>2, Accepting, UniqueEnds DEF ReceiveCancelled, FinishCancelled
<1>3. ASSUME Accept(r), expected' = expected, Running
      PROVE  /\ Outstanding' = Live \ {a}
             /\ \A j \in Outstanding' : j.node # a.node
             /\ \A s \in results : s.job.node # a.node
  <2>1. Outstanding' = Live \ {a} /\ a \in Live
    BY <1>3, Accepting DEF Outstanding
  <2>2. \A j \in Live \ {a} : j.node # a.node
    BY <1>0, <1>3, <2>1, ApartNodes
  <2>3. \A s \in results : s.job.node # a.node
    BY <1>0, <1>3, <2>1 DEF NoneLive
  <2> QED
    BY <2>1, <2>2, <2>3
<1>4. CASE ReceiveTerminal(r)
  <2>1. Accept(r) /\ pc' = "check" /\ expected' = expected /\ results' = results \cup {r}
    BY <1>4 DEF ReceiveTerminal, RecordTerminal
  <2>2. Live' = Outstanding'
    BY <2>1 DEF Live
  <2> QED
    BY <1>3, <2>1, <2>2, Accepting, UniqueAdd
<1>5. CASE ReceiveSplit(r)
  <2> DEFINE K == {FirstTry(Kids[a.node][1]), FirstTry(Kids[a.node][2])}
  <2>1. /\ Accept(r) /\ pc' = "split" /\ current' = r /\ expected' = expected
        /\ results' = results /\ Kids[a.node] # <<>>
    BY <1>5 DEF ReceiveSplit, Truthful
  <2>2. NodesIn(unsent') = K
    BY <1>0, <1>5, <2>1, JobFacts, TryKids DEF ReceiveSplit
  <2>3. Live' = (Live \ {a}) \cup K
    BY <1>3, <2>1, <2>2, Accepting DEF Live
  <2>4. K \subseteq Job /\ \A k \in K : Below[k.node] \subseteq Below[a.node]
    BY <1>0, <2>1, KidsReplace
  <2>5. \A k \in K : k.node # a.node
    BY <1>0, <2>1, KidNodes
  <2>6. ASSUME NEW s \in results, NEW k \in K PROVE s.job.node # k.node
    <3>1. k.node \in Below[a.node]
      BY <2>4, TreeAssumption, JobFacts DEF TreeShape
    <3>2. s.job \in Spent /\ a \in Live
      BY <2>1, Accepting DEF Unique, Spent
    <3>3. s.job.node = k.node => s.job.node = a.node
      BY <1>0, <2>1, <3>1, <3>2, Accepting DEF Newest
    <3> QED
      BY <2>5, <3>3
  <2>7. NoneLive(results', Live')
    <3> HIDE DEF K
    <3> QED
      BY <1>0, <2>1, <2>3, <2>6, Accepting DEF NoneLive
  <2>8. OneResultPerNode' /\ \A s \in results' : s.job \in completed'
    BY <2>1, Accepting DEF Unique, OneResultPerNode
  <2> QED
    BY <1>3, <2>1, <2>7, <2>8, Accepting DEF Unique
<1>6. CASE ReceiveFailed(r)
  <2>1. /\ Accept(r) /\ pc' = "redelegate" /\ current' = r /\ expected' = expected
        /\ results' = results /\ a.retry < MaxAttempts
    BY <1>0, <1>6, JobFacts, SolveAssumption DEF ReceiveFailed, ShouldRedelegate
  <2>2. NextTry(a).node = a.node
    BY <1>0, <2>1, NextTryReplaces
  <2>3. Live' = (Live \ {a}) \cup {NextTry(a)}
    BY <1>3, <2>1, Accepting DEF Live
  <2>4. NoneLive(results', Live')
    BY <1>0, <2>1, <2>2, <2>3, Accepting DEF NoneLive
  <2>5. OneResultPerNode' /\ \A s \in results' : s.job \in completed'
    BY <2>1, Accepting DEF Unique, OneResultPerNode
  <2> QED
    BY <1>3, <2>1, <2>4, <2>5, Accepting DEF Unique
<1> QED
  BY <1>1, <1>2, <1>4, <1>5, <1>6 DEF Receive

LEMMA UniquePublishChild ==
  ASSUME TypeOK, HandlerOK, Unique, PublishChild
  PROVE  Unique'
<1> DEFINE h == Head(unsent)
           a == current.job
<1>1. /\ pc = "split" /\ pc' = "split" /\ current' = current /\ completed' = completed
      /\ results' = results /\ expected' = expected \cup {h}
      /\ NodesIn(unsent) = {h} \cup NodesIn(unsent')
  BY HeadTailNodes DEF PublishChild, TypeOK
<1>2. a \in Job /\ Kids[a.node] # <<>>
      /\ h \in {FirstTry(Kids[a.node][1]), FirstTry(Kids[a.node][2])}
  BY <1>1 DEF HandlerOK, Truthful, Result
<1>3. h.node # a.node
  BY <1>2, KidNodes
<1>4. Outstanding' \subseteq Outstanding \cup {h} /\ Live' \subseteq Live
  BY <1>1 DEF Live, Outstanding
<1>5. OneResultPerNode' /\ \A s \in results' : s.job \in completed'
  BY <1>1 DEF Unique, OneResultPerNode
<1>6. NoneLive(results', Live')
  BY <1>1, <1>4 DEF Unique, NoneLive, Running
<1>7. /\ current'.job \in completed'
      /\ \A r \in results' : r.job.node # current'.job.node
      /\ \A j \in Outstanding' : j.node # current'.job.node
  BY <1>1, <1>3, <1>4 DEF Unique
<1> QED
  BY <1>5, <1>6, <1>7 DEF Unique

LEMMA UniquePublishChildFails ==
  ASSUME HandlerOK, Unique, PublishChildFails
  PROVE  Unique'
<1> DEFINE r == [current EXCEPT !.status = "error"]
<1>1. pc = "split" /\ r.job = current.job
  BY DEF PublishChildFails, HandlerOK, Result
<1>2. /\ results' = results \cup {r} /\ completed' = completed /\ expected' = expected
      /\ pc' = "check"
  BY DEF PublishChildFails, RecordTerminal, NextTurn
<1>3. Live' = Outstanding /\ Live' \subseteq Live
  BY <1>1, <1>2 DEF Live, Outstanding
<1>4. /\ r.job \in completed' /\ \A s \in results : s.job.node # r.job.node
      /\ \A j \in Live' : j.node # r.job.node
  BY <1>1, <1>2, <1>3 DEF Unique
<1> QED
  BY <1>1, <1>2, <1>3, <1>4, UniqueAdd DEF Running

LEMMA UniqueRedelegateFails ==
  ASSUME HandlerOK, Unique, RedelegateFails
  PROVE  Unique'
<1>1. /\ results' = results \cup {current} /\ completed' = completed /\ expected' = expected
      /\ pc = "redelegate" /\ pc' = "check"
  BY DEF RedelegateFails, RecordTerminal, NextTurn
<1>2. Live' = Outstanding /\ Live' \subseteq Live
  BY <1>1 DEF Live, Outstanding
<1>3. /\ current.job \in completed'
      /\ \A s \in results : s.job.node # current.job.node
      /\ \A j \in Live' : j.node # current.job.node
  BY <1>1, <1>2 DEF Unique
<1> QED
  BY <1>1, <1>2, <1>3, UniqueAdd DEF Running

LEMMA UniqueStep ==
  ASSUME IInv, Unique, [Next]_vars
  PROVE  Unique'
<1>0. TypeOK /\ HandlerOK /\ CoreInv
  BY CoreParts DEF IInv
<1>1. CASE PublishFrontierJob
  <2>1. /\ pc' = pc /\ pc = "publish" /\ results' = results /\ completed' = completed
        /\ Live' = Live
    BY <1>1 DEF PublishFrontierJob, Live, Outstanding
  <2> QED
    BY <2>1, UniqueKept DEF Running
<1>2. CASE PublishFrontierFails \/ Finish \/ TimeOut \/ ObserveCancel
  BY <1>2, UniqueEnds DEF PublishFrontierFails, Finish, TimeOut, Aggregate, ObserveCancel,
                          FinishCancelled, locals
<1>3. CASE OpenResultConsumer
  <2>1. pc' = "failed" \/ {pc, pc'} \subseteq {"publish", "check", "wait"}
    BY <1>3 DEF OpenResultConsumer
  <2> QED
    BY <1>3, <2>1, UniqueIdle, UniqueEnds DEF OpenResultConsumer, locals
<1>4. CASE BeginWait \/ Poll
  BY <1>4, UniqueIdle DEF BeginWait, Poll
<1>5. ASSUME NEW j \in Job, RequeueStale(j) PROVE Unique'
  BY <1>0, <1>5, UniqueRequeueStale
<1>6. ASSUME NEW j \in stream, NEW r \in TruthfulAnswers(j), Receive(r) PROVE Unique'
  <2>1. r \in Result /\ Truthful(r)
    BY <1>0, AnswerType DEF TypeOK
  <2> QED
    BY <1>0, <1>6, <2>1, UniqueReceive
<1>7. CASE PublishChild
  BY <1>0, <1>7, UniquePublishChild
<1>8. CASE PublishChildFails
  BY <1>0, <1>8, UniquePublishChildFails
<1>9. CASE CompleteSplit
  <2>1. /\ pc' = "check" /\ pc = "split" /\ results' = results /\ completed' = completed
        /\ Live' \subseteq Live
    BY <1>9 DEF CompleteSplit, NextTurn, Live, Outstanding
  <2> QED
    BY <2>1, UniqueKept DEF Running, NodesOf
<1>10. CASE Redelegate
  <2>1. /\ pc' = "check" /\ pc = "redelegate" /\ results' = results /\ completed' = completed
        /\ Live' \subseteq Live
    BY <1>10 DEF Redelegate, NextTurn, Live, Outstanding
  <2> QED
    BY <2>1, UniqueKept DEF Running, NodesOf
<1>11. CASE RedelegateFails
  BY <1>0, <1>11, UniqueRedelegateFails
<1>12. CASE UNCHANGED <<pc, locals>>
  BY <1>12, UniqueIdle
<1>13. ASSUME NEW j, RequeueStaleFails(j) \/ WorkerProgress(j) PROVE Unique'
  BY <1>12, <1>13 DEF RequeueStaleFails, WorkerProgress
<1>14. CASE RequestCancel \/ CancelFrame \/ RecordCancel \/ UNCHANGED vars
  BY <1>12, <1>14 DEF RequestCancel, CancelFrame, MarkCancelling, RecordCancel, vars, locals
<1> QED
  BY <1>1, <1>2, <1>3, <1>4, <1>5, <1>6, <1>7, <1>8, <1>9, <1>10, <1>11, <1>13, <1>14
     DEF Next, MasterStep

LEMMA UniqueInit == Init => Unique
BY DEF Init, Unique, OneResultPerNode, NoneLive

LEMMA UniqueAlways == Spec => []Unique
BY UniqueInit, UniqueStep, Inductive, PTL DEF Spec

(* Two attempts at one subproblem never both count, whatever is retried,    *)
(* requeued, split or answered twice.                                       *)
THEOREM ResultsAreOriginals == Spec => []OneResultPerNode
BY UniqueAlways, PTL DEF Unique
-----------------------------------------------------------------------------
(* The counters of the registry entry against those of the task.            *)

Ledger ==
  Running =>
    /\ entry.expected = count.expected
    /\ entry.redelegated = count.redelegated
    /\ entry.split = count.split
    /\ entry.published + (IF pc = "publish" THEN Len(unsent) ELSE 0) = count.published
    /\ entry.completed = Cardinality(results)

(* Both move by the same amounts.                                           *)
LEMMA SameMoves ==
  ASSUME NEW c \in Counts, NEW e \in Entry
  PROVE  /\ OnePublished(e) = [e EXCEPT !.published = e.published + 1]
         /\ /\ OnePublished(c).expected = c.expected
            /\ OnePublished(c).published = c.published + 1
            /\ OnePublished(c).redelegated = c.redelegated
            /\ OnePublished(c).split = c.split
         /\ /\ OnePublished(e).expected = e.expected
            /\ OnePublished(e).published = e.published + 1
            /\ OnePublished(e).redelegated = e.redelegated
            /\ OnePublished(e).split = e.split
            /\ OnePublished(e).completed = e.completed
         /\ /\ OneRetry(c).expected = c.expected
            /\ OneRetry(c).published = c.published
            /\ OneRetry(c).redelegated = c.redelegated + 1
            /\ OneRetry(c).split = c.split
         /\ /\ OneRetry(e).expected = e.expected
            /\ OneRetry(e).published = e.published
            /\ OneRetry(e).redelegated = e.redelegated + 1
            /\ OneRetry(e).split = e.split
            /\ OneRetry(e).completed = e.completed
         /\ /\ OneMoreToCome(OneSplit(c)).expected = c.expected + 1
            /\ OneMoreToCome(OneSplit(c)).published = c.published
            /\ OneMoreToCome(OneSplit(c)).redelegated = c.redelegated
            /\ OneMoreToCome(OneSplit(c)).split = c.split + 1
         /\ /\ OneMoreToCome(OneSplit(e)).expected = e.expected + 1
            /\ OneMoreToCome(OneSplit(e)).published = e.published
            /\ OneMoreToCome(OneSplit(e)).redelegated = e.redelegated
            /\ OneMoreToCome(OneSplit(e)).split = e.split + 1
            /\ OneMoreToCome(OneSplit(e)).completed = e.completed
BY DEF Counts, Entry, OnePublished, OneRetry, OneSplit, OneMoreToCome

(* Steps that move no counter.                                              *)
LEMMA LedgerKept ==
  ASSUME TypeOK, Ledger, count' = count, results' = results,
         entry' \in {entry, [entry EXCEPT !.cancelRequested = TRUE,
                                          !.status = IF entry.finished THEN @ ELSE "cancelling"]},
         \/ pc' = pc /\ unsent' = unsent
         \/ {pc, pc'} \subseteq {"check", "wait", "split", "redelegate"}
         \/ pc = "publish" /\ unsent = <<>> /\ pc' = "check"
  PROVE  Ledger'
<1>1. /\ entry'.expected = entry.expected /\ entry'.redelegated = entry.redelegated
      /\ entry'.split = entry.split /\ entry'.published = entry.published
      /\ entry'.completed = entry.completed
  BY DEF TypeOK, Entry
<1>2. entry.published \in Nat
  BY DEF TypeOK, Entry
<1>3. Running' => Running
  BY DEF Running
<1>4. (IF pc' = "publish" THEN Len(unsent') ELSE 0) = IF pc = "publish" THEN Len(unsent) ELSE 0
  <2>1. Len(<<>>) = 0
    BY EmptySeq
  <2> QED
    BY <2>1
<1> QED
  BY <1>1, <1>2, <1>3, <1>4 DEF Ledger

LEMMA LedgerPublishFrontierJob ==
  ASSUME TypeOK, Ledger, PublishFrontierJob
  PROVE  Ledger'
<1>1. /\ pc = "publish" /\ pc' = "publish" /\ count' = count /\ results' = results
      /\ entry' = OnePublished(entry) /\ unsent' = Tail(unsent) /\ unsent # <<>>
  BY DEF PublishFrontierJob
<1>2. Len(unsent') = Len(unsent) - 1 /\ Len(unsent) \in Nat
  BY <1>1, HeadTailProperties, LenProperties DEF TypeOK
<1>3. /\ entry'.expected = entry.expected /\ entry'.redelegated = entry.redelegated
      /\ entry'.split = entry.split /\ entry'.published = entry.published + 1
      /\ entry'.completed = entry.completed
  BY <1>1, SameMoves DEF TypeOK
<1>4. entry.published \in Nat
  BY DEF TypeOK, Entry
<1> QED
  BY <1>1, <1>2, <1>3, <1>4 DEF Ledger, Running

(* One more publish, and for a retry one more redelegation.                 *)
LEMMA LedgerPublish ==
  ASSUME TypeOK, Ledger, results' = results, Running, pc # "publish", pc' # "publish",
         \/ count' = OnePublished(count) /\ entry' = OnePublished(entry)
         \/ count' = OneRetry(OnePublished(count)) /\ entry' = OneRetry(OnePublished(entry))
  PROVE  Ledger'
<1>1. /\ entry.published \in Nat /\ count.published \in Nat
      /\ entry.redelegated \in Nat /\ count.redelegated \in Nat
  BY DEF TypeOK, Entry, Counts
<1>2. OnePublished(count) \in Counts /\ OnePublished(entry) \in Entry
  BY CounterTypes DEF TypeOK
<1>3. /\ count'.expected = count.expected /\ count'.split = count.split
      /\ count'.published = count.published + 1
      /\ entry'.expected = entry.expected /\ entry'.split = entry.split
      /\ entry'.published = entry.published + 1
      /\ entry'.completed = entry.completed
      /\ \/ count'.redelegated = count.redelegated /\ entry'.redelegated = entry.redelegated
         \/ /\ count'.redelegated = count.redelegated + 1
            /\ entry'.redelegated = entry.redelegated + 1
  <2>1. CASE count' = OnePublished(count) /\ entry' = OnePublished(entry)
    BY <2>1, SameMoves DEF TypeOK
  <2>2. CASE count' = OneRetry(OnePublished(count)) /\ entry' = OneRetry(OnePublished(entry))
    <3> DEFINE c == OnePublished(count)
               e == OnePublished(entry)
    <3>1. /\ c.expected = count.expected /\ c.split = count.split
          /\ c.published = count.published + 1 /\ c.redelegated = count.redelegated
          /\ e.expected = entry.expected /\ e.split = entry.split
          /\ e.published = entry.published + 1 /\ e.redelegated = entry.redelegated
          /\ e.completed = entry.completed
      BY SameMoves DEF TypeOK
    <3> HIDE DEF c, e
    <3>2. /\ OneRetry(c).expected = c.expected /\ OneRetry(c).split = c.split
          /\ OneRetry(c).published = c.published
          /\ OneRetry(c).redelegated = c.redelegated + 1
          /\ OneRetry(e).expected = e.expected /\ OneRetry(e).split = e.split
          /\ OneRetry(e).published = e.published
          /\ OneRetry(e).redelegated = e.redelegated + 1
          /\ OneRetry(e).completed = e.completed
      BY <1>2, SameMoves DEF c, e
    <3> QED
      BY <2>2, <3>1, <3>2 DEF c, e
  <2> QED
    BY <2>1, <2>2
<1> QED
  BY <1>1, <1>3 DEF Ledger

LEMMA LedgerCompleteSplit ==
  ASSUME TypeOK, Ledger, CompleteSplit
  PROVE  Ledger'
<1>1. /\ pc = "split" /\ pc' = "check" /\ results' = results
      /\ count' = OneMoreToCome(OneSplit(count)) /\ entry' = OneMoreToCome(OneSplit(entry))
  BY DEF CompleteSplit, NextTurn
<1>2. /\ count'.expected = count.expected + 1 /\ count'.split = count.split + 1
      /\ count'.published = count.published /\ count'.redelegated = count.redelegated
      /\ entry'.expected = entry.expected + 1 /\ entry'.split = entry.split + 1
      /\ entry'.published = entry.published /\ entry'.redelegated = entry.redelegated
      /\ entry'.completed = entry.completed
  BY <1>1, SameMoves DEF TypeOK
<1>3. /\ entry.expected \in Nat /\ count.expected \in Nat /\ entry.split \in Nat
      /\ count.split \in Nat /\ entry.published \in Nat
  BY DEF TypeOK, Entry, Counts
<1> QED
  BY <1>1, <1>2, <1>3 DEF Ledger, Running

(* A result not in hand yet is kept and counted.                            *)
LEMMA LedgerRecord ==
  ASSUME TypeOK, Ledger, NEW r, r \notin results, RecordTerminal(r), count' = count,
         Running, pc # "publish", pc' # "publish"
  PROVE  Ledger'
<1>1. Cardinality(results') = Cardinality(results) + 1 /\ Cardinality(results) \in Nat
  BY FS_AddElement, FS_CardinalityType DEF TypeOK, RecordTerminal
<1>2. /\ entry'.expected = entry.expected /\ entry'.redelegated = entry.redelegated
      /\ entry'.split = entry.split /\ entry'.published = entry.published
      /\ entry'.completed = entry.completed + 1
  BY DEF TypeOK, Entry, RecordTerminal
<1>3. entry.published \in Nat
  BY DEF TypeOK, Entry
<1> QED
  BY <1>1, <1>2, <1>3 DEF Ledger

LEMMA LedgerEnds ==
  ASSUME pc' \in {"done", "failed"}
  PROVE  Ledger'
BY DEF Ledger, Running

LEMMA LedgerReceive ==
  ASSUME TypeOK, Unique, Ledger, NEW r \in Result, Receive(r)
  PROVE  Ledger'
<1>1. CASE IgnoreResult(r)
  BY <1>1, LedgerKept DEF IgnoreResult, locals
<1>2. CASE ReceiveCancelled(r)
  BY <1>2, LedgerEnds DEF ReceiveCancelled, FinishCancelled
<1>3. CASE ReceiveTerminal(r)
  <2>1. Accept(r) /\ RecordTerminal(r) /\ count' = count /\ pc' = "check"
    BY <1>3 DEF ReceiveTerminal
  <2>2. r \notin results
    BY <2>1 DEF Accept, Accepted, Unique
  <2> QED
    BY <2>1, <2>2, Accepting, LedgerRecord
<1>4. CASE ReceiveSplit(r)
  BY <1>4, Accepting, LedgerKept DEF ReceiveSplit
<1>5. CASE ReceiveFailed(r)
  BY <1>5, Accepting, LedgerKept DEF ReceiveFailed
<1> QED
  BY <1>1, <1>2, <1>3, <1>4, <1>5 DEF Receive

LEMMA LedgerStep ==
  ASSUME TypeOK, HandlerOK, Unique, Ledger, [Next]_vars
  PROVE  Ledger'
<1>1. CASE PublishFrontierJob
  BY <1>1, LedgerPublishFrontierJob
<1>2. CASE PublishFrontierFails \/ Finish \/ TimeOut \/ ObserveCancel
  BY <1>2, LedgerEnds DEF PublishFrontierFails, Finish, TimeOut, Aggregate, ObserveCancel,
                          FinishCancelled
<1>3. CASE OpenResultConsumer
  <2>1. pc' = "failed" \/ pc' = "check"
    BY <1>3 DEF OpenResultConsumer
  <2> QED
    BY <1>3, <2>1, LedgerKept, LedgerEnds DEF OpenResultConsumer, locals
<1>4. CASE BeginWait \/ Poll
  BY <1>4, LedgerKept DEF BeginWait, Poll, locals
<1>5. ASSUME NEW j \in Job, RequeueStale(j) PROVE Ledger'
  BY <1>5, LedgerPublish DEF RequeueStale, Running
<1>6. ASSUME NEW j \in stream, NEW r \in TruthfulAnswers(j), Receive(r) PROVE Ledger'
  <2>1. r \in Result
    BY AnswerType DEF TypeOK
  <2> QED
    BY <1>6, <2>1, LedgerReceive
<1>7. CASE PublishChild
  BY <1>7, LedgerPublish DEF PublishChild, Running
<1>8. CASE PublishChildFails
  <2>1. [current EXCEPT !.status = "error"] \notin results
    <3>1. [current EXCEPT !.status = "error"].job = current.job
      BY <1>8 DEF PublishChildFails, HandlerOK, Result
    <3> QED
      BY <1>8, <3>1 DEF PublishChildFails, Unique
  <2> QED
    BY <1>8, <2>1, LedgerRecord DEF PublishChildFails, NextTurn, Running
<1>9. CASE CompleteSplit
  BY <1>9, LedgerCompleteSplit
<1>10. CASE Redelegate
  BY <1>10, LedgerPublish DEF Redelegate, NextTurn, Running
<1>11. CASE RedelegateFails
  <2>1. current \notin results
    BY <1>11 DEF RedelegateFails, Unique
  <2> QED
    BY <1>11, <2>1, LedgerRecord DEF RedelegateFails, NextTurn, Running
<1>12. ASSUME NEW j, RequeueStaleFails(j) \/ WorkerProgress(j) PROVE Ledger'
  BY <1>12, LedgerKept DEF RequeueStaleFails, WorkerProgress, locals
<1>13. CASE RequestCancel \/ CancelFrame
  BY <1>13, LedgerKept DEF RequestCancel, CancelFrame, MarkCancelling, locals
<1>14. CASE RecordCancel \/ UNCHANGED vars
  BY <1>14, LedgerKept DEF RecordCancel, vars, locals
<1> QED
  BY <1>1, <1>2, <1>3, <1>4, <1>5, <1>6, <1>7, <1>8, <1>9, <1>10, <1>11, <1>12, <1>13,
     <1>14 DEF Next, MasterStep

LEMMA LedgerInit == Init => Ledger
<1> SUFFICES ASSUME Init PROVE Ledger
  OBVIOUS
<1>1. PICK F \in Frontiers :
        /\ unsent = [i \in DOMAIN F |-> FirstTry(F[i])]
        /\ count = [expected |-> Len(F), published |-> Len(F), redelegated |-> 0, split |-> 0]
        /\ entry = [status |-> "running", finished |-> FALSE, cancelRequested |-> FALSE,
                    expected |-> Len(F), published |-> 0, completed |-> 0,
                    redelegated |-> 0, split |-> 0]
  BY DEF Init
<1>2. F \in Seq(Node) /\ Len(F) \in Nat
  BY SolveAssumption, LenProperties
<1>3. Len(unsent) = Len(F)
  BY <1>1, <1>2, FirstTries
<1>4. results = {} /\ Cardinality({}) = 0
  BY FS_EmptySet DEF Init
<1> QED
  BY <1>1, <1>2, <1>3, <1>4 DEF Init, Ledger

LEMMA LedgerAlways == Spec => []Ledger
<1>1. IInv /\ Unique /\ Ledger /\ [Next]_vars => Ledger'
  BY LedgerStep DEF IInv
<1> QED
  BY <1>1, LedgerInit, UniqueAlways, Inductive, PTL DEF Spec

(* Between two results the registry's counters are the task's own, so a     *)
(* cancelled solve and a finished one report the same numbers.              *)
THEOREM RegistryKept == Spec => []RegistryAgrees
<1>1. TypeOK /\ Ledger => RegistryAgrees
  BY DEF TypeOK, Entry, Ledger, RegistryAgrees, Running
<1>2. IInv /\ Ledger => RegistryAgrees
  BY <1>1 DEF IInv
<1> QED
  BY <1>2, LedgerAlways, Inductive, PTL

-----------------------------------------------------------------------------
(* A solve whose entry is finished has ended.                               *)

Closed == entry.finished => pc = "done"

(* What may still happen to a task that has ended.                          *)
Aftermath ==
  \/ \E j \in Job : WorkerProgress(j)
  \/ RequestCancel
  \/ CancelFrame
  \/ RecordCancel
  \/ UNCHANGED vars

LEMMA EndIsFinal ==
  ASSUME pc = "done", [Next]_vars
  PROVE  Aftermath
<1>1. ~MasterStep
  <2>1. ~(\E j \in stream : \E r \in TruthfulAnswers(j) : Receive(r))
    BY DEF Receive, IgnoreResult, ReceiveCancelled, ReceiveTerminal, ReceiveSplit,
           ReceiveFailed, Accept
  <2>2. ~(\E j \in Job : RequeueStale(j) \/ RequeueStaleFails(j))
    BY DEF RequeueStale, RequeueStaleFails
  <2> QED
    BY <2>1, <2>2 DEF MasterStep, PublishFrontierJob, PublishFrontierFails,
       OpenResultConsumer, ObserveCancel, Finish, BeginWait, TimeOut, Poll, PublishChild,
       PublishChildFails, CompleteSplit, Redelegate, RedelegateFails
<1> QED
  BY <1>1 DEF Next, Aftermath

LEMMA ClosedStep ==
  ASSUME TypeOK, Closed, [Next]_vars
  PROVE  Closed'
<1>1. CASE pc = "done"
  BY <1>1, EndIsFinal DEF Aftermath, Closed, WorkerProgress, RequestCancel, CancelFrame,
                          MarkCancelling, RecordCancel, vars
<1>2. CASE pc # "done"
  <2> DEFINE Goal == pc' = "done" \/ entry'.finished = entry.finished
  <2> SUFFICES Goal
    BY <1>2 DEF Closed
  <2>1. CASE UNCHANGED entry \/ pc' = "done"
    BY <2>1
  <2>2. CASE entry' \in {OnePublished(entry), OneRetry(OnePublished(entry)),
                         OneMoreToCome(OneSplit(entry)),
                         [entry EXCEPT !.completed = @ + 1]}
    BY <2>2 DEF TypeOK, Entry, OnePublished, OneRetry, OneSplit, OneMoreToCome
  <2>3. CASE MarkCancelling
    BY <2>3 DEF MarkCancelling, TypeOK, Entry
  <2>4. ASSUME NEW r, Receive(r) PROVE Goal
    <3>1. CASE ReceiveCancelled(r)
      BY <3>1 DEF ReceiveCancelled, FinishCancelled
    <3>2. CASE ReceiveTerminal(r)
      BY <2>2, <3>2 DEF ReceiveTerminal, RecordTerminal
    <3>3. CASE IgnoreResult(r) \/ ReceiveSplit(r) \/ ReceiveFailed(r)
      BY <2>1, <3>3 DEF IgnoreResult, ReceiveSplit, ReceiveFailed
    <3> QED
      BY <2>4, <3>1, <3>2, <3>3 DEF Receive
  <2>5. ASSUME NEW j, RequeueStale(j) \/ RequeueStaleFails(j) \/ WorkerProgress(j)
        PROVE  Goal
    BY <2>1, <2>2, <2>5 DEF RequeueStale, RequeueStaleFails, WorkerProgress
  <2>6. CASE Finish \/ TimeOut \/ ObserveCancel
    BY <2>6 DEF Finish, TimeOut, Aggregate, ObserveCancel, FinishCancelled
  <2>7. CASE \/ PublishFrontierFails \/ OpenResultConsumer \/ BeginWait \/ Poll
             \/ RecordCancel \/ UNCHANGED vars
    BY <2>1, <2>7 DEF PublishFrontierFails, OpenResultConsumer, BeginWait, Poll,
                      RecordCancel, vars
  <2>8. CASE \/ PublishFrontierJob \/ PublishChild \/ PublishChildFails \/ CompleteSplit
             \/ Redelegate \/ RedelegateFails
    BY <2>2, <2>8 DEF PublishFrontierJob, PublishChild, PublishChildFails, RecordTerminal,
                      CompleteSplit, Redelegate, RedelegateFails
  <2>9. CASE RequestCancel \/ CancelFrame
    BY <2>3, <2>9 DEF RequestCancel, CancelFrame
  <2> QED
    BY <2>4, <2>5, <2>6, <2>7, <2>8, <2>9 DEF Next, MasterStep
<1> QED
  BY <1>1, <1>2

(* What a finished solve reports stays, whatever frames and cancel requests *)
(* still come in.                                                           *)
THEOREM FinalAnswer == Spec => FinishedIsFinal
<1> DEFINE Goal == entry.finished =>
                     /\ response' = response
                     /\ [entry' EXCEPT !.cancelRequested = FALSE]
                        = [entry EXCEPT !.cancelRequested = FALSE]
<1>1. ASSUME TypeOK, Closed, [Next]_vars, entry.finished
      PROVE  /\ response' = response
             /\ [entry' EXCEPT !.cancelRequested = FALSE]
                = [entry EXCEPT !.cancelRequested = FALSE]
  <2>1. Aftermath
    BY <1>1, EndIsFinal DEF Closed
  <2>2. CASE MarkCancelling
    <3>1. entry' = [entry EXCEPT !.cancelRequested = TRUE]
      BY <1>1, <2>2 DEF MarkCancelling, TypeOK, Entry
    <3> QED
      BY <2>2, <3>1 DEF MarkCancelling, TypeOK, Entry
  <2>3. CASE UNCHANGED <<entry, response>>
    BY <2>3
  <2> QED
    BY <2>1, <2>2, <2>3 DEF Aftermath, WorkerProgress, RequestCancel, CancelFrame,
                            RecordCancel, vars
<1>2. IInv /\ Closed /\ [Next]_vars => [Goal]_vars
  BY <1>1 DEF IInv
<1>3. Init => Closed
  BY DEF Init, Closed
<1>4. IInv /\ Closed /\ [Next]_vars => Closed'
  BY ClosedStep DEF IInv
<1> QED
  BY <1>2, <1>3, <1>4, Inductive, PTL DEF Spec, FinishedIsFinal
-----------------------------------------------------------------------------
(* Counting by original subproblem: as long as no split stayed half         *)
(* published, every unit of jobs_expected is a result or a live attempt.    *)

Exact == Running /\ ~HalfSplit => Cardinality(results) + Cardinality(Live) = Room

(* In the middle of a split each child is unsent or expected.               *)
KidsPlaced ==
  pc = "split" =>
    {FirstTry(Kids[current.job.node][1]), FirstTry(Kids[current.job.node][2])}
      \subseteq NodesIn(unsent) \cup expected

(* A half published split stays one.                                        *)
LEMMA HalfKept ==
  ASSUME results \subseteq results', NodesOf(expected) \subseteq NodesOf(expected'), HalfSplit
  PROVE  HalfSplit'
<1>1. PICK r \in results, k \in expected :
        r.status = "error" /\ k.node \in Below[r.job.node] \ {r.job.node}
  BY DEF HalfSplit
<1>2. PICK i \in expected' : i.node = k.node
  BY <1>1 DEF NodesOf
<1> QED
  BY <1>1, <1>2 DEF HalfSplit

LEMMA ExactKept ==
  ASSUME Exact, results' = results, NodesOf(expected) \subseteq NodesOf(expected'),
         Running' => Running /\ Room' = Room /\ Cardinality(Live') = Cardinality(Live)
  PROVE  Exact'
BY HalfKept DEF Exact

LEMMA ExactIdle ==
  ASSUME Exact, UNCHANGED locals,
         pc' = pc \/ {pc, pc'} \subseteq {"publish", "check", "wait"}
  PROVE  Exact'
<1>1. Live' = Live /\ Room' = Room /\ (Running' => Running)
  BY DEF Live, Outstanding, Room, Running, locals
<1> QED
  BY <1>1, ExactKept DEF locals

LEMMA ExactEnds ==
  ASSUME pc' \in {"done", "failed"}
  PROVE  Exact'
BY DEF Exact, Running

(* Replacing a live attempt by attempts within its subtree.                 *)
LEMMA SwapCount ==
  ASSUME NEW L \in SUBSET Job, IsFiniteSet(L), Apart(L), NEW a \in L,
         NEW K \in SUBSET Job, IsFiniteSet(K),
         \A k \in K : Below[k.node] \subseteq Below[a.node]
  PROVE  Cardinality((L \ {a}) \cup K) = Cardinality(L) - 1 + Cardinality(K)
<1>1. (L \ {a}) \cap K = {}
  <2> SUFFICES ASSUME NEW x \in (L \ {a}) \cap K PROVE FALSE
    OBVIOUS
  <2>1. x.node \in Below[x.node] /\ Below[x.node] \cap Below[a.node] = {}
    BY TreeAssumption, JobFacts DEF TreeShape, Apart
  <2> QED
    BY <2>1
<1>2. IsFiniteSet(L \ {a}) /\ Cardinality(L \ {a}) = Cardinality(L) - 1
  BY FS_RemoveElement
<1>3. Cardinality((L \ {a}) \cup K)
        = Cardinality(L \ {a}) + Cardinality(K) - Cardinality((L \ {a}) \cap K)
  BY <1>2, FS_Union
<1>4. Cardinality({}) = 0 /\ Cardinality(L) \in Nat /\ Cardinality(K) \in Nat
  BY FS_EmptySet, FS_CardinalityType
<1> QED
  BY <1>1, <1>2, <1>3, <1>4

LEMMA SingleCount == \A x : IsFiniteSet({x}) /\ Cardinality({x}) = 1
BY FS_Singleton

LEMMA PairCount ==
  ASSUME NEW x, NEW y, x # y
  PROVE  IsFiniteSet({x, y}) /\ Cardinality({x, y}) = 2
<1>1. IsFiniteSet({x}) /\ Cardinality({x}) = 1
  BY SingleCount
<1>2. /\ IsFiniteSet({x} \cup {y})
      /\ Cardinality({x} \cup {y}) = IF y \in {x} THEN Cardinality({x}) ELSE Cardinality({x}) + 1
  BY <1>1, Zenon, FS_AddElement
<1>3. y \notin {x} /\ {x, y} = {x} \cup {y}
  OBVIOUS
<1>4. Cardinality({x} \cup {y}) = Cardinality({x}) + 1
  BY <1>2, <1>3, Zenon
<1>5. Cardinality({x, y}) = 1 + 1
  BY <1>1, <1>3, <1>4, Zenon
<1> QED
  BY <1>2, <1>3, <1>5

(* The two children are two.                                                *)
LEMMA KidsCount ==
  ASSUME NEW a \in Job, Kids[a.node] # <<>>
  PROVE  LET K == {FirstTry(Kids[a.node][1]), FirstTry(Kids[a.node][2])}
         IN  IsFiniteSet(K) /\ Cardinality(K) = 2
<1> DEFINE l == FirstTry(Kids[a.node][1])
           r == FirstTry(Kids[a.node][2])
<1>1. l # r
  <2>1. a.node \in Node /\ Kids[a.node][1] \in Node /\ Kids[a.node][2] \in Node
    BY JobFacts, KidsFacts
  <2>2. /\ Kids[a.node][1] \in Below[Kids[a.node][1]]
        /\ Kids[a.node][2] \in Below[Kids[a.node][2]]
        /\ Below[Kids[a.node][1]] \cap Below[Kids[a.node][2]] = {}
    BY <2>1, TreeAssumption DEF TreeShape
  <2>3. l.node = Kids[a.node][1] /\ r.node = Kids[a.node][2]
    BY DEF FirstTry
  <2> QED
    BY <2>2, <2>3
<1> HIDE DEF l, r
<1>2. IsFiniteSet({l, r}) /\ Cardinality({l, r}) = 2
  BY <1>1, PairCount
<1> QED
  BY <1>2 DEF l, r

LEMMA ExactRequeueStale ==
  ASSUME TypeOK, HandlerOK, CoreInv, Exact, NEW j \in Job, RequeueStale(j)
  PROVE  Exact'
<1> DEFINE k == NextTry(j)
<1>1. k \in Job /\ k.node = j.node /\ Below[k.node] \subseteq Below[j.node]
  BY NextTryReplaces DEF RequeueStale
<1>2. pc = "wait" /\ pc' = "wait" /\ results' = results /\ completed' = completed
      /\ expected' = (expected \ {j}) \cup {k}
  BY DEF RequeueStale, Supersede
<1>3. Running /\ Room' = Room
  BY <1>2, CounterValues DEF RequeueStale, Running, Room, TypeOK
<1>4. j \in Live /\ Live = Outstanding /\ Apart(Live) /\ Live \subseteq Job
      /\ IsFiniteSet(Live)
  BY <1>2, <1>3, LiveType DEF RequeueStale, Live, CoreInv, CoreOK
<1>5. k \notin completed
  BY <1>3, <1>4, LiveIsFresh DEF RequeueStale, Spent
<1>6. Live' = (Live \ {j}) \cup {k}
  BY <1>2, <1>4, <1>5 DEF Live, Outstanding
<1>7. Cardinality(Live') = Cardinality(Live)
  <2> HIDE DEF k
  <2>1. IsFiniteSet({k}) /\ Cardinality({k}) = 1
    BY SingleCount
  <2>2. Cardinality(Live') = Cardinality(Live) - 1 + Cardinality({k})
    BY <1>1, <1>4, <1>6, <2>1, SwapCount
  <2>3. Cardinality(Live) \in Nat
    BY <1>4, FS_CardinalityType
  <2> QED
    BY <2>1, <2>2, <2>3
<1>8. NodesOf(expected) \subseteq NodesOf(expected')
  BY <1>1, <1>2 DEF NodesOf
<1> QED
  BY <1>2, <1>3, <1>7, <1>8, ExactKept

LEMMA ExactReceive ==
  ASSUME TypeOK, HandlerOK, CoreInv, Unique, Exact, NEW r \in Result, Truthful(r), Receive(r)
  PROVE  Exact'
<1> DEFINE a == r.job
<1>0. /\ a \in Job /\ Live \subseteq Job /\ IsFiniteSet(Live) /\ Cardinality(Live) \in Nat
      /\ Running => Apart(Live)
  BY LiveType, FS_CardinalityType DEF CoreInv, CoreOK, Result
<1>1. CASE IgnoreResult(r)
  BY <1>1, ExactIdle DEF IgnoreResult
<1>2. CASE ReceiveCancelled(r)
  BY <1>2, ExactEnds DEF ReceiveCancelled, FinishCancelled
<1>3. CASE ReceiveTerminal(r)
  <2>1. /\ Accept(r) /\ pc' = "check" /\ expected' = expected /\ count' = count
        /\ results' = results \cup {r}
    BY <1>3 DEF ReceiveTerminal, RecordTerminal
  <2>2. pc = "wait" /\ Running /\ a \in Live /\ Live = Outstanding
    BY <2>1, Accepting
  <2>3. Live' = Live \ {a} /\ Room' = Room
    BY <2>1, <2>2, Accepting DEF Live, Outstanding, Room
  <2>4. Cardinality(Live') = Cardinality(Live) - 1
    BY <1>0, <2>2, <2>3, FS_RemoveElement
  <2>5. r \notin results
    BY <2>1 DEF Accept, Accepted, Unique
  <2>6. Cardinality(results') = Cardinality(results) + 1 /\ Cardinality(results) \in Nat
    BY <2>1, <2>5, FS_AddElement, FS_CardinalityType DEF TypeOK
  <2>7. HalfSplit => HalfSplit'
    BY <2>1, HalfKept
  <2> QED
    BY <1>0, <2>2, <2>3, <2>4, <2>6, <2>7 DEF Exact
<1>4. CASE ReceiveSplit(r)
  <2> DEFINE K == {FirstTry(Kids[a.node][1]), FirstTry(Kids[a.node][2])}
  <2>1. /\ Accept(r) /\ pc' = "split" /\ expected' = expected /\ count' = count
        /\ results' = results /\ Kids[a.node] # <<>>
    BY <1>4 DEF ReceiveSplit, Truthful
  <2>2. pc = "wait" /\ Running /\ a \in Live /\ Live = Outstanding
    BY <2>1, Accepting
  <2>3. NodesIn(unsent') = K
    BY <1>0, <1>4, <2>1, JobFacts, TryKids DEF ReceiveSplit
  <2>4. Live' = (Live \ {a}) \cup K
    BY <2>1, <2>2, <2>3, Accepting DEF Live, Outstanding
  <2>5. Room = count.expected /\ Room' = count.expected + 1 /\ count.expected \in Nat
    BY <2>1, <2>2 DEF Room, TypeOK, Counts
  <2>6. /\ K \in SUBSET Job /\ IsFiniteSet(K) /\ Cardinality(K) = 2
        /\ \A k \in K : Below[k.node] \subseteq Below[a.node]
    BY <1>0, <2>1, KidsReplace, KidsCount
  <2> HIDE DEF K
  <2>7. Cardinality(Live') = Cardinality(Live) - 1 + 2
    BY <1>0, <2>2, <2>4, <2>6, SwapCount
  <2>8. HalfSplit => HalfSplit'
    BY <2>1, HalfKept
  <2>9. Cardinality(results) \in Nat
    BY FS_CardinalityType DEF TypeOK
  <2> QED
    BY <1>0, <2>1, <2>2, <2>5, <2>7, <2>8, <2>9 DEF Exact
<1>5. CASE ReceiveFailed(r)
  <2> DEFINE k == NextTry(a)
  <2>1. /\ Accept(r) /\ pc' = "redelegate" /\ current' = r /\ expected' = expected
        /\ count' = count /\ results' = results /\ a.retry < MaxAttempts
    BY <1>0, <1>5, JobFacts, SolveAssumption DEF ReceiveFailed, ShouldRedelegate
  <2>2. pc = "wait" /\ Running /\ a \in Live /\ Live = Outstanding
    BY <2>1, Accepting
  <2>3. Live' = (Live \ {a}) \cup {k} /\ Room' = Room
    BY <2>1, <2>2, Accepting DEF Live, Outstanding, Room
  <2>4. k \in Job /\ Below[k.node] \subseteq Below[a.node]
    BY <1>0, <2>1, NextTryReplaces
  <2> HIDE DEF k
  <2>5. IsFiniteSet({k}) /\ Cardinality({k}) = 1
    BY SingleCount
  <2>6. Cardinality(Live') = Cardinality(Live) - 1 + Cardinality({k})
    BY <1>0, <2>2, <2>3, <2>4, <2>5, SwapCount
  <2>7. Cardinality(Live') = Cardinality(Live)
    BY <1>0, <2>5, <2>6
  <2> QED
    BY <2>1, <2>2, <2>3, <2>7, ExactKept
<1> QED
  BY <1>1, <1>2, <1>3, <1>4, <1>5 DEF Receive

(* The parent of an unpublished pair takes the place of both; once a child  *)
(* is out the split is half published.                                      *)
LEMMA ExactPublishChildFails ==
  ASSUME TypeOK, HandlerOK, Unique, KidsPlaced, Exact, PublishChildFails
  PROVE  Exact'
<1> DEFINE r == [current EXCEPT !.status = "error"]
           a == current.job
           K == {FirstTry(Kids[a.node][1]), FirstTry(Kids[a.node][2])}
<1>1. /\ a \in Job /\ Kids[a.node] # <<>> /\ r.job = a /\ r.status = "error"
      /\ NodesIn(unsent) \subseteq K
  BY DEF PublishChildFails, HandlerOK, Truthful, Result
<1>2. /\ pc = "split" /\ pc' = "check" /\ expected' = expected /\ completed' = completed
      /\ results' = results \cup {r} /\ count' = count /\ Running
  BY DEF PublishChildFails, RecordTerminal, NextTurn, Running
<1>3. Live' = Outstanding /\ Live = Outstanding \cup NodesIn(unsent)
  BY <1>2 DEF Live, Outstanding
<1>4. Room = count.expected + 1 /\ Room' = count.expected /\ count.expected \in Nat
  BY <1>2 DEF Room, TypeOK, Counts
<1>5. Cardinality(results') = Cardinality(results) + 1 /\ Cardinality(results) \in Nat
  <2>1. r \notin results
    BY <1>1, <1>2 DEF Unique
  <2> HIDE DEF r
  <2> QED
    BY <1>2, <2>1, FS_AddElement, FS_CardinalityType DEF TypeOK
<1>6. HalfSplit => HalfSplit'
  BY <1>2, HalfKept
<1>7. ASSUME ~HalfSplit' PROVE Cardinality(Live) = Cardinality(Live') + 2
  <2>1. \A k \in K : k.node \in Below[a.node] \ {a.node}
    <3>1. K \in SUBSET Job /\ \A k \in K : Below[k.node] \subseteq Below[a.node]
      BY <1>1, KidsReplace
    <3>2. \A k \in K : k.node # a.node
      BY <1>1, KidNodes
    <3> HIDE DEF K
    <3> QED
      BY <3>1, <3>2, TreeAssumption, JobFacts DEF TreeShape
  <2>2. K \cap expected = {}
    <3> HIDE DEF K
    <3>1. r \in results' /\ r.status = "error" /\ r.job = a
      BY <1>1, <1>2
    <3> QED
      BY <1>2, <1>7, <2>1, <3>1 DEF HalfSplit
  <2>3. NodesIn(unsent) = K
    BY <1>1, <1>2, <2>2 DEF KidsPlaced
  <2>4. IsFiniteSet(K) /\ Cardinality(K) = 2
    BY <1>1, KidsCount
  <2> HIDE DEF K
  <2>5. IsFiniteSet(Outstanding) /\ Outstanding \cap K = {}
    BY <2>2, FS_Subset DEF TypeOK, Outstanding
  <2>6. Cardinality(Outstanding \cup K)
          = Cardinality(Outstanding) + Cardinality(K) - Cardinality(Outstanding \cap K)
    BY <2>4, <2>5, FS_Union
  <2>7. Cardinality({}) = 0 /\ Cardinality(Outstanding) \in Nat
    BY <2>5, FS_EmptySet, FS_CardinalityType
  <2>8. Cardinality(Outstanding \cup K) = Cardinality(Outstanding) + 2
    BY <2>4, <2>5, <2>6, <2>7
  <2> QED
    BY <1>3, <2>3, <2>8
<1>8. Cardinality(Live') \in Nat
  BY <1>3, FS_Subset, FS_CardinalityType DEF TypeOK, Outstanding
<1> QED
  BY <1>2, <1>4, <1>5, <1>6, <1>7, <1>8 DEF Exact

LEMMA ExactRedelegateFails ==
  ASSUME TypeOK, HandlerOK, Unique, Exact, RedelegateFails
  PROVE  Exact'
<1> DEFINE k == NextTry(current.job)
<1>1. /\ pc = "redelegate" /\ pc' = "check" /\ expected' = expected /\ completed' = completed
      /\ results' = results \cup {current} /\ count' = count /\ Running
  BY DEF RedelegateFails, RecordTerminal, NextTurn, Running
<1>2. k.node = current.job.node
  BY <1>1 DEF HandlerOK, Result, Job, NextTry
<1>3. Live' = Outstanding /\ Live = Outstanding \cup {k} /\ Room' = Room
  BY <1>1 DEF Live, Outstanding, Room
<1>4. k \notin Outstanding /\ current \notin results
  BY <1>1, <1>2 DEF Unique
<1>5. Cardinality(results') = Cardinality(results) + 1 /\ Cardinality(results) \in Nat
  BY <1>1, <1>4, FS_AddElement, FS_CardinalityType DEF TypeOK
<1>6. Cardinality(Live) = Cardinality(Live') + 1 /\ Cardinality(Live') \in Nat
  <2> HIDE DEF k
  <2>1. IsFiniteSet(Outstanding)
    BY FS_Subset DEF TypeOK, Outstanding
  <2> QED
    BY <1>3, <1>4, <2>1, FS_AddElement, FS_CardinalityType
<1>7. HalfSplit => HalfSplit'
  BY <1>1, HalfKept
<1> QED
  BY <1>1, <1>3, <1>5, <1>6, <1>7 DEF Exact

LEMMA ExactStep ==
  ASSUME TypeOK, HandlerOK, CoreInv, Unique, KidsPlaced, Exact, [Next]_vars
  PROVE  Exact'
<1>1. CASE PublishFrontierJob
  <2>1. /\ pc' = pc /\ Room' = Room /\ Live' = Live /\ results' = results
        /\ expected' = expected
    BY <1>1 DEF PublishFrontierJob, Live, Outstanding, Room
  <2> QED
    BY <2>1, ExactKept DEF Running
<1>2. CASE PublishFrontierFails \/ Finish \/ TimeOut \/ ObserveCancel
  BY <1>2, ExactEnds DEF PublishFrontierFails, Finish, TimeOut, Aggregate, ObserveCancel,
                         FinishCancelled
<1>3. CASE OpenResultConsumer
  <2>1. pc' = "failed" \/ {pc, pc'} \subseteq {"publish", "check", "wait"}
    BY <1>3 DEF OpenResultConsumer
  <2> QED
    BY <1>3, <2>1, ExactIdle, ExactEnds DEF OpenResultConsumer
<1>4. CASE BeginWait \/ Poll
  BY <1>4, ExactIdle DEF BeginWait, Poll
<1>5. ASSUME NEW j \in Job, RequeueStale(j) PROVE Exact'
  BY <1>5, ExactRequeueStale
<1>6. ASSUME NEW j \in stream, NEW r \in TruthfulAnswers(j), Receive(r) PROVE Exact'
  <2>1. r \in Result /\ Truthful(r)
    BY AnswerType DEF TypeOK
  <2> QED
    BY <1>6, <2>1, ExactReceive
<1>7. CASE PublishChild
  <2>1. Running /\ Room' = Room /\ Live' = Live
    BY <1>7, PublishChildLive
  <2>2. results' = results /\ expected \subseteq expected'
    BY <1>7 DEF PublishChild
  <2> QED
    BY <2>1, <2>2, ExactKept DEF NodesOf
<1>8. CASE PublishChildFails
  BY <1>8, ExactPublishChildFails
<1>9. CASE CompleteSplit
  <2>1. Running /\ Room' = Room /\ Live' = Live
    BY <1>9, CompleteSplitLive
  <2>2. results' = results /\ expected' = expected
    BY <1>9 DEF CompleteSplit
  <2> QED
    BY <2>1, <2>2, ExactKept
<1>10. CASE Redelegate
  <2>1. Running /\ Room' = Room /\ Live' = Live
    BY <1>10, RedelegateLive
  <2>2. results' = results /\ expected \subseteq expected'
    BY <1>10 DEF Redelegate
  <2> QED
    BY <2>1, <2>2, ExactKept DEF NodesOf
<1>11. CASE RedelegateFails
  BY <1>11, ExactRedelegateFails
<1>12. CASE UNCHANGED <<pc, locals>>
  BY <1>12, ExactIdle
<1>13. ASSUME NEW j, RequeueStaleFails(j) \/ WorkerProgress(j) PROVE Exact'
  BY <1>12, <1>13 DEF RequeueStaleFails, WorkerProgress
<1>14. CASE RequestCancel \/ CancelFrame \/ RecordCancel \/ UNCHANGED vars
  BY <1>12, <1>14 DEF RequestCancel, CancelFrame, MarkCancelling, RecordCancel, vars, locals
<1> QED
  BY <1>1, <1>2, <1>3, <1>4, <1>5, <1>6, <1>7, <1>8, <1>9, <1>10, <1>11, <1>13, <1>14
     DEF Next, MasterStep

LEMMA KidsPlacedStep ==
  ASSUME TypeOK, KidsPlaced, [Next]_vars
  PROVE  KidsPlaced'
<1>1. CASE PublishChild
  <2>1. /\ NodesIn(unsent) = {Head(unsent)} \cup NodesIn(unsent')
        /\ expected' = expected \cup {Head(unsent)}
        /\ pc = "split" /\ current' = current
    BY <1>1, HeadTailNodes DEF PublishChild, TypeOK
  <2> QED
    BY <2>1 DEF KidsPlaced
<1>2. ASSUME NEW j \in stream, NEW r \in TruthfulAnswers(j), Receive(r) PROVE KidsPlaced'
  <2>1. r.job \in Job /\ Truthful(r)
    BY AnswerType DEF TypeOK, Result
  <2>2. CASE ReceiveSplit(r)
    <3>1. Kids[r.job.node] # <<>> /\ current' = r
      BY <2>1, <2>2 DEF ReceiveSplit, Truthful
    <3>2. NodesIn(unsent') = {FirstTry(Kids[r.job.node][1]), FirstTry(Kids[r.job.node][2])}
      BY <2>1, <2>2, <3>1, JobFacts, TryKids DEF ReceiveSplit
    <3> QED
      BY <3>1, <3>2 DEF KidsPlaced
  <2>3. CASE ~ReceiveSplit(r)
    <3>1. pc' # "split"
      BY <1>2, <2>3 DEF Receive, IgnoreResult, ReceiveCancelled, FinishCancelled,
                        ReceiveTerminal, ReceiveFailed
    <3> QED
      BY <3>1 DEF KidsPlaced
  <2> QED
    BY <2>2, <2>3
<1>3. CASE UNCHANGED <<pc, locals>>
  BY <1>3 DEF KidsPlaced, locals
<1>4. ASSUME NEW j, RequeueStaleFails(j) \/ WorkerProgress(j) PROVE KidsPlaced'
  BY <1>3, <1>4 DEF RequeueStaleFails, WorkerProgress
<1>5. CASE RequestCancel \/ CancelFrame \/ RecordCancel \/ UNCHANGED vars
  BY <1>3, <1>5 DEF RequestCancel, CancelFrame, MarkCancelling, RecordCancel, vars, locals
<1>6. CASE \/ \E j \in Job : RequeueStale(j)
           \/ PublishFrontierJob \/ PublishFrontierFails \/ OpenResultConsumer \/ ObserveCancel
           \/ Finish \/ BeginWait \/ TimeOut \/ Poll \/ PublishChildFails \/ CompleteSplit
           \/ Redelegate \/ RedelegateFails
  <2>1. pc' # "split"
    BY <1>6 DEF RequeueStale, PublishFrontierJob, PublishFrontierFails, OpenResultConsumer,
                ObserveCancel, FinishCancelled, Finish, Aggregate, BeginWait, TimeOut, Poll,
                PublishChildFails, CompleteSplit, Redelegate, RedelegateFails, NextTurn
  <2> QED
    BY <2>1 DEF KidsPlaced
<1> QED
  BY <1>1, <1>2, <1>4, <1>5, <1>6 DEF Next, MasterStep

(* A frontier has no node twice.                                            *)
LEMMA ExactInit == Init => Exact
<1> SUFFICES ASSUME Init PROVE Exact
  OBVIOUS
<1>1. PICK F \in Frontiers :
        /\ unsent = [i \in DOMAIN F |-> FirstTry(F[i])]
        /\ expected = NodesIn(unsent)
        /\ count = [expected |-> Len(F), published |-> Len(F), redelegated |-> 0, split |-> 0]
  BY DEF Init
<1>2. /\ F \in Seq(Node) /\ Len(F) \in Nat /\ DOMAIN F = 1..Len(F)
      /\ \A i, j \in DOMAIN F : i # j => F[i] # F[j]
  BY SolveAssumption, LenProperties
<1>3. unsent \in Bijection(1..Len(F), expected)
  <2>1. \A i, j \in DOMAIN F : unsent[i] = unsent[j] => i = j
    BY <1>1, <1>2 DEF FirstTry
  <2> QED
    BY <1>1, <1>2, <2>1 DEF NodesIn, Bijection, Injection, Surjection, IsInjective
<1>4. IsFiniteSet(1..Len(F)) /\ Cardinality(1..Len(F)) = Len(F)
  BY <1>2, FS_Interval
<1>5. Cardinality(expected) = Len(F)
  BY <1>3, <1>4, FS_Bijection DEF ExistsBijection
<1>6. pc = "publish" /\ completed = {} /\ results = {} /\ Cardinality({}) = 0
  BY FS_EmptySet DEF Init
<1>7. Live = expected /\ Room = Len(F)
  BY <1>1, <1>2, <1>6 DEF Live, Outstanding, Room
<1> QED
  BY <1>2, <1>5, <1>6, <1>7 DEF Exact

(* jobs_expected counts originals: the results in hand and the attempts     *)
(* still live, no retry and no answered split among them.                   *)
THEOREM CountsExact == Spec => []CountsOriginals
<1>1. IInv /\ Unique /\ KidsPlaced /\ Exact /\ [Next]_vars => KidsPlaced' /\ Exact'
  BY KidsPlacedStep, ExactStep, CoreParts DEF IInv
<1>2. Init => KidsPlaced /\ Exact
  BY ExactInit DEF Init, KidsPlaced
<1>3. Exact => CountsOriginals
  BY DEF Exact, CountsOriginals, Room
<1> QED
  BY <1>1, <1>2, <1>3, Inductive, UniqueAlways, PTL DEF Spec

-----------------------------------------------------------------------------
(* Every behaviour of MasterSolve is a behaviour of SolveContract: what     *)
(* the solve has explored and found comes from the results vector, and the  *)
(* answer from the response.                                                *)

Unexplored == Pts[Root] \ Explored(results)
Found == {r.x : r \in Feasible(results)}
AnswerOf == IF response = NoResponse
            THEN [status |-> "none", x |-> NoPoint]
            ELSE [status |-> response.status, x |-> response.x]

Abstract == <<Unexplored, Found, AnswerOf>>

(* A response is given once, at the end.                                    *)
NotYetAnswered == Running => response = NoResponse

RInv == IInv /\ NotYetAnswered

LEMMA NoPointAway == \A n \in Node : NoPoint \notin Pts[n]
BY SolveAssumption, TreeAssumption DEF TreeTypes

LEMMA RInvInit == Init => RInv
BY InvInit DEF RInv, NotYetAnswered, Init

LEMMA RefineInit == Init => Contract!ContractInit
<1> SUFFICES ASSUME Init PROVE Contract!ContractInit
  OBVIOUS
<1>1. results = {} /\ response = NoResponse
  BY DEF Init
<1>2. Explored(results) = {} /\ Feasible(results) = {}
  BY <1>1 DEF Explored, PtsOf, Feasible
<1> QED
  BY <1>1, <1>2 DEF Contract!ContractInit, Contract!NoAnswer

(* The abstract state is a function of the results and the response.        *)
LEMMA SameAbstract ==
  ASSUME results' = results, response' = response
  PROVE  UNCHANGED Contract!cvars
BY DEF Contract!cvars, Explored, Feasible, PtsOf

LEMMA ExploredAdd ==
  ASSUME NEW R, NEW r
  PROVE  /\ r.status \in {"optimal", "infeasible"} =>
              Explored(R \cup {r}) = Explored(R) \cup Pts[r.job.node]
         /\ r.status \notin {"optimal", "infeasible"} => Explored(R \cup {r}) = Explored(R)
BY DEF Explored, PtsOf

LEMMA FoundAdd ==
  ASSUME NEW R, NEW r
  PROVE  /\ r.x # NoPoint =>
              {s.x : s \in Feasible(R \cup {r})} = {s.x : s \in Feasible(R)} \cup {r.x}
         /\ r.x = NoPoint =>
              {s.x : s \in Feasible(R \cup {r})} = {s.x : s \in Feasible(R)}
BY DEF Feasible

(* A result kept is an exploration of its subtree, a point found, or        *)
(* nothing the caller can see.                                              *)
LEMMA RefineResult ==
  ASSUME NEW r, ResultTruthful(r), r.job.node \in Node, Pts[r.job.node] \subseteq Pts[Root],
         results' = results \cup {r}, response = NoResponse, response' = response
  PROVE  [Contract!ContractNext]_(Contract!cvars)
<1>1. AnswerOf = Contract!NoAnswer /\ AnswerOf' = AnswerOf
  BY DEF AnswerOf, Contract!NoAnswer
<1>2. Found' = IF r.x = NoPoint THEN Found ELSE Found \cup {r.x}
  BY FoundAdd DEF Found
<1>3. Unexplored' = IF r.status \in {"optimal", "infeasible"}
                    THEN Unexplored \ Pts[r.job.node] ELSE Unexplored
  BY ExploredAdd DEF Unexplored
<1>4. CASE r.status = "optimal"
  <2>1. IsBestOf(r.x, Pts[r.job.node]) /\ r.x \in Pts[r.job.node]
    BY <1>4 DEF ResultTruthful, Truthful, IsBestOf
  <2>2. r.x # NoPoint
    BY <2>1, NoPointAway
  <2>3. /\ Pts[r.job.node] \in SUBSET Pts[Root]
        /\ Unexplored' = Unexplored \ Pts[r.job.node]
        /\ Found' = Found \cup {r.x}
    BY <1>2, <1>3, <1>4, <2>2
  <2>4. Contract!Explore
    <3>1. \E y \in Pts[r.job.node] : /\ IsBestOf(y, Pts[r.job.node])
                                     /\ Unexplored' = Unexplored \ Pts[r.job.node]
                                     /\ Found' = Found \cup {y}
      BY <2>1, <2>3
    <3>2. \E region \in SUBSET Pts[Root] :
            \E y \in region : /\ IsBestOf(y, region)
                              /\ Unexplored' = Unexplored \ region
                              /\ Found' = Found \cup {y}
      BY <2>3, <3>1
    <3> QED
      <4>1. \A y, S : Contract!IsBestOf(y, S) <=> IsBestOf(y, S)
        BY DEF Contract!IsBestOf, IsBestOf
      <4> QED
        BY <1>1, <3>2, <4>1 DEF Contract!Explore, Unexplored, Found, AnswerOf
  <2> QED
    BY <2>4 DEF Contract!ContractNext
<1>5. CASE r.status = "infeasible"
  <2>1. Pts[r.job.node] = {} /\ r.x = NoPoint
    BY <1>5 DEF ResultTruthful, Truthful
  <2>2. Unexplored' = Unexplored /\ Found' = Found
    BY <1>2, <1>3, <2>1
  <2> QED
    BY <1>1, <2>2 DEF Contract!cvars, Unexplored, Found, AnswerOf
<1>6. CASE r.status \notin {"optimal", "infeasible"} /\ r.x = NoPoint
  <2>1. Unexplored' = Unexplored /\ Found' = Found
    BY <1>2, <1>3, <1>6
  <2> QED
    BY <1>1, <2>1 DEF Contract!cvars, Unexplored, Found, AnswerOf
<1>7. CASE r.status \notin {"optimal", "infeasible"} /\ r.x # NoPoint
  <2>1. r.x \in Pts[Root]
    BY <1>7 DEF ResultTruthful
  <2>2. Unexplored' = Unexplored /\ Found' = Found \cup {r.x}
    BY <1>2, <1>3, <1>7
  <2>3. Contract!FindPoint
    BY <1>1, <2>1, <2>2 DEF Contract!FindPoint, Unexplored, Found, AnswerOf
  <2> QED
    BY <2>3 DEF Contract!ContractNext
<1> QED
  BY <1>4, <1>5, <1>6, <1>7

(* The end of a solve, as the contract sees it.                             *)
LEMMA RefineCancel ==
  ASSUME response = NoResponse, FinishCancelled, results' = results
  PROVE  Contract!ContractNext
<1>1. AnswerOf = Contract!NoAnswer
  BY DEF AnswerOf, Contract!NoAnswer
<1>2. response'.status = "cancelled" /\ response'.x = NoPoint /\ response' # NoResponse
  <2>1. response'.status = "cancelled" /\ response'.x = NoPoint
    BY DEF FinishCancelled
  <2>2. NoResponse.status = "none"
    BY DEF NoResponse
  <2> QED
    BY <2>1, <2>2
<1>3. AnswerOf' = [status |-> "cancelled", x |-> NoPoint]
  BY <1>2 DEF AnswerOf
<1>4. Unexplored' = Unexplored /\ Found' = Found
  BY DEF Unexplored, Found, Explored, Feasible, PtsOf
<1>5. Contract!GiveAnswer
  BY <1>1, <1>3, <1>4 DEF Contract!GiveAnswer, Contract!AnswerCancelled, AnswerOf,
                          Unexplored, Found
<1> QED
  BY <1>5 DEF Contract!ContractNext

LEMMA StatusWithoutPoint ==
  ASSUME NEW R, NEW n, NEW t, Feasible(R) = {}
  PROVE  AggregateStatus(R, n, t) \in {"unbounded", "timeout", "error", "infeasible"}
BY DEF AggregateStatus

LEMMA StatusWithPoint ==
  ASSUME NEW R, NEW n, NEW t, Feasible(R) # {}
  PROVE  AggregateStatus(R, n, t) \in {"optimal", "feasible-partial"}
BY DEF AggregateStatus

LEMMA RefineAggregate ==
  ASSUME IInv, Running, pc # "split", response = NoResponse,
         NEW t \in BOOLEAN, Aggregate(t),
         ~t => Cardinality(results) >= count.expected
  PROVE  Contract!ContractNext
<1> DEFINE s == AggregateStatus(results, count.expected, t)
<1>0. TypeOK /\ HandlerOK /\ CoreInv /\ ResultsTruthful
  BY CoreParts DEF IInv
<1>1. PICK x \in IF Feasible(results) = {} THEN {NoPoint} ELSE BestPoints(results) :
         response'.status = s /\ response'.x = x
  BY DEF Aggregate
<1>2. s \in Answer
  BY StatusType
<1>3. AnswerOf = Contract!NoAnswer
  BY DEF AnswerOf, Contract!NoAnswer
<1>4. AnswerOf' = [status |-> s, x |-> x]
  <2>1. NoResponse.status = "none" /\ "none" \notin Answer
    BY DEF NoResponse, Answer
  <2>2. response' # NoResponse
    BY <1>1, <1>2, <2>1
  <2> QED
    BY <1>1, <2>2 DEF AnswerOf
<1>5. results' = results
  BY DEF Aggregate, locals
<1>6. Unexplored' = Unexplored /\ Found' = Found
  BY <1>5 DEF Unexplored, Found, Explored, Feasible, PtsOf
<1>7. (\A r \in results : r.status \in {"optimal", "infeasible"})
        /\ Cardinality(results) >= count.expected => Unexplored = {}
  <2> SUFFICES ASSUME \A r \in results : r.status \in {"optimal", "infeasible"},
                      Cardinality(results) >= count.expected
               PROVE  Unexplored = {}
    OBVIOUS
  <2>1. PtsOf({r.job.node : r \in results}) = Pts[Root]
    BY <1>0, NothingLive
  <2>2. {r \in results : r.status \in {"optimal", "infeasible"}} = results
    OBVIOUS
  <2>3. Explored(results) = Pts[Root]
    BY <2>1, <2>2 DEF Explored
  <2> QED
    BY <2>3 DEF Unexplored
<1> HIDE DEF s
<1>8. CASE Feasible(results) # {}
  <2>1. x \in Found /\ \A y \in Found : Obj[y] <= Obj[x]
    BY <1>1, <1>8 DEF BestPoints, Found
  <2>2. Contract!BestFound(x)
    BY <2>1 DEF Contract!BestFound, Found
  <2>3. s \in {"optimal", "feasible-partial"}
    BY <1>8, StatusWithPoint DEF s
  <2>4. CASE s = "optimal"
    <3>1. AllTerminal(results, count.expected, t)
      BY <2>4, StatusMeaning DEF s
    <3>2. Unexplored = {}
      BY <1>0, <1>7, <3>1 DEF AllTerminal, TypeOK, Counts
    <3>3. Contract!AnswerOptimal
      BY <1>4, <2>1, <2>2, <2>4, <3>2 DEF Contract!AnswerOptimal, Unexplored, Found, AnswerOf
    <3> QED
      BY <1>3, <1>6, <3>3 DEF Contract!ContractNext, Contract!GiveAnswer, Unexplored, Found,
                              AnswerOf
  <2>5. CASE s = "feasible-partial"
    <3>1. Contract!AnswerPartial
      BY <1>4, <2>1, <2>2, <2>5 DEF Contract!AnswerPartial, Found, AnswerOf
    <3> QED
      BY <1>3, <1>6, <3>1 DEF Contract!ContractNext, Contract!GiveAnswer, Unexplored, Found,
                              AnswerOf
  <2> QED
    BY <2>3, <2>4, <2>5
<1>9. CASE Feasible(results) = {}
  <2>1. Found = {} /\ x = NoPoint
    BY <1>1, <1>9 DEF Found
  <2>2. s \in {"unbounded", "timeout", "error", "infeasible"}
    BY <1>9, StatusWithoutPoint DEF s
  <2>3. CASE s = "infeasible"
    <3>1. /\ ~t
          /\ \A r \in results : r.status \notin {"unbounded", "error", "iter-limit",
                                                 "numerical-error"}
      BY <2>3, StatusMeaning DEF s
    <3>2. \A r \in results : r.status \in {"optimal", "infeasible"}
      BY <1>0, <3>1 DEF ResultsTruthful, TypeOK, Result, ResultStatus
    <3>3. Unexplored = {}
      BY <1>7, <3>1, <3>2
    <3>4. Contract!AnswerInfeasible
      BY <1>4, <2>1, <2>3, <3>3 DEF Contract!AnswerInfeasible, Unexplored, Found, AnswerOf
    <3> QED
      BY <1>3, <1>6, <3>4 DEF Contract!ContractNext, Contract!GiveAnswer, Unexplored, Found,
                              AnswerOf
  <2>4. CASE s \in {"unbounded", "timeout", "error"}
    <3>1. Contract!GiveUp
      BY <1>4, <2>1, <2>4 DEF Contract!GiveUp, Found, AnswerOf
    <3> QED
      BY <1>3, <1>6, <3>1 DEF Contract!ContractNext, Contract!GiveAnswer, Unexplored, Found,
                              AnswerOf
  <2> QED
    BY <2>2, <2>3, <2>4
<1> QED
  BY <1>8, <1>9

LEMMA AnsweredKept ==
  ASSUME NotYetAnswered, Running' => Running /\ response' = response
  PROVE  NotYetAnswered'
BY DEF NotYetAnswered

LEMMA RefineReceive ==
  ASSUME IInv, Running, response = NoResponse, NEW r \in Result, Truthful(r),
         r.x \in Pts[r.job.node] \cup {NoPoint}, Receive(r)
  PROVE  NotYetAnswered' /\ [Contract!ContractNext]_(Contract!cvars)
<1>1. CASE IgnoreResult(r)
  BY <1>1, SameAbstract DEF IgnoreResult, NotYetAnswered, locals
<1>2. CASE ReceiveCancelled(r)
  <2>1. FinishCancelled /\ results' = results /\ pc' = "done"
    BY <1>2 DEF ReceiveCancelled, FinishCancelled
  <2> QED
    BY <2>1, RefineCancel DEF NotYetAnswered, Running
<1>3. CASE ReceiveTerminal(r)
  <2>1. ResultTruthful(r)
    BY <1>3 DEF ReceiveTerminal, ResultTruthful
  <2>2. r.job \in Live /\ r.job.node \in Node
    BY <1>3, JobFacts DEF ReceiveTerminal, Accept, Accepted, Live, Outstanding, Result
  <2>3. Pts[r.job.node] \subseteq Pts[Root]
    BY <2>2, LivePoints DEF IInv, NoPointLost
  <2>4. results' = results \cup {r} /\ response' = response
    BY <1>3 DEF ReceiveTerminal, RecordTerminal
  <2> QED
    BY <2>1, <2>2, <2>3, <2>4, RefineResult DEF NotYetAnswered
<1>4. CASE ReceiveSplit(r)
  BY <1>4, SameAbstract DEF ReceiveSplit, NotYetAnswered
<1>5. CASE ReceiveFailed(r)
  BY <1>5, SameAbstract DEF ReceiveFailed, NotYetAnswered
<1> QED
  BY <1>1, <1>2, <1>3, <1>4, <1>5 DEF Receive

LEMMA RefineStep ==
  RInv /\ [Next]_vars => NotYetAnswered' /\ [Contract!ContractNext]_(Contract!cvars)
<1> SUFFICES ASSUME RInv, [Next]_vars
             PROVE  NotYetAnswered' /\ [Contract!ContractNext]_(Contract!cvars)
  OBVIOUS
<1> DEFINE Goal == NotYetAnswered' /\ [Contract!ContractNext]_(Contract!cvars)
<1>0. IInv /\ NotYetAnswered /\ TypeOK /\ HandlerOK /\ CoreInv
  BY CoreParts DEF RInv, IInv
<1>1. ASSUME results' = results, response' = response, Running' => Running PROVE Goal
  BY <1>0, <1>1, SameAbstract, AnsweredKept
<1>2. CASE PublishFrontierJob
  BY <1>1, <1>2 DEF PublishFrontierJob, Running
<1>3. CASE PublishFrontierFails
  BY <1>1, <1>3 DEF PublishFrontierFails, Running, locals
<1>4. CASE OpenResultConsumer
  BY <1>1, <1>4 DEF OpenResultConsumer, Running, locals
<1>5. ASSUME NEW t \in BOOLEAN, Aggregate(t), Running, pc # "split",
             ~t => Cardinality(results) >= count.expected
      PROVE  Goal
  <2>1. response = NoResponse
    BY <1>0, <1>5 DEF NotYetAnswered
  <2>2. ~Running'
    BY <1>5 DEF Aggregate, Running
  <2> QED
    BY <1>0, <1>5, <2>1, <2>2, RefineAggregate DEF NotYetAnswered
<1>7. CASE ObserveCancel
  <2>1. Running /\ FinishCancelled /\ results' = results /\ pc' = "done"
    BY <1>7 DEF ObserveCancel, FinishCancelled, Running, locals
  <2> QED
    BY <1>0, <2>1, RefineCancel DEF NotYetAnswered, Running
<1>8. CASE Finish
  BY <1>5, <1>8 DEF Finish, Running
<1>9. CASE BeginWait
  BY <1>1, <1>9 DEF BeginWait, Running, locals
<1>10. ASSUME NEW j \in Job, RequeueStale(j) PROVE Goal
  BY <1>1, <1>10 DEF RequeueStale, Running
<1>11. ASSUME NEW j \in Job, RequeueStaleFails(j) PROVE Goal
  BY <1>1, <1>11 DEF RequeueStaleFails, Running, locals
<1>12. CASE TimeOut
  BY <1>5, <1>12 DEF TimeOut, Running
<1>13. CASE Poll
  BY <1>1, <1>13 DEF Poll, Running, locals
<1>14. ASSUME NEW j \in stream, NEW r \in TruthfulAnswers(j), Receive(r) PROVE Goal
  <2>1. j \in Job
    BY <1>0 DEF TypeOK
  <2>2. r \in Result /\ Truthful(r) /\ r.x \in Pts[r.job.node] \cup {NoPoint}
    BY <2>1, AnswerType
  <2>3. Running
    BY <1>14 DEF Receive, IgnoreResult, ReceiveCancelled, ReceiveTerminal, ReceiveSplit,
                 ReceiveFailed, Accept, Running
  <2> QED
    BY <1>0, <1>14, <2>2, <2>3, RefineReceive DEF NotYetAnswered
<1>15. CASE PublishChild
  BY <1>1, <1>15 DEF PublishChild, Running
<1>16. CASE PublishChildFails
  <2> DEFINE e == [current EXCEPT !.status = "error"]
  <2>1. /\ current \in Result /\ current.x = NoPoint /\ current.job.node \in Node
        /\ Pts[current.job.node] \subseteq Pts[Root]
    BY <1>0, <1>16, JobFacts DEF PublishChildFails, HandlerOK, Truthful, Result
  <2>2. e.status = "error" /\ e.x = NoPoint /\ e.job = current.job
    BY <2>1 DEF Result
  <2>3. results' = results \cup {e} /\ response' = response /\ Running
    BY <1>16 DEF PublishChildFails, RecordTerminal, Running
  <2> HIDE DEF e
  <2>4. ResultTruthful(e)
    BY <2>2 DEF ResultTruthful
  <2> QED
    BY <1>0, <2>1, <2>2, <2>3, <2>4, RefineResult DEF NotYetAnswered
<1>17. CASE CompleteSplit
  BY <1>1, <1>17 DEF CompleteSplit, Running
<1>18. CASE Redelegate
  BY <1>1, <1>18 DEF Redelegate, Running
<1>19. CASE RedelegateFails
  <2>1. /\ current.x = NoPoint /\ current.status = "error" /\ current.job.node \in Node
        /\ Pts[current.job.node] \subseteq Pts[Root]
    BY <1>0, <1>19, JobFacts
       DEF RedelegateFails, HandlerOK, ShouldRedelegate, Truthful, Result
  <2>2. results' = results \cup {current} /\ response' = response /\ Running
    BY <1>19 DEF RedelegateFails, RecordTerminal, Running
  <2>3. ResultTruthful(current)
    BY <2>1 DEF ResultTruthful
  <2> QED
    BY <1>0, <2>1, <2>2, <2>3, RefineResult DEF NotYetAnswered
<1>20. ASSUME NEW j \in Job, WorkerProgress(j) PROVE Goal
  BY <1>1, <1>20 DEF WorkerProgress, Running, locals
<1>21. CASE RequestCancel \/ CancelFrame
  BY <1>1, <1>21 DEF RequestCancel, CancelFrame, MarkCancelling, Running, locals
<1>22. CASE RecordCancel
  BY <1>1, <1>22 DEF RecordCancel, Running, locals
<1>23. CASE UNCHANGED vars
  BY <1>1, <1>23 DEF vars, Running
<1> QED
  BY <1>2, <1>3, <1>4, <1>7, <1>8, <1>9, <1>10, <1>11, <1>12, <1>13, <1>14, <1>15,
     <1>16, <1>17, <1>18, <1>19, <1>20, <1>21, <1>22, <1>23 DEF Next, MasterStep

(* The distributed solve implements its contract: its answers follow from   *)
(* what the results in hand have explored, and only one is given.           *)
THEOREM MasterImplementsContract == Spec => ImplementsContract
<1>1. RInv /\ [Next]_vars => RInv'
  BY InvStep, RefineStep DEF RInv
<1>2. RInv /\ [Next]_vars => [Contract!ContractNext]_(Contract!cvars)
  BY RefineStep
<1> QED
  BY <1>1, <1>2, RInvInit, RefineInit, PTL DEF Spec, ImplementsContract, Contract!ContractSpec
=============================================================================
