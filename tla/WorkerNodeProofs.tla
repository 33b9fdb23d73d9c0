---------------------------- MODULE WorkerNodeProofs ----------------------------
(***************************************************************************)
(* Proofs about WorkerNode, for any number of slaves, jobs, slots,          *)
(* deliveries and crashes.                                                  *)
(***************************************************************************)
EXTENDS WorkerNode, FiniteSetTheorems, SequenceTheorems, TLAPS

(* The message the loop takes, and what stays in the inbox.                 *)
LEMMA Taken ==
  ASSUME TypeOK, NEW w \in Worker, TakeMessage(w)
  PROVE  /\ Head(inbox[w]) \in Delivery /\ Next1(w) \in Job
         /\ 1 \in DOMAIN inbox[w] /\ Head(inbox[w]) = inbox[w][1]
         /\ inbox' \in [Worker -> Seq(Delivery)]
         /\ \A v \in Worker : v # w => inbox'[v] = inbox[v]
         /\ \A i \in DOMAIN inbox'[w] : /\ i + 1 \in DOMAIN inbox[w]
                                       /\ i \in Nat /\ i >= 1
                                       /\ inbox'[w][i] = inbox[w][i + 1]
<1>1. inbox[w] \in Seq(Delivery) /\ inbox[w] # <<>>
  BY DEF TypeOK, TakeMessage
<1>2. Head(inbox[w]) \in Delivery /\ Head(inbox[w]) = inbox[w][1]
  BY <1>1, HeadTailProperties
<1>3. /\ Tail(inbox[w]) \in Seq(Delivery)
      /\ Len(inbox[w]) \in Nat /\ Len(inbox[w]) >= 1
      /\ DOMAIN inbox[w] = 1..Len(inbox[w])
      /\ DOMAIN Tail(inbox[w]) = 1..Len(Tail(inbox[w]))
      /\ Len(Tail(inbox[w])) = Len(inbox[w]) - 1
      /\ \A i \in 1..Len(Tail(inbox[w])) : Tail(inbox[w])[i] = inbox[w][i + 1]
  BY <1>1, HeadTailProperties, EmptySeq, LenProperties
<1>4. inbox' = [inbox EXCEPT ![w] = Tail(@)]
  BY DEF TakeMessage
<1>5. inbox'[w] = Tail(inbox[w])
  BY <1>4 DEF TypeOK
<1> QED
  BY SMTT(60), <1>1, <1>2, <1>3, <1>4, <1>5 DEF TypeOK, Next1, JobOf, Delivery

(* A delivery goes to the end of an inbox.                                  *)
LEMMA Delivered ==
  ASSUME TypeOK, NEW w \in Worker, NEW j \in Job, Deliver(w, j)
  PROVE  LET d == <<j, queue[j].delivered + 1>> IN
         /\ d \in Delivery
         /\ inbox' \in [Worker -> Seq(Delivery)]
         /\ \A v \in Worker : v # w => inbox'[v] = inbox[v]
         /\ \A i \in DOMAIN inbox'[w] :
              \/ i \in DOMAIN inbox[w] /\ inbox'[w][i] = inbox[w][i]
              \/ i = Len(inbox[w]) + 1 /\ inbox'[w][i] = d
<1> DEFINE d == <<j, queue[j].delivered + 1>>
<1>1. queue[j].delivered \in 0..MaxDeliver /\ queue[j].delivered < MaxDeliver
  BY DEF Deliver, TypeOK
<1>2. d \in Delivery
  BY <1>1, WorkerAssumption DEF Delivery
<1>3. inbox' = [inbox EXCEPT ![w] = Append(@, d)] /\ inbox[w] \in Seq(Delivery)
  BY DEF Deliver, TypeOK
<1>4. inbox'[w] = Append(inbox[w], d)
  BY <1>3 DEF TypeOK
<1> HIDE DEF d
<1>5. /\ Append(inbox[w], d) \in Seq(Delivery)
      /\ Len(Append(inbox[w], d)) = Len(inbox[w]) + 1
      /\ \A i \in 1..Len(inbox[w]) : Append(inbox[w], d)[i] = inbox[w][i]
      /\ Append(inbox[w], d)[Len(inbox[w]) + 1] = d
      /\ DOMAIN inbox[w] = 1..Len(inbox[w]) /\ Len(inbox[w]) \in Nat
      /\ DOMAIN Append(inbox[w], d) = 1..(Len(inbox[w]) + 1)
  BY <1>2, <1>3, AppendProperties, LenProperties
<1>6. \A i \in DOMAIN inbox'[w] :
        \/ i \in DOMAIN inbox[w] /\ inbox'[w][i] = inbox[w][i]
        \/ i = Len(inbox[w]) + 1 /\ inbox'[w][i] = d
  BY <1>4, <1>5
<1>7. inbox' \in [Worker -> Seq(Delivery)]
  BY <1>3, <1>5 DEF TypeOK
<1> QED
  BY <1>2, <1>3, <1>6, <1>7 DEF TypeOK, d

(* What the acknowledgements do to the queue.                               *)
LEMMA Acknowledged ==
  ASSUME TypeOK, NEW j \in Job, SendAck(j)
  PROVE  /\ queue' \in [Job -> [state : QueueState, delivered : 0..MaxDeliver]]
         /\ \A i \in Job : queue'[i].delivered = queue[i].delivered
         /\ \A i \in Job : i # j => queue'[i] = queue[i]
<1>1. CASE queue' = queue
  BY <1>1 DEF TypeOK
<1>2. CASE queue' = Acked(j)
  BY <1>2 DEF TypeOK, Acked, QueueState
<1> QED
  BY <1>1, <1>2 DEF SendAck

LEMMA Back ==
  ASSUME TypeOK, NEW j \in Job, queue' = Returned(j)
  PROVE  /\ queue' \in [Job -> [state : QueueState, delivered : 0..MaxDeliver]]
         /\ \A i \in Job : queue'[i].delivered = queue[i].delivered
         /\ \A i \in Job : queue'[i].state = "acked" => queue[i].state = "acked"
BY DEF TypeOK, Returned, QueueState

LEMMA Refused ==
  ASSUME TypeOK, NEW j \in Job, SendNak(j)
  PROVE  /\ queue' \in [Job -> [state : QueueState, delivered : 0..MaxDeliver]]
         /\ \A i \in Job : queue'[i].delivered = queue[i].delivered
         /\ \A i \in Job : queue'[i].state = "acked" => queue[i].state = "acked"
<1>1. CASE queue' = queue
  BY <1>1 DEF TypeOK
<1> QED
  BY <1>1, Back DEF SendNak

(* What a step of a task does to the tasks.                                 *)
LEMMA Moved ==
  ASSUME TypeOK, NEW d \in Delivery, NEW phase \in Phase, Goes(d, phase)
  PROVE  /\ task' \in [Delivery -> [worker : Worker \cup {NoWorker}, phase : Phase]]
         /\ \A e \in Delivery : e # d => task'[e] = task[e]
         /\ task'[d].worker = task[d].worker /\ task'[d].phase = phase
BY DEF TypeOK, Goes

LEMMA Died ==
  ASSUME TypeOK, NEW w \in Worker, Crash(w)
  PROVE  /\ task' \in [Delivery -> [worker : Worker \cup {NoWorker}, phase : Phase]]
         /\ \A e \in Delivery : \/ task'[e] = task[e]
                               \/ /\ task[e].worker = w /\ task'[e].worker = w
                                  /\ task[e].phase \in Holding /\ task'[e].phase = "lost"
BY DEF TypeOK, Crash, HoldersAt, Phase, Holding

LEMMA JobsOfDeliveries == \A d \in Delivery : JobOf(d) = d[1] /\ d[1] \in Job /\ d[2] \in Nat
BY WorkerAssumption DEF JobOf, Delivery

LEMMA Outcomes == \A d \in Delivery : AfterResult(d) \subseteq {"drop", "publish", "nak"}
BY DEF AfterResult

(* Every step keeps the types.                                              *)
LEMMA TypeStep ==
  ASSUME TypeOK, [Next]_vars
  PROVE  TypeOK'
<1>1. ASSUME NEW j \in Job, Publish(j) PROVE TypeOK'
  BY <1>1, WorkerAssumption
  DEF Publish, TypeOK, QueueState, Phase, Holding, NoTask
<1>2. ASSUME NEW w \in Worker, NEW j \in Job, Deliver(w, j) PROVE TypeOK'
  <2>1. inbox' \in [Worker -> Seq(Delivery)]
    BY <1>2, Delivered
  <2>2. queue' \in [Job -> [state : QueueState, delivered : 0..MaxDeliver]]
    BY <1>2, WorkerAssumption DEF Deliver, TypeOK, QueueState
  <2> QED
    BY <1>2, <2>1, <2>2 DEF Deliver, TypeOK
<1>3. ASSUME NEW j \in Job, Expire(j) PROVE TypeOK'
  BY <1>3, Back DEF Expire, TypeOK
<1>4. ASSUME NEW k \in Key, AskCancel(k) PROVE TypeOK'
  BY <1>4, WorkerAssumption
  DEF AskCancel, TypeOK, QueueState, Phase, Holding, NoTask
<1>5. ASSUME NEW w \in Worker, NEW k \in Key, HearCancel(w, k) PROVE TypeOK'
  BY <1>5, WorkerAssumption
  DEF HearCancel, TypeOK, QueueState, Phase, Holding, NoTask
<1>6. ASSUME NEW w \in Worker, DropMalformed(w) PROVE TypeOK'
  BY <1>6, Taken, Acknowledged
  DEF DropMalformed, TypeOK
<1>7. ASSUME NEW w \in Worker, Postpone(w) PROVE TypeOK'
  BY <1>7, Taken, Refused
  DEF Postpone, TypeOK
<1>8. ASSUME NEW w \in Worker, SkipCancelled(w) PROVE TypeOK'
  BY <1>8, Taken, Acknowledged
  DEF SkipCancelled, TypeOK
<1>9. ASSUME NEW w \in Worker, StartTask(w) PROVE TypeOK'
  BY <1>9, Taken DEF StartTask, TypeOK, Phase, Holding
<1>10. ASSUME NEW w \in Worker, Crash(w) PROVE TypeOK'
  <2>1. inbox' \in [Worker -> Seq(Delivery)] /\ known' \in [Worker -> SUBSET Key]
    BY <1>10, EmptySeq DEF Crash, TypeOK
  <2>2. crashes' \in 0..MaxCrashes
    BY <1>10, WorkerAssumption DEF Crash, TypeOK
  <2> QED
    BY <1>10, <2>1, <2>2, Died DEF Crash, TypeOK
<1>11. ASSUME NEW d \in Delivery, Begin(d) PROVE TypeOK'
  BY <1>11, Moved, Outcomes DEF Begin, Phase, Holding, TypeOK
<1>12. ASSUME NEW d \in Delivery, Hydrate(d) PROVE TypeOK'
  BY <1>12, Moved, Outcomes DEF Hydrate, Phase, Holding, TypeOK
<1>13. ASSUME NEW d \in Delivery, HydrateFails(d) PROVE TypeOK'
  BY <1>13, Moved, Outcomes DEF HydrateFails, Phase, Holding, TypeOK
<1>14. ASSUME NEW d \in Delivery, SolveEnds(d) PROVE TypeOK'
  BY <1>14, Moved, Outcomes DEF SolveEnds, Phase, Holding, TypeOK
<1>15. ASSUME NEW d \in Delivery, StopCancelled(d) PROVE TypeOK'
  BY <1>15, Moved, Outcomes DEF StopCancelled, Phase, Holding, TypeOK
<1>16. ASSUME NEW d \in Delivery, OrphanEnds(d) PROVE TypeOK'
  BY <1>16 DEF OrphanEnds, TypeOK
<1>17. ASSUME NEW d \in Delivery, PublishResult(d) PROVE TypeOK'
  BY <1>17, Moved, Outcomes DEF PublishResult, Phase, Holding, TypeOK
<1>18. ASSUME NEW d \in Delivery, Finish(d) PROVE TypeOK'
  BY <1>18, Moved, Acknowledged, Refused, JobsOfDeliveries DEF Finish, Phase, TypeOK
<1>19. CASE UNCHANGED vars
  BY <1>19, WorkerAssumption DEF vars, TypeOK, QueueState, Phase, Holding, NoTask
<1> QED
  BY <1>1, <1>2, <1>3, <1>4, <1>5, <1>6, <1>7, <1>8, <1>9, <1>10, <1>11, <1>12, <1>13, <1>14, <1>15, <1>16, <1>17, <1>18, <1>19
  DEF Next, Stream, Cancels, LoopStep, TaskStep

(* A slave knows only cancels that were asked for.                          *)
LEMMA HeardStep ==
  ASSUME TypeOK, HeardIsAsked, [Next]_vars
  PROVE  HeardIsAsked'
<1>1. ASSUME NEW j \in Job, Publish(j) PROVE HeardIsAsked'
  BY <1>1 DEF Publish, HeardIsAsked
<1>2. ASSUME NEW w \in Worker, NEW j \in Job, Deliver(w, j) PROVE HeardIsAsked'
  BY <1>2 DEF Deliver, HeardIsAsked
<1>3. ASSUME NEW j \in Job, Expire(j) PROVE HeardIsAsked'
  BY <1>3 DEF Expire, HeardIsAsked
<1>4. ASSUME NEW k \in Key, AskCancel(k) PROVE HeardIsAsked'
  BY <1>4
  DEF AskCancel, TypeOK, HeardIsAsked
<1>5. ASSUME NEW w \in Worker, NEW k \in Key, HearCancel(w, k) PROVE HeardIsAsked'
  BY <1>5
  DEF HearCancel, TypeOK, HeardIsAsked
<1>6. ASSUME NEW w \in Worker, DropMalformed(w) PROVE HeardIsAsked'
  BY <1>6 DEF DropMalformed, HeardIsAsked
<1>7. ASSUME NEW w \in Worker, Postpone(w) PROVE HeardIsAsked'
  BY <1>7 DEF Postpone, HeardIsAsked
<1>8. ASSUME NEW w \in Worker, SkipCancelled(w) PROVE HeardIsAsked'
  BY <1>8 DEF SkipCancelled, HeardIsAsked
<1>9. ASSUME NEW w \in Worker, StartTask(w) PROVE HeardIsAsked'
  BY <1>9 DEF StartTask, HeardIsAsked
<1>10. ASSUME NEW w \in Worker, Crash(w) PROVE HeardIsAsked'
  BY <1>10
  DEF Crash, HoldersAt, Holding, TypeOK, HeardIsAsked
<1>11. ASSUME NEW d \in Delivery, Begin(d) PROVE HeardIsAsked'
  BY <1>11 DEF Begin, HeardIsAsked
<1>12. ASSUME NEW d \in Delivery, Hydrate(d) PROVE HeardIsAsked'
  BY <1>12 DEF Hydrate, HeardIsAsked
<1>13. ASSUME NEW d \in Delivery, HydrateFails(d) PROVE HeardIsAsked'
  BY <1>13 DEF HydrateFails, HeardIsAsked
<1>14. ASSUME NEW d \in Delivery, SolveEnds(d) PROVE HeardIsAsked'
  BY <1>14 DEF SolveEnds, HeardIsAsked
<1>15. ASSUME NEW d \in Delivery, StopCancelled(d) PROVE HeardIsAsked'
  BY <1>15 DEF StopCancelled, HeardIsAsked
<1>16. ASSUME NEW d \in Delivery, OrphanEnds(d) PROVE HeardIsAsked'
  BY <1>16 DEF OrphanEnds, HeardIsAsked
<1>17. ASSUME NEW d \in Delivery, PublishResult(d) PROVE HeardIsAsked'
  BY <1>17 DEF PublishResult, HeardIsAsked
<1>18. ASSUME NEW d \in Delivery, Finish(d) PROVE HeardIsAsked'
  BY <1>18 DEF Finish, HeardIsAsked
<1>19. CASE UNCHANGED vars
  BY <1>19 DEF vars, TypeOK, HeardIsAsked
<1> QED
  BY <1>1, <1>2, <1>3, <1>4, <1>5, <1>6, <1>7, <1>8, <1>9, <1>10, <1>11, <1>12, <1>13, <1>14, <1>15, <1>16, <1>17, <1>18, <1>19
  DEF Next, Stream, Cancels, LoopStep, TaskStep

(* A task has a worker.                                                     *)
LEMMA MannedStep ==
  ASSUME TypeOK, Manned, [Next]_vars
  PROVE  Manned'
<1>1. ASSUME NEW j \in Job, Publish(j) PROVE Manned'
  BY <1>1 DEF Publish, Manned, In
<1>2. ASSUME NEW w \in Worker, NEW j \in Job, Deliver(w, j) PROVE Manned'
  BY <1>2 DEF Deliver, Manned, In
<1>3. ASSUME NEW j \in Job, Expire(j) PROVE Manned'
  BY <1>3 DEF Expire, Manned, In
<1>4. ASSUME NEW k \in Key, AskCancel(k) PROVE Manned'
  BY <1>4 DEF AskCancel, Manned, In
<1>5. ASSUME NEW w \in Worker, NEW k \in Key, HearCancel(w, k) PROVE Manned'
  BY <1>5 DEF HearCancel, Manned, In
<1>6. ASSUME NEW w \in Worker, DropMalformed(w) PROVE Manned'
  BY <1>6 DEF DropMalformed, Manned, In
<1>7. ASSUME NEW w \in Worker, Postpone(w) PROVE Manned'
  BY <1>7 DEF Postpone, Manned, In
<1>8. ASSUME NEW w \in Worker, SkipCancelled(w) PROVE Manned'
  BY <1>8 DEF SkipCancelled, Manned, In
<1>9. ASSUME NEW w \in Worker, StartTask(w) PROVE Manned'
  BY <1>9, Taken, WorkerAssumption DEF StartTask, TypeOK, Manned, In
<1>10. ASSUME NEW w \in Worker, Crash(w) PROVE Manned'
  BY <1>10, Died, WorkerAssumption DEF Manned, In, Holding
<1>11. ASSUME NEW d \in Delivery, Begin(d) PROVE Manned'
  BY <1>11, Moved, Outcomes DEF Begin, Manned, In, Phase, Holding
<1>12. ASSUME NEW d \in Delivery, Hydrate(d) PROVE Manned'
  BY <1>12, Moved, Outcomes DEF Hydrate, Manned, In, Phase, Holding
<1>13. ASSUME NEW d \in Delivery, HydrateFails(d) PROVE Manned'
  BY <1>13, Moved, Outcomes DEF HydrateFails, Manned, In, Phase, Holding
<1>14. ASSUME NEW d \in Delivery, SolveEnds(d) PROVE Manned'
  BY <1>14, Moved, Outcomes DEF SolveEnds, Manned, In, Phase, Holding
<1>15. ASSUME NEW d \in Delivery, StopCancelled(d) PROVE Manned'
  BY <1>15, Moved, Outcomes DEF StopCancelled, Manned, In, Phase, Holding
<1>16. ASSUME NEW d \in Delivery, OrphanEnds(d) PROVE Manned'
  BY <1>16 DEF OrphanEnds, Manned, In
<1>17. ASSUME NEW d \in Delivery, PublishResult(d) PROVE Manned'
  BY <1>17, Moved, Outcomes DEF PublishResult, Manned, In, Phase, Holding
<1>18. ASSUME NEW d \in Delivery, Finish(d) PROVE Manned'
  BY <1>18, Moved, Outcomes DEF Finish, Manned, In, Phase, Holding
<1>19. CASE UNCHANGED vars
  BY <1>19 DEF vars, Manned, In
<1> QED
  BY <1>1, <1>2, <1>3, <1>4, <1>5, <1>6, <1>7, <1>8, <1>9, <1>10, <1>11, <1>12, <1>13, <1>14, <1>15, <1>16, <1>17, <1>18, <1>19
  DEF Next, Stream, Cancels, LoopStep, TaskStep

(* An inbox keeps its order, and its head may be gone.                      *)
Kept(v) == \E k \in {0, 1} : \A i \in DOMAIN inbox'[v] :
             i \in Nat /\ i + k \in DOMAIN inbox[v] /\ inbox'[v][i] = inbox[v][i + k]

LEMMA InboxTyped ==
  ASSUME TypeOK, NEW v \in Worker, NEW i \in DOMAIN inbox[v]
  PROVE  i \in Nat /\ i >= 1 /\ inbox[v][i] \in Delivery
<1>1. inbox[v] \in Seq(Delivery)
  BY DEF TypeOK
<1>2. DOMAIN inbox[v] = 1..Len(inbox[v]) /\ Len(inbox[v]) \in Nat
  BY <1>1, LenProperties
<1>3. i \in 1..Len(inbox[v])
  BY <1>2
<1> QED
  BY <1>1, <1>2, <1>3, ElementOfSeq

LEMMA SameInbox ==
  ASSUME TypeOK, NEW v \in Worker, inbox'[v] = inbox[v]
  PROVE  Kept(v)
<1>1. \A i \in DOMAIN inbox'[v] : i \in Nat /\ i + 0 \in DOMAIN inbox[v] /\ inbox'[v][i] = inbox[v][i + 0]
  BY InboxTyped
<1> QED
  BY <1>1 DEF Kept

LEMMA TakenKept ==
  ASSUME TypeOK, NEW w \in Worker, TakeMessage(w)
  PROVE  \A v \in Worker : Kept(v)
<1> SUFFICES ASSUME NEW v \in Worker PROVE Kept(v)
  OBVIOUS
<1>1. CASE v = w
  BY <1>1, Taken DEF Kept
<1>2. CASE v # w
  BY <1>2, Taken, SameInbox
<1> QED
  BY <1>1, <1>2

LEMMA StaysApart ==
  ASSUME TypeOK, HandledOnce, \A v \in Worker : Kept(v)
  PROVE  \A v, w \in Worker : \A i \in DOMAIN inbox'[v], k \in DOMAIN inbox'[w] :
           inbox'[v][i] = inbox'[w][k] => v = w /\ i = k
<1> SUFFICES ASSUME NEW v \in Worker, NEW w \in Worker,
                    NEW i \in DOMAIN inbox'[v], NEW k \in DOMAIN inbox'[w],
                    inbox'[v][i] = inbox'[w][k]
             PROVE  v = w /\ i = k
  OBVIOUS
<1>1. PICK x \in {0, 1} : \A n \in DOMAIN inbox'[v] :
        n \in Nat /\ n + x \in DOMAIN inbox[v] /\ inbox'[v][n] = inbox[v][n + x]
  BY DEF Kept
<1>2. PICK y \in {0, 1} : \A n \in DOMAIN inbox'[w] :
        n \in Nat /\ n + y \in DOMAIN inbox[w] /\ inbox'[w][n] = inbox[w][n + y]
  BY DEF Kept
<1>3. v = w /\ i + x = k + y
  BY <1>1, <1>2 DEF HandledOnce
<1>4. CASE x = y
  BY <1>1, <1>2, <1>3, <1>4
<1>5. CASE x # y
  <2>1. v = w /\ i \in DOMAIN inbox'[v] /\ k \in DOMAIN inbox'[v] /\ i \in Nat /\ k \in Nat
    BY <1>1, <1>2, <1>3
  <2>2. /\ inbox[v][i + x] = inbox[v][i + y]
        /\ i + x \in DOMAIN inbox[v] /\ i + y \in DOMAIN inbox[v]
    BY <1>1, <1>2, <2>1
  <2>3. i + x = i + y
    BY <2>2 DEF HandledOnce
  <2> QED
    BY <2>1, <2>3, <1>5
<1> QED
  BY <1>4, <1>5

LEMMA StaysHandled ==
  ASSUME TypeOK, HandledOnce,
         \A v \in Worker : Kept(v),
         \A d \in Delivery : task[d].phase = "none" => task'[d].phase = "none",
         \A j \in Job : queue'[j].delivered = queue[j].delivered
  PROVE  HandledOnce'
<1>1. ASSUME NEW v \in Worker, NEW i \in DOMAIN inbox'[v]
      PROVE  /\ task'[inbox'[v][i]].phase = "none"
             /\ inbox'[v][i][2] <= queue'[inbox'[v][i][1]].delivered
  <2>1. PICK k \in {0, 1} : i + k \in DOMAIN inbox[v] /\ inbox'[v][i] = inbox[v][i + k]
    BY DEF Kept
  <2>2. inbox[v][i + k] \in Delivery
    BY <2>1, InboxTyped
  <2>3. /\ task[inbox[v][i + k]].phase = "none"
        /\ inbox[v][i + k][2] <= queue[inbox[v][i + k][1]].delivered
    BY <2>1 DEF HandledOnce
  <2> QED
    BY <2>1, <2>2, <2>3, JobsOfDeliveries
<1>2. ASSUME NEW d \in Delivery, d[2] > queue'[d[1]].delivered PROVE task'[d].phase = "none"
  BY <1>2, JobsOfDeliveries DEF HandledOnce
<1> QED
  BY <1>1, <1>2, StaysApart DEF HandledOnce, JobOf, In

LEMMA SameInboxes ==
  ASSUME TypeOK, inbox' = inbox
  PROVE  \A v \in Worker : Kept(v)
BY SameInbox

(* Inboxes and tasks keep each delivery in one place.                       *)
LEMMA HandledStep ==
  ASSUME TypeOK, HandledOnce, [Next]_vars
  PROVE  HandledOnce'
<1>1. ASSUME NEW j \in Job, Publish(j) PROVE HandledOnce'
  BY <1>1, StaysHandled, SameInboxes DEF Publish, TypeOK, In
<1>2. ASSUME NEW w \in Worker, NEW j \in Job, Deliver(w, j) PROVE HandledOnce'
  <2> DEFINE e == <<j, queue[j].delivered + 1>>
  <2>1. /\ e \in Delivery
        /\ \A v \in Worker : v # w => inbox'[v] = inbox[v]
        /\ \A i \in DOMAIN inbox'[w] :
             \/ i \in DOMAIN inbox[w] /\ inbox'[w][i] = inbox[w][i]
             \/ i = Len(inbox[w]) + 1 /\ inbox'[w][i] = e
    BY <1>2, Delivered
  <2>2. /\ queue'[j].delivered = queue[j].delivered + 1 /\ queue[j].delivered \in Nat
        /\ \A i \in Job : i # j => queue'[i] = queue[i]
        /\ task' = task
    BY <1>2, WorkerAssumption DEF Deliver, TypeOK
  <2>3. e[1] = j /\ e[2] = queue[j].delivered + 1
    BY DEF JobOf
  <2>4. task[e].phase = "none"
    BY <2>1, <2>2, <2>3 DEF HandledOnce
  <2>5. \A v \in Worker : \A i \in DOMAIN inbox[v] : inbox[v][i] # e
    BY <2>2, <2>3 DEF HandledOnce
  <2> HIDE DEF e
  <2>6. ASSUME NEW v \in Worker, NEW i \in DOMAIN inbox'[v]
        PROVE  \/ i \in DOMAIN inbox[v] /\ inbox'[v][i] = inbox[v][i]
               \/ v = w /\ i = Len(inbox[w]) + 1 /\ inbox'[v][i] = e
    BY <2>1
  <2>7. ASSUME NEW v \in Worker, NEW i \in DOMAIN inbox'[v]
        PROVE  /\ task'[inbox'[v][i]].phase = "none"
             /\ inbox'[v][i][2] <= queue'[inbox'[v][i][1]].delivered
    <3>1. CASE i \in DOMAIN inbox[v] /\ inbox'[v][i] = inbox[v][i]
      <4>1. /\ inbox[v][i] \in Delivery /\ task[inbox[v][i]].phase = "none"
            /\ inbox[v][i][2] <= queue[inbox[v][i][1]].delivered
        BY <3>1, InboxTyped DEF HandledOnce
      <4>2. inbox[v][i][1] \in Job /\ inbox[v][i][2] \in Nat
        BY <4>1, JobsOfDeliveries
      <4>3. inbox[v][i][2] <= queue'[inbox[v][i][1]].delivered
        BY <4>1, <4>2, <2>2
      <4> QED
        BY <3>1, <4>1, <4>3, <2>2 DEF In
    <3>2. CASE inbox'[v][i] = e
      BY <3>2, <2>2, <2>3, <2>4 DEF In
    <3> QED
      BY <3>1, <3>2, <2>6
  <2>8. ASSUME NEW u \in Worker, NEW v \in Worker,
               NEW i \in DOMAIN inbox'[u], NEW k \in DOMAIN inbox'[v],
               inbox'[u][i] = inbox'[v][k]
        PROVE  u = v /\ i = k
    BY <2>5, <2>6, <2>8 DEF HandledOnce
  <2>9. ASSUME NEW d \in Delivery, d[2] > queue'[d[1]].delivered PROVE task'[d].phase = "none"
    <3>1. d[1] \in Job /\ d[2] \in Nat /\ queue[d[1]].delivered \in Nat
      BY JobsOfDeliveries, WorkerAssumption DEF TypeOK
    <3>2. d[2] > queue[d[1]].delivered
      BY <3>1, <2>2, <2>9
    <3> QED
      BY <3>2, <2>2 DEF HandledOnce, In
  <2> QED
    BY <2>7, <2>8, <2>9 DEF HandledOnce, JobOf, In
<1>3. ASSUME NEW j \in Job, Expire(j) PROVE HandledOnce'
  <2>1. \A i \in Job : queue'[i].delivered = queue[i].delivered
    BY <1>3, Back DEF Expire
  <2>2. task' = task /\ \A v \in Worker : Kept(v)
    BY <1>3, SameInboxes DEF Expire
  <2> QED
    BY <2>1, <2>2, StaysHandled
<1>4. ASSUME NEW k \in Key, AskCancel(k) PROVE HandledOnce'
  BY <1>4 DEF AskCancel, HandledOnce, In
<1>5. ASSUME NEW w \in Worker, NEW k \in Key, HearCancel(w, k) PROVE HandledOnce'
  BY <1>5 DEF HearCancel, HandledOnce, In
<1>6. ASSUME NEW w \in Worker, DropMalformed(w) PROVE HandledOnce'
  <2>1. Next1(w) \in Job /\ \A v \in Worker : Kept(v)
    BY <1>6, Taken, TakenKept DEF DropMalformed
  <2>2. task' = task /\ SendAck(Next1(w))
    BY <1>6 DEF DropMalformed
  <2>3. \A i \in Job : queue'[i].delivered = queue[i].delivered
    BY <2>1, <2>2, Acknowledged
  <2> QED
    BY <2>1, <2>2, <2>3, StaysHandled
<1>7. ASSUME NEW w \in Worker, Postpone(w) PROVE HandledOnce'
  <2>1. Next1(w) \in Job /\ \A v \in Worker : Kept(v)
    BY <1>7, Taken, TakenKept DEF Postpone
  <2>2. task' = task /\ SendNak(Next1(w))
    BY <1>7 DEF Postpone
  <2>3. \A i \in Job : queue'[i].delivered = queue[i].delivered
    BY <2>1, <2>2, Refused
  <2> QED
    BY <2>1, <2>2, <2>3, StaysHandled
<1>8. ASSUME NEW w \in Worker, SkipCancelled(w) PROVE HandledOnce'
  <2>1. Next1(w) \in Job /\ \A v \in Worker : Kept(v)
    BY <1>8, Taken, TakenKept DEF SkipCancelled
  <2>2. task' = task /\ SendAck(Next1(w))
    BY <1>8 DEF SkipCancelled
  <2>3. \A i \in Job : queue'[i].delivered = queue[i].delivered
    BY <2>1, <2>2, Acknowledged
  <2> QED
    BY <2>1, <2>2, <2>3, StaysHandled
<1>9. ASSUME NEW w \in Worker, StartTask(w) PROVE HandledOnce'
  <2> DEFINE e == Head(inbox[w])
  <2>1. /\ e \in Delivery /\ 1 \in DOMAIN inbox[w] /\ e = inbox[w][1]
        /\ \A v \in Worker : v # w => inbox'[v] = inbox[v]
        /\ \A i \in DOMAIN inbox'[w] : /\ i + 1 \in DOMAIN inbox[w] /\ i \in Nat /\ i >= 1
                                      /\ inbox'[w][i] = inbox[w][i + 1]
    BY <1>9, Taken DEF StartTask
  <2>2. /\ queue' = queue
        /\ \A d \in Delivery : d # e => task'[d] = task[d]
    BY <1>9 DEF StartTask, TypeOK
  <2>3. task[e].phase = "none" /\ e[2] <= queue[e[1]].delivered
    BY <2>1 DEF HandledOnce
  <2> HIDE DEF e
  <2>4. ASSUME NEW v \in Worker, NEW i \in DOMAIN inbox'[v] PROVE inbox'[v][i] # e
    <3>1. CASE v = w
      <4>1. i + 1 \in DOMAIN inbox[w] /\ i + 1 # 1 /\ inbox'[v][i] = inbox[w][i + 1]
        BY <2>1, <3>1
      <4> QED
        BY <2>1, <4>1 DEF HandledOnce
    <3>2. CASE v # w
      BY <2>1, <3>2 DEF HandledOnce
    <3> QED
      BY <3>1, <3>2
  <2>5. \A v \in Worker : Kept(v)
    BY <1>9, TakenKept DEF StartTask
  <2>6. ASSUME NEW v \in Worker, NEW i \in DOMAIN inbox'[v]
        PROVE  /\ task'[inbox'[v][i]].phase = "none"
             /\ inbox'[v][i][2] <= queue'[inbox'[v][i][1]].delivered
    <3>1. PICK k \in {0, 1} : i + k \in DOMAIN inbox[v] /\ inbox'[v][i] = inbox[v][i + k]
      BY <2>5 DEF Kept
    <3>2. /\ inbox[v][i + k] \in Delivery /\ task[inbox[v][i + k]].phase = "none"
          /\ inbox[v][i + k][2] <= queue[inbox[v][i + k][1]].delivered
      BY <3>1, InboxTyped DEF HandledOnce
    <3> QED
      BY <3>1, <3>2, <2>2, <2>4 DEF In
  <2>7. ASSUME NEW d \in Delivery, d[2] > queue'[d[1]].delivered PROVE task'[d].phase = "none"
    <3>1. d[2] > queue[d[1]].delivered /\ task[d].phase = "none"
      BY <2>2, <2>7 DEF HandledOnce
    <3>2. d # e
      <4>1. d[2] \in Nat /\ queue[d[1]].delivered \in Nat
        BY JobsOfDeliveries, WorkerAssumption DEF TypeOK
      <4> QED
        BY <4>1, <3>1, <2>3
    <3> QED
      BY <3>1, <3>2, <2>2 DEF In
  <2> QED
    BY <2>6, <2>7, <2>5, StaysApart DEF HandledOnce, JobOf, In
<1>10. ASSUME NEW w \in Worker, Crash(w) PROVE HandledOnce'
  <2>1. ASSUME NEW v \in Worker PROVE Kept(v)
    <3>1. CASE v = w
      <4>1. inbox'[v] = <<>>
        BY <1>10, <3>1 DEF Crash, TypeOK
      <4>2. DOMAIN inbox'[v] = {}
        BY <4>1
      <4> QED
        BY <4>2 DEF Kept
    <3>2. CASE v # w
      BY <1>10, <3>2, SameInbox DEF Crash, TypeOK
    <3> QED
      BY <3>1, <3>2
  <2> QED
    BY <1>10, <2>1, StaysHandled, Died DEF Crash, In, Holding
<1>11. ASSUME NEW d \in Delivery, Begin(d) PROVE HandledOnce'
  BY <1>11, StaysHandled, SameInboxes, Moved, Outcomes DEF Begin, In, Phase, Holding
<1>12. ASSUME NEW d \in Delivery, Hydrate(d) PROVE HandledOnce'
  BY <1>12, StaysHandled, SameInboxes, Moved, Outcomes DEF Hydrate, In, Phase, Holding
<1>13. ASSUME NEW d \in Delivery, HydrateFails(d) PROVE HandledOnce'
  BY <1>13, StaysHandled, SameInboxes, Moved, Outcomes DEF HydrateFails, In, Phase, Holding
<1>14. ASSUME NEW d \in Delivery, SolveEnds(d) PROVE HandledOnce'
  BY <1>14, StaysHandled, SameInboxes, Moved, Outcomes DEF SolveEnds, In, Phase, Holding
<1>15. ASSUME NEW d \in Delivery, StopCancelled(d) PROVE HandledOnce'
  BY <1>15, StaysHandled, SameInboxes, Moved, Outcomes DEF StopCancelled, In, Phase, Holding
<1>16. ASSUME NEW d \in Delivery, OrphanEnds(d) PROVE HandledOnce'
  BY <1>16, StaysHandled, SameInboxes DEF OrphanEnds, In
<1>17. ASSUME NEW d \in Delivery, PublishResult(d) PROVE HandledOnce'
  BY <1>17, StaysHandled, SameInboxes, Moved, Outcomes DEF PublishResult, In, Phase, Holding
<1>18. ASSUME NEW d \in Delivery, Finish(d) PROVE HandledOnce'
  <2>1. inbox' = inbox /\ Goes(d, "ended") /\ ~In(d, "none")
    BY <1>18 DEF Finish, In
  <2>2. \A j \in Job : queue'[j].delivered = queue[j].delivered
    BY <1>18, Acknowledged, Refused, JobsOfDeliveries DEF Finish
  <2>3. \A e \in Delivery : task[e].phase = "none" => task'[e].phase = "none"
    BY <2>1, Moved DEF In, Phase
  <2> QED
    BY <2>1, <2>2, <2>3, StaysHandled, SameInboxes
<1>19. CASE UNCHANGED vars
  BY <1>19 DEF vars, HandledOnce, In
<1> QED
  BY <1>1, <1>2, <1>3, <1>4, <1>5, <1>6, <1>7, <1>8, <1>9, <1>10, <1>11, <1>12, <1>13, <1>14, <1>15, <1>16, <1>17, <1>18, <1>19
  DEF Next, Stream, Cancels, LoopStep, TaskStep

(* A cancel a task sees was asked for.                                      *)
LEMMA KnownAsked ==
  ASSUME HeardIsAsked, NEW w \in Worker, NEW j \in Job, Cancelled(w, j)
  PROVE  KeysOf[j] \cap asked # {}
BY DEF HeardIsAsked, Cancelled

LEMMA SeesAsked ==
  ASSUME TypeOK, HeardIsAsked, NEW d \in Delivery, task[d].worker \in Worker, SeesCancel(d)
  PROVE  KeysOf[JobOf(d)] \cap asked # {}
BY KnownAsked, JobsOfDeliveries DEF SeesCancel

(* A task acknowledges a result it stored or a cancel that was asked for.   *)
LEMMA AnsweringStep ==
  ASSUME TypeOK, Manned, Answering, HeardIsAsked, [Next]_vars
  PROVE  Answering'
<1>1. ASSUME NEW j \in Job, Publish(j) PROVE Answering'
  BY <1>1 DEF Publish, Answering, In
<1>2. ASSUME NEW w \in Worker, NEW j \in Job, Deliver(w, j) PROVE Answering'
  BY <1>2 DEF Deliver, Answering, In
<1>3. ASSUME NEW j \in Job, Expire(j) PROVE Answering'
  BY <1>3 DEF Expire, Answering, In
<1>4. ASSUME NEW k \in Key, AskCancel(k) PROVE Answering'
  BY <1>4 DEF AskCancel, Answering, In
<1>5. ASSUME NEW w \in Worker, NEW k \in Key, HearCancel(w, k) PROVE Answering'
  BY <1>5 DEF HearCancel, Answering, In
<1>6. ASSUME NEW w \in Worker, DropMalformed(w) PROVE Answering'
  BY <1>6 DEF DropMalformed, Answering, In
<1>7. ASSUME NEW w \in Worker, Postpone(w) PROVE Answering'
  BY <1>7 DEF Postpone, Answering, In
<1>8. ASSUME NEW w \in Worker, SkipCancelled(w) PROVE Answering'
  BY <1>8 DEF SkipCancelled, Answering, In
<1>9. ASSUME NEW w \in Worker, StartTask(w) PROVE Answering'
  BY <1>9, Taken DEF StartTask, TypeOK, Answering, In
<1>10. ASSUME NEW w \in Worker, Crash(w) PROVE Answering'
  BY <1>10, Died DEF Crash, Answering, In
<1>11. ASSUME NEW d \in Delivery, Begin(d) PROVE Answering'
  <2>1. task[d].worker \in Worker
    BY <1>11 DEF TypeOK, Manned, Begin, In
  <2>2. SeesCancel(d) => KeysOf[JobOf(d)] \cap asked # {}
    BY <2>1, SeesAsked
  <2> QED
    BY <1>11, <2>2, Moved DEF Begin, AfterResult, Phase, Holding, Answering, In
<1>12. ASSUME NEW d \in Delivery, Hydrate(d) PROVE Answering'
  BY <1>12, Moved DEF Hydrate, Phase, Holding, Answering, In
<1>13. ASSUME NEW d \in Delivery, HydrateFails(d) PROVE Answering'
  <2>1. task[d].worker \in Worker
    BY <1>13 DEF TypeOK, Manned, HydrateFails, In
  <2>2. SeesCancel(d) => KeysOf[JobOf(d)] \cap asked # {}
    BY <2>1, SeesAsked
  <2> QED
    BY <1>13, <2>2, Moved DEF HydrateFails, AfterResult, Phase, Holding, Answering, In
<1>14. ASSUME NEW d \in Delivery, SolveEnds(d) PROVE Answering'
  <2>1. task[d].worker \in Worker
    BY <1>14 DEF TypeOK, Manned, SolveEnds, In
  <2>2. SeesCancel(d) => KeysOf[JobOf(d)] \cap asked # {}
    BY <2>1, SeesAsked
  <2> QED
    BY <1>14, <2>2, Moved DEF SolveEnds, AfterResult, Phase, Holding, Answering, In
<1>15. ASSUME NEW d \in Delivery, StopCancelled(d) PROVE Answering'
  <2>1. task[d].worker \in Worker
    BY <1>15 DEF TypeOK, Manned, StopCancelled, In
  <2>2. SeesCancel(d) => KeysOf[JobOf(d)] \cap asked # {}
    BY <2>1, SeesAsked
  <2> QED
    BY <1>15, <2>2, Moved DEF StopCancelled, AfterResult, Phase, Holding, Answering, In
<1>16. ASSUME NEW d \in Delivery, OrphanEnds(d) PROVE Answering'
  BY <1>16 DEF OrphanEnds, Answering, In
<1>17. ASSUME NEW d \in Delivery, PublishResult(d) PROVE Answering'
  BY <1>17, Moved DEF PublishResult, Phase, Holding, Answering, In
<1>18. ASSUME NEW d \in Delivery, Finish(d) PROVE Answering'
  BY <1>18, Moved DEF Finish, Phase, Answering, In
<1>19. CASE UNCHANGED vars
  BY <1>19 DEF vars, Answering, In
<1> QED
  BY <1>1, <1>2, <1>3, <1>4, <1>5, <1>6, <1>7, <1>8, <1>9, <1>10, <1>11, <1>12, <1>13, <1>14, <1>15, <1>16, <1>17, <1>18, <1>19
  DEF Next, Stream, Cancels, LoopStep, TaskStep

(* No acknowledgement without an answer or a cancel.                        *)
LEMMA AckedStep ==
  ASSUME TypeOK, Manned, AckedIsAnswered, Answering, HeardIsAsked, [Next]_vars
  PROVE  AckedIsAnswered'
<1>1. ASSUME NEW j \in Job, Publish(j) PROVE AckedIsAnswered'
  BY <1>1 DEF Publish, TypeOK, AckedIsAnswered
<1>2. ASSUME NEW w \in Worker, NEW j \in Job, Deliver(w, j) PROVE AckedIsAnswered'
  BY <1>2 DEF Deliver, TypeOK, AckedIsAnswered
<1>3. ASSUME NEW j \in Job, Expire(j) PROVE AckedIsAnswered'
  BY <1>3, Back DEF Expire, AckedIsAnswered
<1>4. ASSUME NEW k \in Key, AskCancel(k) PROVE AckedIsAnswered'
  BY <1>4 DEF AskCancel, TypeOK, AckedIsAnswered
<1>5. ASSUME NEW w \in Worker, NEW k \in Key, HearCancel(w, k) PROVE AckedIsAnswered'
  BY <1>5 DEF HearCancel, TypeOK, AckedIsAnswered
<1>6. ASSUME NEW w \in Worker, DropMalformed(w) PROVE AckedIsAnswered'
  BY <1>6, Taken, Acknowledged DEF DropMalformed, AckedIsAnswered
<1>7. ASSUME NEW w \in Worker, Postpone(w) PROVE AckedIsAnswered'
  BY <1>7, Taken, Refused DEF Postpone, AckedIsAnswered
<1>8. ASSUME NEW w \in Worker, SkipCancelled(w) PROVE AckedIsAnswered'
  BY <1>8, Taken, Acknowledged, KnownAsked DEF SkipCancelled, AckedIsAnswered
<1>9. ASSUME NEW w \in Worker, StartTask(w) PROVE AckedIsAnswered'
  BY <1>9 DEF StartTask, TypeOK, AckedIsAnswered
<1>10. ASSUME NEW w \in Worker, Crash(w) PROVE AckedIsAnswered'
  BY <1>10 DEF Crash, TypeOK, AckedIsAnswered
<1>11. ASSUME NEW d \in Delivery, Begin(d) PROVE AckedIsAnswered'
  BY <1>11 DEF Begin, TypeOK, AckedIsAnswered
<1>12. ASSUME NEW d \in Delivery, Hydrate(d) PROVE AckedIsAnswered'
  BY <1>12 DEF Hydrate, TypeOK, AckedIsAnswered
<1>13. ASSUME NEW d \in Delivery, HydrateFails(d) PROVE AckedIsAnswered'
  BY <1>13 DEF HydrateFails, TypeOK, AckedIsAnswered
<1>14. ASSUME NEW d \in Delivery, SolveEnds(d) PROVE AckedIsAnswered'
  BY <1>14 DEF SolveEnds, TypeOK, AckedIsAnswered
<1>15. ASSUME NEW d \in Delivery, StopCancelled(d) PROVE AckedIsAnswered'
  BY <1>15 DEF StopCancelled, TypeOK, AckedIsAnswered
<1>16. ASSUME NEW d \in Delivery, OrphanEnds(d) PROVE AckedIsAnswered'
  BY <1>16 DEF OrphanEnds, TypeOK, AckedIsAnswered
<1>17. ASSUME NEW d \in Delivery, PublishResult(d) PROVE AckedIsAnswered'
  BY <1>17 DEF PublishResult, AckedIsAnswered
<1>18. ASSUME NEW d \in Delivery, Finish(d) PROVE AckedIsAnswered'
  <2>1. CASE task[d].phase \in {"ack", "drop"} /\ SendAck(JobOf(d))
    <3>1. JobOf(d) \in Job
      BY JobsOfDeliveries
    <3>2. d \in stored \/ KeysOf[JobOf(d)] \cap asked # {}
      BY <2>1 DEF Answering, In
    <3>3. \A i \in Job : i # JobOf(d) => queue'[i] = queue[i]
      BY <2>1, <3>1, Acknowledged
    <3>4. stored' = stored /\ asked' = asked
      BY <1>18 DEF Finish
    <3> QED
      BY <3>1, <3>2, <3>3, <3>4 DEF AckedIsAnswered
  <2>2. CASE SendNak(JobOf(d))
    BY <1>18, <2>2, JobsOfDeliveries, Refused DEF Finish, AckedIsAnswered
  <2> QED
    BY <1>18, <2>1, <2>2 DEF Finish
<1>19. CASE UNCHANGED vars
  BY <1>19 DEF vars, AckedIsAnswered
<1> QED
  BY <1>1, <1>2, <1>3, <1>4, <1>5, <1>6, <1>7, <1>8, <1>9, <1>10, <1>11, <1>12, <1>13, <1>14, <1>15, <1>16, <1>17, <1>18, <1>19
  DEF Next, Stream, Cancels, LoopStep, TaskStep

(* A solver thread belongs to a task that solves, or is known cancelled.    *)
LEMMA ThreadStep ==
  ASSUME TypeOK, Manned, HandledOnce, ThreadsAreSolving, [Next]_vars
  PROVE  ThreadsAreSolving'
<1>1. ASSUME NEW j \in Job, Publish(j) PROVE ThreadsAreSolving'
  BY <1>1 DEF Publish, TypeOK, ThreadsAreSolving, In, SeesCancel, Cancelled
<1>2. ASSUME NEW w \in Worker, NEW j \in Job, Deliver(w, j) PROVE ThreadsAreSolving'
  BY <1>2 DEF Deliver, TypeOK, ThreadsAreSolving, In, SeesCancel, Cancelled
<1>3. ASSUME NEW j \in Job, Expire(j) PROVE ThreadsAreSolving'
  BY <1>3 DEF Expire, TypeOK, ThreadsAreSolving, In, SeesCancel, Cancelled
<1>4. ASSUME NEW k \in Key, AskCancel(k) PROVE ThreadsAreSolving'
  BY <1>4 DEF AskCancel, TypeOK, ThreadsAreSolving, In, SeesCancel, Cancelled
<1>5. ASSUME NEW w \in Worker, NEW k \in Key, HearCancel(w, k) PROVE ThreadsAreSolving'
  BY <1>5 DEF HearCancel, TypeOK, ThreadsAreSolving, In, SeesCancel, Cancelled
<1>6. ASSUME NEW w \in Worker, DropMalformed(w) PROVE ThreadsAreSolving'
  BY <1>6 DEF DropMalformed, TypeOK, ThreadsAreSolving, In, SeesCancel, Cancelled
<1>7. ASSUME NEW w \in Worker, Postpone(w) PROVE ThreadsAreSolving'
  BY <1>7 DEF Postpone, TypeOK, ThreadsAreSolving, In, SeesCancel, Cancelled
<1>8. ASSUME NEW w \in Worker, SkipCancelled(w) PROVE ThreadsAreSolving'
  BY <1>8 DEF SkipCancelled, TypeOK, ThreadsAreSolving, In, SeesCancel, Cancelled
<1>9. ASSUME NEW w \in Worker, StartTask(w) PROVE ThreadsAreSolving'
  <2>1. Head(inbox[w]) \in Delivery /\ task[Head(inbox[w])].phase = "none"
    BY <1>9, Taken DEF StartTask, HandledOnce
  <2>2. Head(inbox[w]) \notin thread
    BY <2>1 DEF ThreadsAreSolving, In
  <2> QED
    BY <1>9, <2>2 DEF StartTask, TypeOK, ThreadsAreSolving, In, SeesCancel, Cancelled
<1>10. ASSUME NEW w \in Worker, Crash(w) PROVE ThreadsAreSolving'
  <2> SUFFICES ASSUME NEW d \in thread'
               PROVE  ~In(d, "none")' /\ (In(d, "solving")' \/ SeesCancel(d)')
    BY DEF ThreadsAreSolving
  <2>1. d \in thread /\ d \in Delivery /\ task[d].worker # w
    BY <1>10 DEF Crash, TypeOK
  <2>2. task'[d] = task[d]
    BY <1>10, <2>1, Died
  <2>3. known'[task[d].worker] = known[task[d].worker]
    BY <1>10, <2>1 DEF Crash, TypeOK
  <2> QED
    BY <2>1, <2>2, <2>3 DEF ThreadsAreSolving, In, SeesCancel, Cancelled
<1>11. ASSUME NEW d \in Delivery, Begin(d) PROVE ThreadsAreSolving'
  <2> SUFFICES ASSUME NEW e \in thread'
               PROVE  ~In(e, "none")' /\ (In(e, "solving")' \/ SeesCancel(e)')
    BY DEF ThreadsAreSolving
  <2>1. e \in Delivery /\ known' = known /\ (e # d => e \in thread)
    BY <1>11 DEF Begin, TypeOK
  <2>2. /\ \A f \in Delivery : f # d => task'[f] = task[f]
        /\ task'[d].worker = task[d].worker
        /\ task'[d].phase \in Phase \ {"none"}
    BY <1>11, Moved, Outcomes DEF Begin, Phase, Holding
  <2>3. CASE e # d
    BY <2>1, <2>2, <2>3 DEF ThreadsAreSolving, In, SeesCancel, Cancelled
  <2>4. CASE e = d
    <3>1. ~In(e, "none")' /\ SeesCancel(e)' = SeesCancel(e)
      BY <2>1, <2>2, <2>4 DEF In, SeesCancel, Cancelled
    <3>2. In(e, "solving")' \/ SeesCancel(e)
      BY <1>11, <2>4, Moved DEF Begin, ThreadsAreSolving, In, Phase, Holding
    <3> QED
      BY <3>1, <3>2
  <2> QED
    BY <2>3, <2>4
<1>12. ASSUME NEW d \in Delivery, Hydrate(d) PROVE ThreadsAreSolving'
  <2> SUFFICES ASSUME NEW e \in thread'
               PROVE  ~In(e, "none")' /\ (In(e, "solving")' \/ SeesCancel(e)')
    BY DEF ThreadsAreSolving
  <2>1. e \in Delivery /\ known' = known /\ (e # d => e \in thread)
    BY <1>12 DEF Hydrate, TypeOK
  <2>2. /\ \A f \in Delivery : f # d => task'[f] = task[f]
        /\ task'[d].worker = task[d].worker
        /\ task'[d].phase \in Phase \ {"none"}
    BY <1>12, Moved, Outcomes DEF Hydrate, Phase, Holding
  <2>3. CASE e # d
    BY <2>1, <2>2, <2>3 DEF ThreadsAreSolving, In, SeesCancel, Cancelled
  <2>4. CASE e = d
    <3>1. ~In(e, "none")' /\ SeesCancel(e)' = SeesCancel(e)
      BY <2>1, <2>2, <2>4 DEF In, SeesCancel, Cancelled
    <3>2. In(e, "solving")' \/ SeesCancel(e)
      BY <1>12, <2>4, Moved DEF Hydrate, ThreadsAreSolving, In, Phase, Holding
    <3> QED
      BY <3>1, <3>2
  <2> QED
    BY <2>3, <2>4
<1>13. ASSUME NEW d \in Delivery, HydrateFails(d) PROVE ThreadsAreSolving'
  <2> SUFFICES ASSUME NEW e \in thread'
               PROVE  ~In(e, "none")' /\ (In(e, "solving")' \/ SeesCancel(e)')
    BY DEF ThreadsAreSolving
  <2>1. e \in Delivery /\ known' = known /\ (e # d => e \in thread)
    BY <1>13 DEF HydrateFails, TypeOK
  <2>2. /\ \A f \in Delivery : f # d => task'[f] = task[f]
        /\ task'[d].worker = task[d].worker
        /\ task'[d].phase \in Phase \ {"none"}
    BY <1>13, Moved, Outcomes DEF HydrateFails, Phase, Holding
  <2>3. CASE e # d
    BY <2>1, <2>2, <2>3 DEF ThreadsAreSolving, In, SeesCancel, Cancelled
  <2>4. CASE e = d
    <3>1. ~In(e, "none")' /\ SeesCancel(e)' = SeesCancel(e)
      BY <2>1, <2>2, <2>4 DEF In, SeesCancel, Cancelled
    <3>2. In(e, "solving")' \/ SeesCancel(e)
      BY <1>13, <2>4, Moved DEF HydrateFails, ThreadsAreSolving, In, Phase, Holding
    <3> QED
      BY <3>1, <3>2
  <2> QED
    BY <2>3, <2>4
<1>14. ASSUME NEW d \in Delivery, SolveEnds(d) PROVE ThreadsAreSolving'
  <2> SUFFICES ASSUME NEW e \in thread'
               PROVE  ~In(e, "none")' /\ (In(e, "solving")' \/ SeesCancel(e)')
    BY DEF ThreadsAreSolving
  <2>1. e \in Delivery /\ known' = known /\ (e # d => e \in thread)
    BY <1>14 DEF SolveEnds, TypeOK
  <2>2. /\ \A f \in Delivery : f # d => task'[f] = task[f]
        /\ task'[d].worker = task[d].worker
        /\ task'[d].phase \in Phase \ {"none"}
    BY <1>14, Moved, Outcomes DEF SolveEnds, Phase, Holding
  <2>3. CASE e # d
    BY <2>1, <2>2, <2>3 DEF ThreadsAreSolving, In, SeesCancel, Cancelled
  <2>4. CASE e = d
    <3>1. ~In(e, "none")' /\ SeesCancel(e)' = SeesCancel(e)
      BY <2>1, <2>2, <2>4 DEF In, SeesCancel, Cancelled
    <3>2. In(e, "solving")' \/ SeesCancel(e)
      BY <1>14, <2>4, Moved DEF SolveEnds, ThreadsAreSolving, In, Phase, Holding
    <3> QED
      BY <3>1, <3>2
  <2> QED
    BY <2>3, <2>4
<1>15. ASSUME NEW d \in Delivery, StopCancelled(d) PROVE ThreadsAreSolving'
  <2> SUFFICES ASSUME NEW e \in thread'
               PROVE  ~In(e, "none")' /\ (In(e, "solving")' \/ SeesCancel(e)')
    BY DEF ThreadsAreSolving
  <2>1. e \in Delivery /\ known' = known /\ (e # d => e \in thread)
    BY <1>15 DEF StopCancelled, TypeOK
  <2>2. /\ \A f \in Delivery : f # d => task'[f] = task[f]
        /\ task'[d].worker = task[d].worker
        /\ task'[d].phase \in Phase \ {"none"}
    BY <1>15, Moved, Outcomes DEF StopCancelled, Phase, Holding
  <2>3. CASE e # d
    BY <2>1, <2>2, <2>3 DEF ThreadsAreSolving, In, SeesCancel, Cancelled
  <2>4. CASE e = d
    <3>1. ~In(e, "none")' /\ SeesCancel(e)' = SeesCancel(e)
      BY <2>1, <2>2, <2>4 DEF In, SeesCancel, Cancelled
    <3>2. In(e, "solving")' \/ SeesCancel(e)
      BY <1>15, <2>4, Moved DEF StopCancelled, ThreadsAreSolving, In, Phase, Holding
    <3> QED
      BY <3>1, <3>2
  <2> QED
    BY <2>3, <2>4
<1>16. ASSUME NEW d \in Delivery, OrphanEnds(d) PROVE ThreadsAreSolving'
  BY <1>16 DEF OrphanEnds, TypeOK, ThreadsAreSolving, In, SeesCancel, Cancelled
<1>17. ASSUME NEW d \in Delivery, PublishResult(d) PROVE ThreadsAreSolving'
  <2> SUFFICES ASSUME NEW e \in thread'
               PROVE  ~In(e, "none")' /\ (In(e, "solving")' \/ SeesCancel(e)')
    BY DEF ThreadsAreSolving
  <2>1. e \in Delivery /\ known' = known /\ (e # d => e \in thread)
    BY <1>17 DEF PublishResult, TypeOK
  <2>2. /\ \A f \in Delivery : f # d => task'[f] = task[f]
        /\ task'[d].worker = task[d].worker
        /\ task'[d].phase \in Phase \ {"none"}
    BY <1>17, Moved, Outcomes DEF PublishResult, Phase, Holding
  <2>3. CASE e # d
    BY <2>1, <2>2, <2>3 DEF ThreadsAreSolving, In, SeesCancel, Cancelled
  <2>4. CASE e = d
    <3>1. ~In(e, "none")' /\ SeesCancel(e)' = SeesCancel(e)
      BY <2>1, <2>2, <2>4 DEF In, SeesCancel, Cancelled
    <3>2. In(e, "solving")' \/ SeesCancel(e)
      BY <1>17, <2>4, Moved DEF PublishResult, ThreadsAreSolving, In, Phase, Holding
    <3> QED
      BY <3>1, <3>2
  <2> QED
    BY <2>3, <2>4
<1>18. ASSUME NEW d \in Delivery, Finish(d) PROVE ThreadsAreSolving'
  <2> SUFFICES ASSUME NEW e \in thread'
               PROVE  ~In(e, "none")' /\ (In(e, "solving")' \/ SeesCancel(e)')
    BY DEF ThreadsAreSolving
  <2>1. e \in Delivery /\ known' = known /\ (e # d => e \in thread)
    BY <1>18 DEF Finish, TypeOK
  <2>2. /\ \A f \in Delivery : f # d => task'[f] = task[f]
        /\ task'[d].worker = task[d].worker
        /\ task'[d].phase \in Phase \ {"none"}
    BY <1>18, Moved, Outcomes DEF Finish, Phase, Holding
  <2>3. CASE e # d
    BY <2>1, <2>2, <2>3 DEF ThreadsAreSolving, In, SeesCancel, Cancelled
  <2>4. CASE e = d
    <3>1. ~In(e, "none")' /\ SeesCancel(e)' = SeesCancel(e)
      BY <2>1, <2>2, <2>4 DEF In, SeesCancel, Cancelled
    <3>2. In(e, "solving")' \/ SeesCancel(e)
      BY <1>18, <2>4, Moved DEF Finish, ThreadsAreSolving, In, Phase, Holding
    <3> QED
      BY <3>1, <3>2
  <2> QED
    BY <2>3, <2>4
<1>19. CASE UNCHANGED vars
  BY <1>19 DEF vars, ThreadsAreSolving, In, SeesCancel, Cancelled
<1> QED
  BY <1>1, <1>2, <1>3, <1>4, <1>5, <1>6, <1>7, <1>8, <1>9, <1>10, <1>11, <1>12, <1>13, <1>14, <1>15, <1>16, <1>17, <1>18, <1>19
  DEF Next, Stream, Cancels, LoopStep, TaskStep

(* The holders of slots are finitely many.                                  *)
LEMMA FewHolders ==
  \A w : IsFiniteSet(HoldersAt(w)) /\ Cardinality(HoldersAt(w)) \in Nat
<1>1. IsFiniteSet(1..MaxDeliver)
  BY FS_Interval, WorkerAssumption
<1>2. IsFiniteSet(Delivery)
  BY <1>1, FS_Product, WorkerAssumption DEF Delivery
<1>3. \A w : HoldersAt(w) \subseteq Delivery
  BY DEF HoldersAt
<1> QED
  BY <1>2, <1>3, FS_Subset, FS_CardinalityType

LEMMA AddOne ==
  ASSUME NEW S, NEW x, IsFiniteSet(S)
  PROVE  /\ IsFiniteSet(S \cup {x})
         /\ Cardinality(S \cup {x}) <= Cardinality(S) + 1
         /\ Cardinality(S \cup {x}) \in Nat
<1>1. Cardinality(S) \in Nat
  BY FS_CardinalityType
<1>2. /\ IsFiniteSet(S \cup {x})
      /\ Cardinality(S \cup {x}) = IF x \in S THEN Cardinality(S) ELSE Cardinality(S) + 1
  BY FS_AddElement
<1> QED
  BY <1>1, <1>2

LEMMA FewerHolders ==
  ASSUME SlotsRespected, \A w \in Worker : HoldersAt(w)' \subseteq HoldersAt(w)
  PROVE  SlotsRespected'
<1> SUFFICES ASSUME NEW w \in Worker PROVE Cardinality(HoldersAt(w)') <= MaxInFlight
  BY DEF SlotsRespected
<1>1. /\ Cardinality(HoldersAt(w)') \in Nat
      /\ Cardinality(HoldersAt(w)') <= Cardinality(HoldersAt(w))
  BY FewHolders, FS_Subset, FS_CardinalityType
<1> QED
  BY <1>1, FewHolders, WorkerAssumption DEF SlotsRespected

(* Only StartTask takes a slot, and it found one free.                      *)
LEMMA SlotStep ==
  ASSUME TypeOK, SlotsRespected, [Next]_vars
  PROVE  SlotsRespected'
<1>1. ASSUME NEW j \in Job, Publish(j) PROVE SlotsRespected'
  BY <1>1, FewerHolders DEF Publish, HoldersAt
<1>2. ASSUME NEW w \in Worker, NEW j \in Job, Deliver(w, j) PROVE SlotsRespected'
  BY <1>2, FewerHolders DEF Deliver, HoldersAt
<1>3. ASSUME NEW j \in Job, Expire(j) PROVE SlotsRespected'
  BY <1>3, FewerHolders DEF Expire, HoldersAt
<1>4. ASSUME NEW k \in Key, AskCancel(k) PROVE SlotsRespected'
  BY <1>4, FewerHolders DEF AskCancel, HoldersAt
<1>5. ASSUME NEW w \in Worker, NEW k \in Key, HearCancel(w, k) PROVE SlotsRespected'
  BY <1>5, FewerHolders DEF HearCancel, HoldersAt
<1>6. ASSUME NEW w \in Worker, DropMalformed(w) PROVE SlotsRespected'
  BY <1>6, FewerHolders DEF DropMalformed, HoldersAt
<1>7. ASSUME NEW w \in Worker, Postpone(w) PROVE SlotsRespected'
  BY <1>7, FewerHolders DEF Postpone, HoldersAt
<1>8. ASSUME NEW w \in Worker, SkipCancelled(w) PROVE SlotsRespected'
  BY <1>8, FewerHolders DEF SkipCancelled, HoldersAt
<1>9. ASSUME NEW w \in Worker, StartTask(w) PROVE SlotsRespected'
  <2> DEFINE e == Head(inbox[w])
  <2>1. e \in Delivery /\ \A d \in Delivery : d # e => task'[d] = task[d]
    BY <1>9, Taken DEF StartTask, TypeOK
  <2>2. task'[e].worker = w
    BY <1>9, <2>1 DEF StartTask, TypeOK
  <2>3. Cardinality(HoldersAt(w)) < MaxInFlight
    BY <1>9 DEF StartTask, Refuses, FreeSlot
  <2> HIDE DEF e
  <2>4. HoldersAt(w)' \subseteq HoldersAt(w) \cup {e}
    BY <2>1 DEF HoldersAt
  <2>5. /\ IsFiniteSet(HoldersAt(w) \cup {e})
        /\ Cardinality(HoldersAt(w) \cup {e}) <= Cardinality(HoldersAt(w)) + 1
        /\ Cardinality(HoldersAt(w) \cup {e}) \in Nat
    <3>1. IsFiniteSet(HoldersAt(w)) /\ Cardinality(HoldersAt(w)) \in Nat
      BY FewHolders
    <3> QED
      BY <3>1, AddOne
  <2>6. Cardinality(HoldersAt(w)') <= MaxInFlight
    <3>1. /\ Cardinality(HoldersAt(w)') \in Nat
          /\ Cardinality(HoldersAt(w)') <= Cardinality(HoldersAt(w) \cup {e})
      BY <2>4, <2>5, FS_Subset, FS_CardinalityType
    <3> QED
      BY <3>1, <2>3, <2>5, FewHolders, WorkerAssumption
  <2>7. ASSUME NEW v \in Worker, v # w PROVE Cardinality(HoldersAt(v)') <= MaxInFlight
    <3>1. HoldersAt(v)' \subseteq HoldersAt(v)
      BY <2>1, <2>2, <2>7 DEF HoldersAt
    <3>2. /\ Cardinality(HoldersAt(v)') \in Nat
          /\ Cardinality(HoldersAt(v)') <= Cardinality(HoldersAt(v))
      BY <3>1, FewHolders, FS_Subset, FS_CardinalityType
    <3> QED
      BY <3>2, FewHolders, WorkerAssumption DEF SlotsRespected
  <2> QED
    BY <2>6, <2>7 DEF SlotsRespected
<1>10. ASSUME NEW w \in Worker, Crash(w) PROVE SlotsRespected'
  <2>1. \A v \in Worker : HoldersAt(v)' \subseteq HoldersAt(v)
    BY <1>10, Died DEF HoldersAt, Holding
  <2> QED
    BY <2>1, FewerHolders
<1>11. ASSUME NEW d \in Delivery, Begin(d) PROVE SlotsRespected'
  <2>1. \A v \in Worker : HoldersAt(v)' \subseteq HoldersAt(v)
    BY <1>11, Moved, Outcomes DEF Begin, Phase, HoldersAt, Holding, In
  <2> QED
    BY <2>1, FewerHolders
<1>12. ASSUME NEW d \in Delivery, Hydrate(d) PROVE SlotsRespected'
  <2>1. \A v \in Worker : HoldersAt(v)' \subseteq HoldersAt(v)
    BY <1>12, Moved, Outcomes DEF Hydrate, Phase, HoldersAt, Holding, In
  <2> QED
    BY <2>1, FewerHolders
<1>13. ASSUME NEW d \in Delivery, HydrateFails(d) PROVE SlotsRespected'
  <2>1. \A v \in Worker : HoldersAt(v)' \subseteq HoldersAt(v)
    BY <1>13, Moved, Outcomes DEF HydrateFails, Phase, HoldersAt, Holding, In
  <2> QED
    BY <2>1, FewerHolders
<1>14. ASSUME NEW d \in Delivery, SolveEnds(d) PROVE SlotsRespected'
  <2>1. \A v \in Worker : HoldersAt(v)' \subseteq HoldersAt(v)
    BY <1>14, Moved, Outcomes DEF SolveEnds, Phase, HoldersAt, Holding, In
  <2> QED
    BY <2>1, FewerHolders
<1>15. ASSUME NEW d \in Delivery, StopCancelled(d) PROVE SlotsRespected'
  <2>1. \A v \in Worker : HoldersAt(v)' \subseteq HoldersAt(v)
    BY <1>15, Moved, Outcomes DEF StopCancelled, Phase, HoldersAt, Holding, In
  <2> QED
    BY <2>1, FewerHolders
<1>16. ASSUME NEW d \in Delivery, OrphanEnds(d) PROVE SlotsRespected'
  BY <1>16, FewerHolders DEF OrphanEnds, HoldersAt
<1>17. ASSUME NEW d \in Delivery, PublishResult(d) PROVE SlotsRespected'
  <2>1. \A v \in Worker : HoldersAt(v)' \subseteq HoldersAt(v)
    BY <1>17, Moved, Outcomes DEF PublishResult, Phase, HoldersAt, Holding, In
  <2> QED
    BY <2>1, FewerHolders
<1>18. ASSUME NEW d \in Delivery, Finish(d) PROVE SlotsRespected'
  <2>1. \A v \in Worker : HoldersAt(v)' \subseteq HoldersAt(v)
    BY <1>18, Moved, Outcomes DEF Finish, Phase, HoldersAt, Holding, In
  <2> QED
    BY <2>1, FewerHolders
<1>19. CASE UNCHANGED vars
  BY <1>19 DEF vars, SlotsRespected, HoldersAt
<1> QED
  BY <1>1, <1>2, <1>3, <1>4, <1>5, <1>6, <1>7, <1>8, <1>9, <1>10, <1>11, <1>12, <1>13, <1>14, <1>15, <1>16, <1>17, <1>18, <1>19
  DEF Next, Stream, Cancels, LoopStep, TaskStep

-----------------------------------------------------------------------------
(* The invariant is inductive: it holds of a stream and slaves that have    *)
(* done nothing, and each step of run_slave, its tasks, the stream, a       *)
(* cancel or a crash keeps it.                                              *)
THEOREM WorkerInductive == Spec => []WorkerInv
<1>1. Init => WorkerInv
  <2> SUFFICES ASSUME Init PROVE WorkerInv
    OBVIOUS
  <2>1. TypeOK
    BY WorkerAssumption, EmptySeq DEF Init, TypeOK, QueueState, Phase, Holding, NoTask
  <2>2. AckedIsAnswered /\ Answering /\ HeardIsAsked /\ ThreadsAreSolving
    BY DEF Init, NoTask, AckedIsAnswered, Answering, HeardIsAsked, ThreadsAreSolving, In
  <2>3. Manned
    BY DEF Init, NoTask, Manned, In
  <2>4. \A w \in Worker : HoldersAt(w) = {}
    BY DEF Init, NoTask, HoldersAt, Holding
  <2>5. SlotsRespected
    BY <2>4, FS_EmptySet, WorkerAssumption DEF SlotsRespected
  <2>6. \A w \in Worker : DOMAIN inbox[w] = {}
    BY DEF Init
  <2>7. HandledOnce
    BY <2>6 DEF Init, NoTask, HandledOnce
  <2> QED
    BY <2>1, <2>2, <2>3, <2>5, <2>7 DEF WorkerInv
<1>2. WorkerInv /\ [Next]_vars => WorkerInv'
  <2> SUFFICES ASSUME WorkerInv, [Next]_vars PROVE WorkerInv'
    OBVIOUS
  <2> QED
    BY TypeStep, HeardStep, MannedStep, HandledStep, AnsweringStep, AckedStep, ThreadStep, SlotStep
    DEF WorkerInv
<1> QED
  BY <1>1, <1>2, PTL DEF Spec

(* Type correctness of the slaves and the queue.                            *)
THEOREM WorkerTypes == Spec => []TypeOK
<1>1. WorkerInv => TypeOK
  BY DEF WorkerInv
<1> QED
  BY <1>1, WorkerInductive, PTL

(* run_slave acknowledges a job only after its result is stored, its cancel *)
(* was asked for, or its payload proved malformed.                          *)
THEOREM NoJobDropped == Spec => []AckedIsAnswered
<1>1. WorkerInv => AckedIsAnswered
  BY DEF WorkerInv
<1> QED
  BY <1>1, WorkerInductive, PTL

(* The solver threads of jobs a slave does not know to be cancelled all     *)
(* hold one of its slots.                                                   *)
THEOREM SolversBounded == Spec => []SolversHoldSlots
<1>1. WorkerInv => SolversHoldSlots
  <2> SUFFICES ASSUME WorkerInv, NEW w \in Worker
               PROVE  Cardinality({d \in ThreadsAt(w) : ~Cancelled(w, JobOf(d))}) <= MaxInFlight
    BY DEF SolversHoldSlots
  <2> DEFINE S == {d \in ThreadsAt(w) : ~Cancelled(w, JobOf(d))}
  <2>1. S \subseteq HoldersAt(w)
    BY DEF WorkerInv, TypeOK, ThreadsAreSolving, ThreadsAt, HoldersAt, Holding, In, SeesCancel
  <2>2. Cardinality(S) \in Nat /\ Cardinality(S) <= Cardinality(HoldersAt(w))
    BY <2>1, FewHolders, FS_Subset, FS_CardinalityType
  <2> HIDE DEF S
  <2>3. Cardinality(S) <= MaxInFlight
    BY <2>2, FewHolders, WorkerAssumption DEF WorkerInv, SlotsRespected
  <2> QED
    BY <2>3 DEF S
<1> QED
  BY <1>1, WorkerInductive, PTL
=============================================================================
