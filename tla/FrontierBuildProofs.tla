-------------------------- MODULE FrontierBuildProofs --------------------------
(***************************************************************************)
(* Proofs about FrontierBuild, for every tree, split depth and cap: the    *)
(* pre-split keeps its cap and its depth and hands over a frontier of the  *)
(* problem, which is what MasterSolve assumes of Frontiers.                *)
(***************************************************************************)
EXTENDS FrontierBuild, Functions, FiniteSetTheorems, SequenceTheorems, TLAPS

LEMMA KidsFacts ==
  ASSUME NEW n \in Node, Kids[n] # <<>>
  PROVE  Kids[n][1] \in Node /\ Kids[n][2] \in Node
<1>1. Kids[n] \in Node \X Node
  BY TreeAssumption DEF TreeTypes
<1> QED
  BY <1>1

(* The popped node and the rest of the queue.                               *)
LEMMA Popped ==
  ASSUME TypeOK, queue # <<>>
  PROVE  /\ Head(queue) \in Node /\ Head(queue) = queue[1]
         /\ Tail(queue) \in Seq(Node)
         /\ Len(queue) \in Nat /\ Len(queue) >= 1
         /\ Len(Tail(queue)) = Len(queue) - 1
         /\ \A i \in 1..Len(queue) - 1 : Tail(queue)[i] = queue[i + 1]
BY HeadTailProperties, EmptySeq, LenProperties DEF TypeOK

(* The queue after a split.                                                 *)
LEMMA Pushed ==
  ASSUME TypeOK, queue # <<>>, Kids[Head(queue)] # <<>>
  PROVE  LET n == Head(queue)
             q == QueueChildren(n)
         IN  /\ q \in Seq(Node)
             /\ Len(q) = Len(queue) + 1
             /\ \A i \in 1..Len(queue) - 1 : q[i] = queue[i + 1]
             /\ q[Len(queue)] = Kids[n][1]
             /\ q[Len(queue) + 1] = Kids[n][2]
<1> DEFINE n == Head(queue)
           l == Kids[n][1]
           r == Kids[n][2]
           t == Tail(queue)
           q == t \o <<l, r>>
<1>1. /\ n \in Node /\ t \in Seq(Node) /\ Len(queue) \in Nat /\ Len(queue) >= 1
      /\ Len(t) = Len(queue) - 1
      /\ \A i \in 1..Len(queue) - 1 : t[i] = queue[i + 1]
  BY Popped
<1>2. l \in Node /\ r \in Node
  BY <1>1, KidsFacts
<1> HIDE DEF n, l, r, t
<1>3. <<l, r>> \in Seq(Node) /\ Len(<<l, r>>) = 2 /\ <<l, r>>[1] = l /\ <<l, r>>[2] = r
  BY <1>2
<1>4. /\ q \in Seq(Node)
      /\ Len(q) = Len(t) + 2
      /\ \A i \in 1..(Len(t) + 2) : q[i] = IF i <= Len(t) THEN t[i] ELSE <<l, r>>[i - Len(t)]
  BY <1>1, <1>3, ConcatProperties
<1>5. Len(t) \in Nat
  BY <1>1
<1>6. \A i \in 1..Len(queue) - 1 : q[i] = queue[i + 1]
  BY <1>1, <1>4, <1>5
<1>7. q[Len(queue)] = l /\ q[Len(queue) + 1] = r
  <2>1. Len(queue) - Len(t) = 1 /\ Len(queue) + 1 - Len(t) = 2
    BY <1>1
  <2>2. q[Len(queue)] = <<l, r>>[Len(queue) - Len(t)]
    BY <1>1, <1>4
  <2>3. q[Len(queue) + 1] = <<l, r>>[Len(queue) + 1 - Len(t)]
    BY <1>1, <1>4
  <2> QED
    BY <1>3, <2>1, <2>2, <2>3
<1> QED
  BY <1>1, <1>4, <1>6, <1>7 DEF n, l, r, t, QueueChildren
-----------------------------------------------------------------------------
(* Type correctness, the cap and the depth.                                 *)

LEMMA TypeInit == Init => TypeOK
BY TreeAssumption DEF Init, TypeOK, TreeTypes

LEMMA TypeStep == TypeOK /\ [Next]_vars => TypeOK'
<1> SUFFICES ASSUME TypeOK, [Next]_vars PROVE TypeOK'
  OBVIOUS
<1>1. CASE DropInfeasible
  BY <1>1, Popped DEF DropInfeasible, TypeOK
<1>2. CASE Split
  BY <1>2, Pushed DEF Split, MaySplit, TypeOK
<1>3. ASSUME NEW s \in LpStatus, Keep(s) PROVE TypeOK'
  BY <1>3, Popped, AppendProperties DEF Keep, TypeOK
<1>4. CASE LpFails \/ Return \/ UNCHANGED vars
  BY <1>4 DEF LpFails, Return, vars, TypeOK
<1> QED
  BY <1>1, <1>2, <1>3, <1>4 DEF Next

(* Jobs and queue hold only nodes.                                          *)
THEOREM TypeCorrect == Spec => []TypeOK
BY TypeInit, TypeStep, PTL DEF Spec

LEMMA CapInit == Init => CapRespected
<1> SUFFICES ASSUME Init PROVE CapRespected
  OBVIOUS
<1>1. Len(jobs) = 0 /\ Len(queue) = 1
  BY DEF Init
<1> QED
  BY <1>1, FrontierAssumption DEF CapRespected

LEMMA CapStep == TypeOK /\ CapRespected /\ [Next]_vars => CapRespected'
<1> SUFFICES ASSUME TypeOK, CapRespected, [Next]_vars PROVE CapRespected'
  OBVIOUS
<1>0. Len(jobs) \in Nat /\ MaxSubproblems \in Nat
  BY FrontierAssumption, LenProperties DEF TypeOK
<1>1. CASE DropInfeasible
  BY <1>0, <1>1, Popped DEF DropInfeasible, CapRespected
<1>2. CASE Split
  <2>1. Len(queue') = Len(queue) + 1 /\ jobs' = jobs
    BY <1>2, Pushed DEF Split, MaySplit
  <2>2. Len(jobs) + (Len(queue) - 1) + 2 <= MaxSubproblems /\ Len(queue) \in Nat
    BY <1>2, Popped DEF Split, HasRoom
  <2> QED
    BY <1>0, <2>1, <2>2 DEF CapRespected
<1>3. ASSUME NEW s \in LpStatus, Keep(s) PROVE CapRespected'
  <2>1. Len(jobs') = Len(jobs) + 1
    BY <1>3, Popped, AppendProperties DEF Keep, TypeOK
  <2>2. Len(queue') = Len(queue) - 1 /\ Len(queue) \in Nat
    BY <1>3, Popped DEF Keep
  <2> QED
    BY <1>0, <2>1, <2>2 DEF CapRespected
<1>4. CASE LpFails \/ Return \/ UNCHANGED vars
  BY <1>4 DEF LpFails, Return, vars, CapRespected
<1> QED
  BY <1>1, <1>2, <1>3, <1>4 DEF Next

(* The frontier never exceeds max_subproblems, queued nodes included.       *)
THEOREM CapHolds == Spec => []CapRespected
BY CapInit, CapStep, TypeCorrect, PTL DEF Spec

-----------------------------------------------------------------------------
(* The list of pending nodes after one is removed and after two are added.  *)

LEMMA NodesOfSeq ==
  ASSUME NEW s \in Seq(Node)
  PROVE  NodesIn(s) = {s[i] : i \in 1..Len(s)} /\ NodesIn(s) \subseteq Node
BY LenProperties DEF NodesIn

(* P without its element m is R.                                            *)
LEMMA Removed ==
  ASSUME NEW P \in Seq(Node), NEW R \in Seq(Node), NEW m \in 1..Len(P),
         Len(R) = Len(P) - 1,
         \A k \in 1..Len(R) : R[k] = P[IF k < m THEN k ELSE k + 1]
  PROVE  /\ NodesIn(P) = NodesIn(R) \cup {P[m]}
         /\ Disjoint(P) => /\ Disjoint(R)
                           /\ \A k \in 1..Len(R) : Below[R[k]] \cap Below[P[m]] = {}
<1>1. Len(P) \in Nat /\ Len(R) \in Nat
  BY LenProperties
<1>2. \A k \in 1..Len(R) : (IF k < m THEN k ELSE k + 1) \in 1..Len(P)
  BY <1>1
<1>3. ASSUME NEW i \in 1..Len(P), i # m PROVE P[i] \in NodesIn(R)
  <2>1. CASE i < m
    <3>1. i \in 1..Len(R) /\ R[i] = P[i]
      BY <1>1, <2>1
    <3> QED
      BY <3>1, NodesOfSeq
  <2>2. CASE m < i
    <3>1. i - 1 \in 1..Len(R) /\ R[i - 1] = P[i]
      BY <1>1, <2>2
    <3> QED
      BY <3>1, NodesOfSeq
  <2> QED
    BY <1>1, <1>3, <2>1, <2>2
<1>4. NodesIn(P) = NodesIn(R) \cup {P[m]}
  <2>1. NodesIn(P) \subseteq NodesIn(R) \cup {P[m]}
    BY <1>3, NodesOfSeq
  <2>2. NodesIn(R) \subseteq NodesIn(P)
    BY <1>2, NodesOfSeq
  <2>3. P[m] \in NodesIn(P)
    BY NodesOfSeq
  <2> QED
    BY <2>1, <2>2, <2>3
<1>5. ASSUME Disjoint(P), NEW i \in 1..Len(R), NEW j \in 1..Len(R), i # j
      PROVE  Below[R[i]] \cap Below[R[j]] = {}
  <2> DEFINE a == IF i < m THEN i ELSE i + 1
             b == IF j < m THEN j ELSE j + 1
  <2>1. a \in 1..Len(P) /\ b \in 1..Len(P) /\ a # b
    BY <1>1, <1>5
  <2>2. R[i] = P[a] /\ R[j] = P[b]
    OBVIOUS
  <2> QED
    BY <1>5, <2>1, <2>2 DEF Disjoint
<1>6. ASSUME Disjoint(P), NEW i \in 1..Len(R)
      PROVE  Below[R[i]] \cap Below[P[m]] = {}
  <2> DEFINE a == IF i < m THEN i ELSE i + 1
  <2>1. a \in 1..Len(P) /\ a # m
    BY <1>1
  <2>2. R[i] = P[a]
    OBVIOUS
  <2> QED
    BY <1>6, <2>1, <2>2 DEF Disjoint
<1> QED
  BY <1>4, <1>5, <1>6 DEF Disjoint

(* Q is R with two more nodes at the end, which stand for subtrees of n's.  *)
LEMMA Added ==
  ASSUME NEW R \in Seq(Node), NEW Q \in Seq(Node), NEW n \in Node, Kids[n] # <<>>,
         Len(Q) = Len(R) + 2,
         \A k \in 1..Len(R) : Q[k] = R[k],
         Q[Len(R) + 1] = Kids[n][1], Q[Len(R) + 2] = Kids[n][2]
  PROVE  /\ NodesIn(Q) = NodesIn(R) \cup {Kids[n][1], Kids[n][2]}
         /\ (/\ Disjoint(R)
             /\ \A k \in 1..Len(R) : Below[R[k]] \cap Below[n] = {}) => Disjoint(Q)
<1> DEFINE l == Kids[n][1]
           r == Kids[n][2]
<1>1. Len(R) \in Nat
  BY LenProperties
<1>2. /\ Below[l] \subseteq Below[n] /\ Below[r] \subseteq Below[n]
      /\ Below[l] \cap Below[r] = {}
  BY TreeAssumption DEF TreeShape
<1>3. \A k \in 1..Len(Q) : k \in 1..Len(R) \/ k = Len(R) + 1 \/ k = Len(R) + 2
  BY <1>1
<1>4. NodesIn(Q) = NodesIn(R) \cup {l, r}
  <2>1. NodesIn(Q) \subseteq NodesIn(R) \cup {l, r}
    BY <1>3, NodesOfSeq
  <2>2. NodesIn(R) \subseteq NodesIn(Q)
    BY <1>1, NodesOfSeq
  <2>3. Len(R) + 1 \in 1..Len(Q) /\ Len(R) + 2 \in 1..Len(Q)
    BY <1>1
  <2>4. l \in NodesIn(Q) /\ r \in NodesIn(Q)
    BY <2>3, NodesOfSeq
  <2> QED
    BY <2>1, <2>2, <2>4
<1>5. ASSUME Disjoint(R), \A k \in 1..Len(R) : Below[R[k]] \cap Below[n] = {},
             NEW i \in 1..Len(Q), NEW j \in 1..Len(Q), i # j
      PROVE  Below[Q[i]] \cap Below[Q[j]] = {}
  <2> HIDE DEF l, r
  <2>1. CASE i \in 1..Len(R) /\ j \in 1..Len(R)
    BY <1>5, <2>1 DEF Disjoint
  <2>2. CASE i \in 1..Len(R) /\ j \notin 1..Len(R)
    <3>1. Q[j] = l \/ Q[j] = r
      BY <1>3, <2>2 DEF l, r
    <3> QED
      BY <1>2, <1>5, <2>2, <3>1
  <2>3. CASE i \notin 1..Len(R) /\ j \in 1..Len(R)
    <3>1. Q[i] = l \/ Q[i] = r
      BY <1>3, <2>3 DEF l, r
    <3> QED
      BY <1>2, <1>5, <2>3, <3>1
  <2>4. CASE i \notin 1..Len(R) /\ j \notin 1..Len(R)
    <3>1. (Q[i] = l /\ Q[j] = r) \/ (Q[i] = r /\ Q[j] = l)
      BY <1>3, <1>5, <2>4 DEF l, r
    <3> QED
      BY <1>2, <3>1
  <2> QED
    BY <2>1, <2>2, <2>3, <2>4
<1> QED
  BY <1>4, <1>5 DEF Disjoint
-----------------------------------------------------------------------------
(* The frontier.                                                            *)

LEMMA PendingIs ==
  ASSUME NEW j \in Seq(Node), NEW q \in Seq(Node)
  PROVE  /\ j \o q \in Seq(Node) /\ Len(j \o q) = Len(j) + Len(q)
         /\ \A k \in 1..Len(j) : (j \o q)[k] = j[k]
         /\ \A k \in 1..Len(q) : (j \o q)[Len(j) + k] = q[k]
         /\ NodesIn(j \o q) = NodesIn(j) \cup NodesIn(q)
<1>1. /\ j \o q \in Seq(Node) /\ Len(j \o q) = Len(j) + Len(q)
      /\ \A k \in 1..(Len(j) + Len(q)) :
           (j \o q)[k] = IF k <= Len(j) THEN j[k] ELSE q[k - Len(j)]
  BY ConcatProperties
<1>2. Len(j) \in Nat /\ Len(q) \in Nat
  BY LenProperties
<1>3. \A k \in 1..Len(j) : (j \o q)[k] = j[k]
  BY <1>1, <1>2
<1>4. ASSUME NEW k \in 1..Len(q) PROVE (j \o q)[Len(j) + k] = q[k]
  <2>1. Len(j) + k \in 1..(Len(j) + Len(q)) /\ ~(Len(j) + k <= Len(j)) /\ Len(j) + k - Len(j) = k
    BY <1>2
  <2>2. (j \o q)[Len(j) + k] = q[Len(j) + k - Len(j)]
    BY <1>1, <2>1
  <2> QED
    BY <2>1, <2>2
<1>5. NodesIn(j \o q) = NodesIn(j) \cup NodesIn(q)
  <2> DEFINE c == j \o q
  <2>0. /\ NodesIn(c) = {c[k] : k \in 1..Len(c)} /\ NodesIn(j) = {j[k] : k \in 1..Len(j)}
        /\ NodesIn(q) = {q[k] : k \in 1..Len(q)}
    BY <1>1, NodesOfSeq
  <2>1. /\ Len(c) = Len(j) + Len(q)
        /\ \A k \in 1..Len(j) : c[k] = j[k]
        /\ \A k \in 1..Len(q) : c[Len(j) + k] = q[k]
    BY <1>1, <1>3, <1>4
  <2> HIDE DEF c
  <2>2. ASSUME NEW k \in 1..Len(c) PROVE c[k] \in NodesIn(j) \cup NodesIn(q)
    <3>1. CASE k <= Len(j)
      <4>1. k \in 1..Len(j)
        BY <1>2, <2>1, <3>1
      <4> QED
        BY <2>0, <2>1, <4>1
    <3>2. CASE ~(k <= Len(j))
      <4>1. k - Len(j) \in 1..Len(q) /\ Len(j) + (k - Len(j)) = k
        BY <1>2, <2>1, <3>2
      <4>2. c[k] = q[k - Len(j)]
        BY <2>1, <4>1
      <4> QED
        BY <2>0, <4>1, <4>2
    <3> QED
      BY <3>1, <3>2
  <2>3. ASSUME NEW k \in 1..Len(j) PROVE j[k] \in NodesIn(c)
    <3>1. k \in 1..Len(c)
      BY <1>2, <2>1
    <3> QED
      BY <2>0, <2>1, <3>1
  <2>4. ASSUME NEW k \in 1..Len(q) PROVE q[k] \in NodesIn(c)
    <3>1. Len(j) + k \in 1..Len(c)
      BY <1>2, <2>1
    <3> QED
      BY <2>0, <2>1, <3>1
  <2>5. NodesIn(c) \subseteq NodesIn(j) \cup NodesIn(q)
    BY <2>0, <2>2
  <2>6. NodesIn(j) \subseteq NodesIn(c) /\ NodesIn(q) \subseteq NodesIn(c)
    BY <2>0, <2>3, <2>4
  <2> QED
    BY <2>5, <2>6 DEF c
<1> QED
  BY <1>1, <1>3, <1>4, <1>5

FInv ==
  /\ TypeOK
  /\ NoOverlap
  /\ NoPointLost
  /\ DepthBounded
  /\ result = "ok" => queue = <<>>

LEMMA FInvInit == Init => FInv
<1> SUFFICES ASSUME Init PROVE FInv
  OBVIOUS
<1>1. TypeOK
  BY TypeInit
<1>2. Pending = <<Root>>
  <2>1. <<>> \o <<Root>> = <<Root>>
    OBVIOUS
  <2> QED
    BY <2>1 DEF Init, Pending
<1>3. Len(Pending) = 1 /\ NodesIn(Pending) = {Root}
  BY <1>2 DEF NodesIn
<1>4. NoOverlap
  BY <1>3 DEF NoOverlap, Disjoint
<1>5. NoPointLost
  BY <1>3 DEF NoPointLost, PtsOf
<1>6. DepthBounded
  BY <1>3, FrontierAssumption DEF DepthBounded
<1> QED
  BY <1>1, <1>4, <1>5, <1>6 DEF FInv, Init

(* What is pending without the popped node.                                 *)
Rest == jobs \o Tail(queue)

LEMMA RestFacts ==
  ASSUME TypeOK, queue # <<>>
  PROVE  /\ Rest \in Seq(Node) /\ Pending \in Seq(Node)
         /\ NodesIn(Pending) = NodesIn(Rest) \cup {Head(queue)}
         /\ NodesIn(Rest) \subseteq Node /\ Head(queue) \in Node
         /\ Disjoint(Pending) =>
              /\ Disjoint(Rest)
              /\ \A k \in 1..Len(Rest) : Below[Rest[k]] \cap Below[Head(queue)] = {}
<1> DEFINE t == Tail(queue)
           m == Len(jobs) + 1
<1>1. /\ Head(queue) \in Node /\ Head(queue) = queue[1] /\ t \in Seq(Node)
      /\ Len(queue) \in Nat /\ Len(queue) >= 1 /\ Len(t) = Len(queue) - 1
      /\ \A i \in 1..Len(queue) - 1 : t[i] = queue[i + 1]
      /\ jobs \in Seq(Node) /\ queue \in Seq(Node) /\ Len(jobs) \in Nat
  BY Popped, LenProperties DEF TypeOK
<1> HIDE DEF t
<1>2. /\ Rest \in Seq(Node) /\ Len(Rest) = Len(jobs) + Len(t)
      /\ \A k \in 1..Len(jobs) : Rest[k] = jobs[k]
      /\ \A k \in 1..Len(t) : Rest[Len(jobs) + k] = t[k]
  BY <1>1, PendingIs DEF Rest, t
<1>3. /\ Pending \in Seq(Node) /\ Len(Pending) = Len(jobs) + Len(queue)
      /\ \A k \in 1..Len(jobs) : Pending[k] = jobs[k]
      /\ \A k \in 1..Len(queue) : Pending[Len(jobs) + k] = queue[k]
  BY <1>1, PendingIs DEF Pending
<1>4. m \in 1..Len(Pending) /\ Pending[m] = Head(queue) /\ Len(Rest) = Len(Pending) - 1
  BY <1>1, <1>2, <1>3
<1>5. ASSUME NEW k \in 1..Len(Rest) PROVE Rest[k] = Pending[IF k < m THEN k ELSE k + 1]
  <2>1. CASE k < m
    <3>1. k \in 1..Len(jobs)
      BY <1>1, <1>2, <2>1
    <3> HIDE DEF m
    <3> QED
      BY <1>2, <1>3, <2>1, <3>1
  <2>2. CASE ~(k < m)
    <3> DEFINE i == k - Len(jobs)
    <3>1. /\ i \in 1..Len(t) /\ i + 1 \in 1..Len(queue) /\ i \in 1..Len(queue) - 1
          /\ Len(jobs) + i = k /\ Len(jobs) + (i + 1) = k + 1
      BY <1>1, <1>2, <2>2
    <3> HIDE DEF i
    <3>2. Rest[k] = t[i] /\ t[i] = queue[i + 1] /\ Pending[k + 1] = queue[i + 1]
      BY <1>1, <1>2, <1>3, <3>1
    <3> QED
      BY <2>2, <3>2
  <2> QED
    BY <2>1, <2>2
<1> HIDE DEF m
<1>6. NodesIn(Rest) \subseteq Node
  BY <1>2, NodesOfSeq
<1>7. /\ NodesIn(Pending) = NodesIn(Rest) \cup {Pending[m]}
      /\ Disjoint(Pending) =>
           /\ Disjoint(Rest)
           /\ \A k \in 1..Len(Rest) : Below[Rest[k]] \cap Below[Pending[m]] = {}
  BY <1>2, <1>3, <1>4, <1>5, Removed
<1> QED
  BY <1>1, <1>2, <1>3, <1>4, <1>6, <1>7

LEMMA PtsOfUnion == \A M, N : PtsOf(M \cup N) = PtsOf(M) \cup PtsOf(N)
BY DEF PtsOf

LEMMA FInvStep == FInv /\ [Next]_vars => FInv'
<1> SUFFICES ASSUME FInv, [Next]_vars PROVE FInv'
  OBVIOUS
<1>0. TypeOK /\ TypeOK'
  BY TypeStep DEF FInv
<1>1. CASE DropInfeasible
  <2>1. /\ Pending' = Rest /\ result' = "building" /\ queue # <<>>
        /\ Pts[Head(queue)] = {}
    BY <1>1 DEF DropInfeasible, Pending, Rest, Relaxations
  <2>2. /\ NodesIn(Pending) = NodesIn(Rest) \cup {Head(queue)}
        /\ Disjoint(Pending) => Disjoint(Rest)
    BY <1>0, <2>1, RestFacts
  <2>3. PtsOf({Head(queue)}) = {}
    BY <2>1 DEF PtsOf
  <2>4. PtsOf(NodesIn(Rest)) = PtsOf(NodesIn(Pending))
    BY <2>2, <2>3, PtsOfUnion
  <2> QED
    BY <1>0, <2>1, <2>2, <2>4 DEF FInv, NoOverlap, NoPointLost, DepthBounded
<1>2. CASE Split
  <2> DEFINE n == Head(queue)
             l == Kids[n][1]
             r == Kids[n][2]
             q == QueueChildren(n)
  <2>1. /\ queue # <<>> /\ Kids[n] # <<>> /\ Depth[n] < SplitDepth
        /\ Pending' = jobs \o q /\ result' = "building"
    BY <1>2 DEF Split, MaySplit, Pending
  <2>2. /\ q \in Seq(Node) /\ Len(q) = Len(queue) + 1
        /\ \A i \in 1..Len(queue) - 1 : q[i] = queue[i + 1]
        /\ q[Len(queue)] = l /\ q[Len(queue) + 1] = r
    BY <1>0, <2>1, Pushed
  <2>3. /\ Rest \in Seq(Node) /\ NodesIn(Pending) = NodesIn(Rest) \cup {n} /\ n \in Node
        /\ Disjoint(Pending) =>
             /\ Disjoint(Rest)
             /\ \A k \in 1..Len(Rest) : Below[Rest[k]] \cap Below[n] = {}
    BY <1>0, <2>1, RestFacts
  <2>4. /\ jobs \in Seq(Node) /\ Len(jobs) \in Nat
        /\ Tail(queue) \in Seq(Node) /\ Len(Tail(queue)) = Len(queue) - 1
        /\ Len(queue) \in Nat /\ Len(queue) >= 1
        /\ \A i \in 1..Len(queue) - 1 : Tail(queue)[i] = queue[i + 1]
    BY <1>0, <2>1, Popped, LenProperties DEF TypeOK
  <2> HIDE DEF l, r, q
  <2>5. /\ Len(Rest) = Len(jobs) + (Len(queue) - 1)
        /\ \A k \in 1..Len(jobs) : Rest[k] = jobs[k]
        /\ \A k \in 1..Len(Tail(queue)) : Rest[Len(jobs) + k] = Tail(queue)[k]
    BY <2>4, PendingIs DEF Rest
  <2>6. /\ Pending' \in Seq(Node) /\ Len(Pending') = Len(jobs) + (Len(queue) + 1)
        /\ \A k \in 1..Len(jobs) : Pending'[k] = jobs[k]
        /\ \A k \in 1..Len(q) : Pending'[Len(jobs) + k] = q[k]
    <3> DEFINE c == jobs \o q
    <3>1. /\ c \in Seq(Node) /\ Len(c) = Len(jobs) + Len(q)
          /\ \A k \in 1..Len(jobs) : c[k] = jobs[k]
          /\ \A k \in 1..Len(q) : c[Len(jobs) + k] = q[k]
      BY <2>2, <2>4, PendingIs
    <3>2. Pending' = c
      BY <2>1
    <3> HIDE DEF c
    <3> QED
      BY <2>2, <3>1, <3>2
  <2>7. Len(Pending') = Len(Rest) + 2
    BY <2>4, <2>5, <2>6
  <2>8. ASSUME NEW k \in 1..Len(Rest) PROVE Pending'[k] = Rest[k]
    <3>1. CASE k <= Len(jobs)
      BY <2>4, <2>5, <2>6, <3>1
    <3>2. CASE ~(k <= Len(jobs))
      <4> DEFINE i == k - Len(jobs)
      <4>1. i \in 1..Len(queue) - 1 /\ i \in 1..Len(q) /\ Len(jobs) + i = k
        BY <2>2, <2>4, <2>5, <3>2
      <4> HIDE DEF i
      <4>2. Pending'[k] = q[i] /\ q[i] = queue[i + 1]
        BY <2>2, <2>6, <4>1
      <4>3. Rest[k] = Tail(queue)[i] /\ Tail(queue)[i] = queue[i + 1]
        BY <2>4, <2>5, <4>1
      <4> QED
        BY <4>2, <4>3
    <3> QED
      BY <3>1, <3>2
  <2>9. Pending'[Len(Rest) + 1] = l /\ Pending'[Len(Rest) + 2] = r
    <3>1. Len(Rest) + 1 = Len(jobs) + Len(queue) /\ Len(Rest) + 2 = Len(jobs) + (Len(queue) + 1)
      BY <2>4, <2>5
    <3>2. Len(queue) \in 1..Len(q) /\ Len(queue) + 1 \in 1..Len(q)
      BY <2>2, <2>4
    <3> QED
      BY <2>2, <2>6, <3>1, <3>2
  <2>10. /\ NodesIn(Pending') = NodesIn(Rest) \cup {l, r}
         /\ Disjoint(Pending) => Disjoint(Pending')
    <3> DEFINE c == Pending'
    <3>1. /\ c \in Seq(Node) /\ Len(c) = Len(Rest) + 2
          /\ \A k \in 1..Len(Rest) : c[k] = Rest[k]
          /\ c[Len(Rest) + 1] = Kids[n][1] /\ c[Len(Rest) + 2] = Kids[n][2]
      BY <2>6, <2>7, <2>8, <2>9 DEF l, r
    <3> HIDE DEF c, n
    <3>2. /\ NodesIn(c) = NodesIn(Rest) \cup {Kids[n][1], Kids[n][2]}
          /\ (/\ Disjoint(Rest)
              /\ \A k \in 1..Len(Rest) : Below[Rest[k]] \cap Below[n] = {}) => Disjoint(c)
      BY <2>1, <2>3, <3>1, Added
    <3> QED
      BY <2>3, <3>2 DEF l, r, c
  <2>11. PtsOf(NodesIn(Pending')) = PtsOf(NodesIn(Pending))
    <3>1. PtsOf({l, r}) = PtsOf({n})
      BY <2>1, <2>3, TreeAssumption DEF PtsOf, TreeCovers, l, r
    <3> QED
      <4>1. PtsOf(NodesIn(Pending')) = PtsOf(NodesIn(Rest)) \cup PtsOf({l, r})
        BY <2>10, PtsOfUnion
      <4>2. PtsOf(NodesIn(Pending)) = PtsOf(NodesIn(Rest)) \cup PtsOf({n})
        BY <2>3, PtsOfUnion
      <4> QED
        BY <3>1, <4>1, <4>2
  <2>12. \A k \in NodesIn(Pending') : Depth[k] <= SplitDepth
    <3>1. Depth[l] = Depth[n] + 1 /\ Depth[r] = Depth[n] + 1
      BY <2>1, <2>3, TreeAssumption DEF TreeShape, l, r
    <3>2. Depth[n] \in Nat /\ SplitDepth \in Nat
      <4>1. Depth[n] \in Nat
        BY <2>3, TreeAssumption DEF TreeTypes
      <4>2. SplitDepth \in Nat
        BY FrontierAssumption
      <4> QED
        BY <4>1, <4>2
    <3> QED
      BY <2>1, <2>3, <2>10, <3>1, <3>2 DEF FInv, DepthBounded
  <2> QED
    BY <1>0, <2>1, <2>10, <2>11, <2>12 DEF FInv, NoOverlap, NoPointLost, DepthBounded
<1>3. ASSUME NEW s \in LpStatus, Keep(s) PROVE FInv'
  <2> DEFINE n == Head(queue)
             t == Tail(queue)
  <2>1. n \in Node /\ t \in Seq(Node) /\ jobs \in Seq(Node) /\ queue # <<>>
    BY <1>0, <1>3, Popped DEF Keep, TypeOK
  <2>2. queue = <<n>> \o t
    BY <1>0, <2>1, HeadTailProperties DEF TypeOK
  <2>3. Append(jobs, n) = jobs \o <<n>>
    BY <2>1
  <2>4. Pending' = (jobs \o <<n>>) \o t
    BY <1>3, <2>3 DEF Keep, Pending
  <2>5. (jobs \o <<n>>) \o t = jobs \o (<<n>> \o t)
    BY <2>1, ConcatAssociative
  <2>6. Pending' = Pending
    BY <2>2, <2>4, <2>5 DEF Pending
  <2>7. result' = "building"
    BY <1>3 DEF Keep
  <2> QED
    BY <1>0, <2>6, <2>7 DEF FInv, NoOverlap, NoPointLost, DepthBounded
<1>4. CASE LpFails \/ Return \/ UNCHANGED vars
  BY <1>0, <1>4 DEF LpFails, Return, vars, FInv, NoOverlap, NoPointLost, DepthBounded, Pending
<1> QED
  BY <1>1, <1>2, <1>3, <1>4 DEF Next

THEOREM FrontierInductive == Spec => []FInv
BY FInvInit, FInvStep, PTL DEF Spec
(* No subtree is handed out twice.                                          *)
THEOREM Apart == Spec => []NoOverlap
BY FrontierInductive, PTL DEF FInv

(* Between the jobs and the queue no feasible integer point is lost.        *)
THEOREM Complete == Spec => []NoPointLost
BY FrontierInductive, PTL DEF FInv

(* Neither limit of the pre-split is exceeded: its cap, with queued nodes   *)
(* counted, nor the split depth asked for.                                  *)
THEOREM Limits == Spec => []WithinLimits
<1>1. FInv /\ CapRespected => WithinLimits
  BY DEF FInv, WithinLimits
<1> QED
  BY <1>1, FrontierInductive, CapHolds, PTL

(* The jobs returned are a frontier without repetition: the assumption      *)
(* SolveAssumption makes on Frontiers.                                      *)
THEOREM GoodFrontier == Spec => []ReturnsFrontier
<1>1. FInv => ReturnsFrontier
  <2> SUFFICES ASSUME FInv, result = "ok"
               PROVE  IsFrontier(NodesIn(jobs)) /\ Cardinality(NodesIn(jobs)) = Len(jobs)
    BY DEF ReturnsFrontier
  <2>1. jobs \in Seq(Node) /\ Len(jobs) \in Nat /\ Pending = jobs
    BY ConcatEmptySeq, LenProperties DEF FInv, TypeOK, Pending
  <2>2. NodesIn(jobs) = {jobs[i] : i \in 1..Len(jobs)} /\ NodesIn(jobs) \subseteq Node
    BY <2>1, NodesOfSeq
  <2>3. \A i, j \in 1..Len(jobs) : i # j => Below[jobs[i]] \cap Below[jobs[j]] = {}
    BY <2>1 DEF FInv, NoOverlap, Disjoint
  <2>4. PtsOf(NodesIn(jobs)) = Pts[Root]
    BY <2>1 DEF FInv, NoPointLost
  <2>5. IsFrontier(NodesIn(jobs))
    BY <2>2, <2>3, <2>4 DEF IsFrontier
  <2>6. \A i, j \in 1..Len(jobs) : jobs[i] = jobs[j] => i = j
    <3>1. \A i \in 1..Len(jobs) : jobs[i] \in Below[jobs[i]]
      BY <2>2, TreeAssumption DEF TreeShape
    <3> QED
      BY <2>3, <3>1
  <2>7. jobs \in Bijection(1..Len(jobs), NodesIn(jobs))
    <3>1. jobs \in [1..Len(jobs) -> NodesIn(jobs)]
      BY <2>1, <2>2, LenProperties
    <3> QED
      BY <2>2, <2>6, <3>1 DEF Bijection, Injection, Surjection, IsInjective
  <2>8. IsFiniteSet(1..Len(jobs)) /\ Cardinality(1..Len(jobs)) = Len(jobs)
    <3>1. 1 \in Int /\ Len(jobs) \in Int
      BY <2>1
    <3>2. Cardinality(1..Len(jobs)) = IF 1 > Len(jobs) THEN 0 ELSE Len(jobs) - 1 + 1
      BY <3>1, FS_Interval
    <3> QED
      BY <2>1, <3>1, <3>2, FS_Interval
  <2>9. Cardinality(1..Len(jobs)) = Cardinality(NodesIn(jobs))
    BY <2>7, <2>8, FS_Bijection DEF ExistsBijection
  <2> QED
    BY <2>5, <2>8, <2>9
<1> QED
  BY <1>1, FrontierInductive, PTL
=============================================================================
