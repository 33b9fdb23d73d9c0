--------------------------- MODULE LocalSolveProofs ---------------------------
(***************************************************************************)
(* Proofs about LocalSolve, for every tree, split depth, cap and retry     *)
(* budget: the sequential loop starts from the frontier the pre-split      *)
(* returns (FrontierBuildProofs) and neither drops nor repeats a part of it.*)
(***************************************************************************)
EXTENDS LocalSolve, FrontierBuildProofs

LocalEntry == [status : Answer \cup {"none", "running", "cancelling"},
               expected : Nat, published : Nat, completed : Nat,
               redelegated : Nat, split : Nat]

LocalTypeOK ==
  /\ pure \in BOOLEAN
  /\ pc \in {"frontier", "next", "solving", "done", "failed"}
  /\ pending \in Seq(Job)
  /\ pc = "solving" => attempt \in Job
  /\ results \subseteq Result /\ IsFiniteSet(results)
  /\ count \in Counts
  /\ entry \in LocalEntry

(* Nothing has happened before the solve is registered.                     *)
Untouched ==
  pc = "frontier" =>
    /\ results = {}
    /\ count = [expected |-> 0, published |-> 0, redelegated |-> 0, split |-> 0]
    /\ entry = [status |-> "none", expected |-> 0, published |-> 0, completed |-> 0,
                redelegated |-> 0, split |-> 0]

(* NothingTwice, said of a sequence of jobs and a set of results.           *)
ApartIn(s) == \A i, j \in DOMAIN s : i # j => Below[s[i].node] \cap Below[s[j].node] = {}
Away(M, N) == \A m \in M, n \in N : Below[m] \cap Below[n] = {}
ResultNodes(R) == {r.job.node : r \in R}

LEMMA TwiceIs ==
  NothingTwice <=> (Solving => ApartIn(Work) /\ Away(NodesOf(Work), ResultNodes(results)))
BY DEF NothingTwice, ApartIn, Away, NodesOf, ResultNodes

-----------------------------------------------------------------------------
(* Jobs and sequences of jobs.                                              *)

LEMMA JobFacts ==
  /\ \A n \in Node : FirstTry(n) \in Job /\ FirstTry(n).node = n
  /\ \A j \in Job : /\ j.node \in Node
                    /\ j.retry < MaxRetries => NextTry(j) \in Job /\ NextTry(j).node = j.node
BY LocalAssumption DEF Job, FirstTry, NextTry

LEMMA ConcatFacts ==
  ASSUME NEW s \in Seq(Job), NEW t \in Seq(Job)
  PROVE  /\ s \o t \in Seq(Job) /\ Len(s \o t) = Len(s) + Len(t)
         /\ DOMAIN (s \o t) = 1..(Len(s) + Len(t))
         /\ \A i \in 1..Len(s) : (s \o t)[i] = s[i]
         /\ \A i \in 1..Len(t) : (s \o t)[Len(s) + i] = t[i]
         /\ \A i \in 1..(Len(s) + Len(t)) :
              \/ i \in 1..Len(s) /\ (s \o t)[i] = s[i]
              \/ i - Len(s) \in 1..Len(t) /\ (s \o t)[i] = t[i - Len(s)]
<1>1. Len(s) \in Nat /\ Len(t) \in Nat
  BY LenProperties
<1>2. /\ s \o t \in Seq(Job) /\ Len(s \o t) = Len(s) + Len(t)
      /\ \A i \in 1..(Len(s) + Len(t)) :
           (s \o t)[i] = IF i <= Len(s) THEN s[i] ELSE t[i - Len(s)]
  BY ConcatProperties
<1>3. DOMAIN (s \o t) = 1..(Len(s) + Len(t))
  BY <1>2, LenProperties
<1>4. \A i \in 1..Len(s) : (s \o t)[i] = s[i]
  BY <1>1, <1>2
<1>5. ASSUME NEW i \in 1..Len(t) PROVE (s \o t)[Len(s) + i] = t[i]
  <2>1. Len(s) + i \in 1..(Len(s) + Len(t)) /\ ~(Len(s) + i <= Len(s)) /\ (Len(s) + i) - Len(s) = i
    BY <1>1
  <2> QED
    BY <1>2, <2>1
<1>6. ASSUME NEW i \in 1..(Len(s) + Len(t))
      PROVE  \/ i \in 1..Len(s) /\ (s \o t)[i] = s[i]
             \/ i - Len(s) \in 1..Len(t) /\ (s \o t)[i] = t[i - Len(s)]
  BY <1>1, <1>2
<1> QED
  BY <1>2, <1>3, <1>4, <1>5, <1>6

(* The nodes of a concatenation.                                            *)
LEMMA ConcatNodes ==
  ASSUME NEW s \in Seq(Job), NEW t \in Seq(Job)
  PROVE  NodesOf(s \o t) = NodesOf(s) \cup NodesOf(t)
<1>1. DOMAIN s = 1..Len(s) /\ DOMAIN t = 1..Len(t) /\ Len(s) \in Nat /\ Len(t) \in Nat
  BY LenProperties
<1>2. NodesOf(s \o t) \subseteq NodesOf(s) \cup NodesOf(t)
  <2> SUFFICES ASSUME NEW i \in DOMAIN (s \o t)
               PROVE  (s \o t)[i].node \in NodesOf(s) \cup NodesOf(t)
    BY DEF NodesOf
  <2> QED
    BY <1>1, ConcatFacts DEF NodesOf
<1>3. NodesOf(s) \subseteq NodesOf(s \o t)
  <2> SUFFICES ASSUME NEW i \in 1..Len(s) PROVE s[i].node \in NodesOf(s \o t)
    BY <1>1 DEF NodesOf
  <2>1. i \in DOMAIN (s \o t) /\ (s \o t)[i] = s[i]
    BY <1>1, ConcatFacts
  <2> QED
    BY <2>1 DEF NodesOf
<1>4. NodesOf(t) \subseteq NodesOf(s \o t)
  <2> SUFFICES ASSUME NEW i \in 1..Len(t) PROVE t[i].node \in NodesOf(s \o t)
    BY <1>1 DEF NodesOf
  <2>1. Len(s) + i \in DOMAIN (s \o t) /\ (s \o t)[Len(s) + i] = t[i]
    BY <1>1, ConcatFacts
  <2> QED
    BY <2>1 DEF NodesOf
<1> QED
  BY <1>2, <1>3, <1>4

(* A concatenation is apart if and only if its parts are, from within and   *)
(* from each other.                                                         *)
LEMMA ConcatApart ==
  ASSUME NEW s \in Seq(Job), NEW t \in Seq(Job)
  PROVE  ApartIn(s \o t) <=> ApartIn(s) /\ ApartIn(t) /\ Away(NodesOf(s), NodesOf(t))
<1>1. DOMAIN s = 1..Len(s) /\ DOMAIN t = 1..Len(t) /\ Len(s) \in Nat /\ Len(t) \in Nat
  BY LenProperties
<1>2. ASSUME ApartIn(s \o t) PROVE ApartIn(s)
  <2> SUFFICES ASSUME NEW i \in 1..Len(s), NEW j \in 1..Len(s), i # j
               PROVE  Below[s[i].node] \cap Below[s[j].node] = {}
    BY <1>1 DEF ApartIn
  <2>1. /\ i \in DOMAIN (s \o t) /\ (s \o t)[i] = s[i]
        /\ j \in DOMAIN (s \o t) /\ (s \o t)[j] = s[j]
    BY <1>1, ConcatFacts
  <2> QED
    BY <1>2, <2>1 DEF ApartIn
<1>3. ASSUME ApartIn(s \o t) PROVE ApartIn(t)
  <2> SUFFICES ASSUME NEW i \in 1..Len(t), NEW j \in 1..Len(t), i # j
               PROVE  Below[t[i].node] \cap Below[t[j].node] = {}
    BY <1>1 DEF ApartIn
  <2>1. /\ Len(s) + i \in DOMAIN (s \o t) /\ (s \o t)[Len(s) + i] = t[i]
        /\ Len(s) + j \in DOMAIN (s \o t) /\ (s \o t)[Len(s) + j] = t[j]
        /\ Len(s) + i # Len(s) + j
    BY <1>1, ConcatFacts
  <2> QED
    BY <1>3, <2>1 DEF ApartIn
<1>4. ASSUME ApartIn(s \o t) PROVE Away(NodesOf(s), NodesOf(t))
  <2> SUFFICES ASSUME NEW i \in 1..Len(s), NEW j \in 1..Len(t)
               PROVE  Below[s[i].node] \cap Below[t[j].node] = {}
    BY <1>1 DEF Away, NodesOf
  <2>1. /\ i \in DOMAIN (s \o t) /\ (s \o t)[i] = s[i]
        /\ Len(s) + j \in DOMAIN (s \o t) /\ (s \o t)[Len(s) + j] = t[j]
        /\ i # Len(s) + j
    BY <1>1, ConcatFacts
  <2> QED
    BY <1>4, <2>1 DEF ApartIn
<1>5. ASSUME ApartIn(s), ApartIn(t), Away(NodesOf(s), NodesOf(t)) PROVE ApartIn(s \o t)
  <2>0. DOMAIN (s \o t) = 1..(Len(s) + Len(t))
    BY ConcatFacts
  <2> SUFFICES ASSUME NEW i \in 1..(Len(s) + Len(t)), NEW j \in 1..(Len(s) + Len(t)), i # j
               PROVE  Below[(s \o t)[i].node] \cap Below[(s \o t)[j].node] = {}
    BY <2>0 DEF ApartIn
  <2>1. ASSUME NEW a \in 1..Len(s), NEW b \in 1..Len(t)
        PROVE  Below[s[a].node] \cap Below[t[b].node] = {}
    BY <1>1, <1>5 DEF Away, NodesOf
  <2>2. \/ i \in 1..Len(s) /\ (s \o t)[i] = s[i]
        \/ i - Len(s) \in 1..Len(t) /\ (s \o t)[i] = t[i - Len(s)]
    BY ConcatFacts
  <2>3. \/ j \in 1..Len(s) /\ (s \o t)[j] = s[j]
        \/ j - Len(s) \in 1..Len(t) /\ (s \o t)[j] = t[j - Len(s)]
    BY ConcatFacts
  <2>4. CASE i \in 1..Len(s) /\ (s \o t)[i] = s[i] /\ j \in 1..Len(s) /\ (s \o t)[j] = s[j]
    BY <1>1, <1>5, <2>4 DEF ApartIn
  <2>5. CASE /\ i - Len(s) \in 1..Len(t) /\ (s \o t)[i] = t[i - Len(s)]
             /\ j - Len(s) \in 1..Len(t) /\ (s \o t)[j] = t[j - Len(s)]
    <3>1. i - Len(s) # j - Len(s)
      BY <1>1
    <3> QED
      BY <1>1, <1>5, <2>5, <3>1 DEF ApartIn
  <2>6. CASE /\ i \in 1..Len(s) /\ (s \o t)[i] = s[i]
             /\ j - Len(s) \in 1..Len(t) /\ (s \o t)[j] = t[j - Len(s)]
    BY <2>1, <2>6
  <2>7. CASE /\ j \in 1..Len(s) /\ (s \o t)[j] = s[j]
             /\ i - Len(s) \in 1..Len(t) /\ (s \o t)[i] = t[i - Len(s)]
    <3>1. Below[s[j].node] \cap Below[t[i - Len(s)].node] = {}
      BY <2>1, <2>7
    <3> QED
      BY <2>7, <3>1
  <2> QED
    BY <2>2, <2>3, <2>4, <2>5, <2>6, <2>7
<1> QED
  BY <1>2, <1>3, <1>4, <1>5

LEMMA OneJob ==
  ASSUME NEW a \in Job
  PROVE  /\ <<a>> \in Seq(Job) /\ Len(<<a>>) = 1
         /\ NodesOf(<<a>>) = {a.node} /\ ApartIn(<<a>>)
BY DEF NodesOf, ApartIn

LEMMA NoJobs == <<>> \in Seq(Job) /\ Len(<<>>) = 0 /\ NodesOf(<<>>) = {} /\ ApartIn(<<>>)
BY DEF NodesOf, ApartIn

(* The children of a job.                                                   *)
LEMMA ChildFacts ==
  ASSUME NEW r \in Result, Kids[r.job.node] # <<>>
  PROVE  /\ ChildJobs(r) \in Seq(Job) /\ Len(ChildJobs(r)) = 2
         /\ ApartIn(ChildJobs(r))
         /\ \A n \in NodesOf(ChildJobs(r)) : Below[n] \subseteq Below[r.job.node]
         /\ PtsOf(NodesOf(ChildJobs(r))) = Pts[r.job.node]
<1> DEFINE n == r.job.node
           c == ChildJobs(r)
<1>1. n \in Node
  BY JobFacts DEF Result
<1>2. PICK a \in Node, b \in Node : Kids[n] = <<a, b>>
  <2>1. Kids[n] \in Node \X Node
    BY <1>1, TreeAssumption DEF TreeTypes
  <2> QED
    BY <2>1
<1>3. DOMAIN c = {1, 2} /\ c[1] = FirstTry(a) /\ c[2] = FirstTry(b)
  BY <1>2 DEF ChildJobs
<1>4. c \in [1..2 -> Job]
  <2>1. DOMAIN Kids[n] = 1..2 /\ \A i \in 1..2 : Kids[n][i] \in Node
    BY <1>2
  <2> QED
    BY <2>1, JobFacts DEF ChildJobs
<1>5. c \in Seq(Job) /\ Len(c) = 2
  <2> HIDE DEF c
  <2>1. c \in Seq(Job)
    BY <1>4, SeqDef
  <2> QED
    BY <1>4, <2>1, LenProperties
<1>6. c[1].node = a /\ c[2].node = b
  BY <1>3, JobFacts
<1>7. /\ Below[a] \subseteq Below[n] \ {n} /\ Below[b] \subseteq Below[n] \ {n}
      /\ Below[a] \cap Below[b] = {}
  <2>1. Kids[n] # <<>> /\ Kids[n][1] = a /\ Kids[n][2] = b
    BY <1>2
  <2> HIDE DEF n
  <2> QED
    BY <1>1, <2>1, TreeAssumption DEF TreeShape
<1>8. Pts[n] = Pts[a] \cup Pts[b]
  BY <1>1, <1>2, TreeAssumption DEF TreeCovers
<1> HIDE DEF c, n
<1>9. NodesOf(c) = {a, b}
  BY <1>3, <1>6 DEF NodesOf
<1>10. PtsOf(NodesOf(c)) = Pts[n]
  BY <1>8, <1>9 DEF PtsOf
<1>11. ApartIn(c)
  BY <1>3, <1>6, <1>7 DEF ApartIn
<1> QED
  BY <1>5, <1>7, <1>9, <1>10, <1>11 DEF c, n

-----------------------------------------------------------------------------
(* The counters of the task and of the registry.                            *)

LEMMA CountFields == \A c \in Counts : DOMAIN c = {"expected", "published", "redelegated", "split"}
BY DEF Counts

LEMMA CountMoves ==
  ASSUME NEW c \in Counts
  PROVE  /\ /\ OnePublished(c) \in Counts /\ OnePublished(c).expected = c.expected
            /\ OnePublished(c).published = c.published + 1
            /\ OnePublished(c).redelegated = c.redelegated
            /\ OnePublished(c).split = c.split
         /\ /\ OneRetry(c) \in Counts /\ OneRetry(c).expected = c.expected
            /\ OneRetry(c).published = c.published
            /\ OneRetry(c).redelegated = c.redelegated + 1 /\ OneRetry(c).split = c.split
         /\ /\ OneSplit(c) \in Counts /\ OneSplit(c).expected = c.expected
            /\ OneSplit(c).published = c.published
            /\ OneSplit(c).redelegated = c.redelegated /\ OneSplit(c).split = c.split + 1
         /\ /\ OneMoreToCome(c) \in Counts /\ OneMoreToCome(c).expected = c.expected + 1
            /\ OneMoreToCome(c).published = c.published
            /\ OneMoreToCome(c).redelegated = c.redelegated
            /\ OneMoreToCome(c).split = c.split
BY DEF Counts, OnePublished, OneRetry, OneSplit, OneMoreToCome

LEMMA EntryMoves ==
  ASSUME NEW e \in LocalEntry
  PROVE  /\ /\ OnePublished(e) \in LocalEntry /\ OnePublished(e).expected = e.expected
            /\ OnePublished(e).published = e.published + 1
            /\ OnePublished(e).redelegated = e.redelegated
            /\ OnePublished(e).split = e.split /\ OnePublished(e).completed = e.completed
         /\ /\ OneRetry(e) \in LocalEntry /\ OneRetry(e).expected = e.expected
            /\ OneRetry(e).published = e.published
            /\ OneRetry(e).redelegated = e.redelegated + 1 /\ OneRetry(e).split = e.split
            /\ OneRetry(e).completed = e.completed
         /\ /\ OneSplit(e) \in LocalEntry /\ OneSplit(e).expected = e.expected
            /\ OneSplit(e).published = e.published
            /\ OneSplit(e).redelegated = e.redelegated /\ OneSplit(e).split = e.split + 1
            /\ OneSplit(e).completed = e.completed
         /\ /\ OneMoreToCome(e) \in LocalEntry /\ OneMoreToCome(e).expected = e.expected + 1
            /\ OneMoreToCome(e).published = e.published
            /\ OneMoreToCome(e).redelegated = e.redelegated
            /\ OneMoreToCome(e).split = e.split /\ OneMoreToCome(e).completed = e.completed
BY DEF LocalEntry, OnePublished, OneRetry, OneSplit, OneMoreToCome

(* The invariant of the loop, of its work w, its results R and the counts.  *)
LoopOK(w, R, c, e) ==
  /\ ApartIn(w) /\ Away(NodesOf(w), ResultNodes(R))
  /\ PtsOf(NodesOf(w)) \cup PtsOf(ResultNodes(R)) = Pts[Root]
  /\ Cardinality(R) + Len(w) = c.expected
  /\ e.completed = Cardinality(R)
  /\ e.expected = c.expected /\ e.published = c.published
  /\ e.redelegated = c.redelegated /\ e.split = c.split

LEMMA LoopIs ==
  ASSUME LocalTypeOK
  PROVE  NothingDropped /\ NothingTwice /\ LocalCounts
           <=> (Solving => LoopOK(Work, results, count, entry))
<1>1. DOMAIN count = {"expected", "published", "redelegated", "split"}
  BY CountFields DEF LocalTypeOK
<1>2. (\A f \in DOMAIN count : entry[f] = count[f])
        <=> /\ entry.expected = count.expected /\ entry.published = count.published
            /\ entry.redelegated = count.redelegated /\ entry.split = count.split
  BY <1>1
<1> QED
  BY <1>2, TwiceIs DEF NothingDropped, LocalCounts, LoopOK, ResultNodes

LEMMA WorkIs ==
  ASSUME LocalTypeOK
  PROVE  /\ pc = "next" => Work = pending
         /\ pc = "solving" => Work = <<attempt>> \o pending
BY ConcatEmptySeq DEF Work, LocalTypeOK

LoopInv == Solving => LoopOK(Work, results, count, entry)

-----------------------------------------------------------------------------
(* What becomes of the job a that heads the work, p being the rest.         *)

HeadOK(a, p, R) ==
  /\ ApartIn(p) /\ Away({a.node}, NodesOf(p))
  /\ Away({a.node}, ResultNodes(R)) /\ Away(NodesOf(p), ResultNodes(R))
  /\ Pts[a.node] \cup PtsOf(NodesOf(p)) \cup PtsOf(ResultNodes(R)) = Pts[Root]

LEMMA HeadWork ==
  ASSUME NEW a \in Job, NEW p \in Seq(Job), NEW R, NEW c, NEW e, LoopOK(<<a>> \o p, R, c, e)
  PROVE  /\ HeadOK(a, p, R)
         /\ Len(p) \in Nat /\ Len(<<a>> \o p) = Len(p) + 1
<1>1. <<a>> \in Seq(Job) /\ Len(<<a>>) = 1 /\ NodesOf(<<a>>) = {a.node}
  BY OneJob
<1>2. /\ NodesOf(<<a>> \o p) = {a.node} \cup NodesOf(p)
      /\ Len(<<a>> \o p) = Len(p) + 1 /\ Len(p) \in Nat
  <2> DEFINE h == <<a>>
  <2>1. h \in Seq(Job) /\ Len(h) = 1 /\ NodesOf(h) = {a.node}
    BY <1>1
  <2> HIDE DEF h
  <2>2. NodesOf(h \o p) = {a.node} \cup NodesOf(p)
    BY <2>1, ConcatNodes
  <2>3. Len(p) \in Nat
    BY LenProperties
  <2>4. Len(h \o p) = Len(p) + 1
    BY <2>1, <2>3, ConcatFacts
  <2> QED
    BY <2>2, <2>3, <2>4 DEF h
<1>3. ApartIn(p) /\ Away({a.node}, NodesOf(p))
  BY <1>1, ConcatApart DEF LoopOK
<1>4. Away({a.node}, ResultNodes(R)) /\ Away(NodesOf(p), ResultNodes(R))
  BY <1>2 DEF LoopOK, Away
<1>5. Pts[a.node] \cup PtsOf(NodesOf(p)) \cup PtsOf(ResultNodes(R)) = Pts[Root]
  BY <1>2 DEF LoopOK, PtsOf
<1> QED
  BY <1>2, <1>3, <1>4, <1>5 DEF HeadOK

InPlace(s, a) ==
  /\ ApartIn(s)
  /\ \A n \in NodesOf(s) : Below[n] \subseteq Below[a.node]
  /\ PtsOf(NodesOf(s)) = Pts[a.node]

(* Other jobs within the subtree of a are put in its place, before or after *)
(* the rest.                                                                *)
WorkOK(w, R) ==
  /\ ApartIn(w) /\ Away(NodesOf(w), ResultNodes(R))
  /\ PtsOf(NodesOf(w)) \cup PtsOf(ResultNodes(R)) = Pts[Root]

LEMMA ReplaceHead ==
  ASSUME NEW a \in Job, NEW p \in Seq(Job), NEW R, HeadOK(a, p, R),
         NEW s \in Seq(Job), InPlace(s, a)
  PROVE  WorkOK(s \o p, R) /\ WorkOK(p \o s, R)
<1>1. /\ ApartIn(p) /\ Away({a.node}, NodesOf(p))
      /\ Away({a.node}, ResultNodes(R)) /\ Away(NodesOf(p), ResultNodes(R))
      /\ Pts[a.node] \cup PtsOf(NodesOf(p)) \cup PtsOf(ResultNodes(R)) = Pts[Root]
      /\ ApartIn(s) /\ PtsOf(NodesOf(s)) = Pts[a.node]
  BY DEF HeadOK, InPlace
<1>2. /\ Away(NodesOf(s), NodesOf(p)) /\ Away(NodesOf(p), NodesOf(s))
      /\ Away(NodesOf(s), ResultNodes(R))
  BY <1>1 DEF Away, InPlace
<1>3. /\ NodesOf(s \o p) = NodesOf(p) \cup NodesOf(s)
      /\ NodesOf(p \o s) = NodesOf(p) \cup NodesOf(s)
  <2>1. NodesOf(s \o p) = NodesOf(s) \cup NodesOf(p)
    BY ConcatNodes
  <2>2. NodesOf(p \o s) = NodesOf(p) \cup NodesOf(s)
    BY ConcatNodes
  <2> QED
    BY <2>1, <2>2
<1>4. ApartIn(s \o p) /\ ApartIn(p \o s)
  BY <1>1, <1>2, ConcatApart
<1>5. ASSUME NEW w, ApartIn(w), NodesOf(w) = NodesOf(p) \cup NodesOf(s)
      PROVE  WorkOK(w, R)
  <2>1. Away(NodesOf(w), ResultNodes(R))
    BY <1>1, <1>2, <1>5 DEF Away
  <2>2. PtsOf(NodesOf(w)) = PtsOf(NodesOf(p)) \cup PtsOf(NodesOf(s))
    BY <1>5, PtsOfUnion
  <2> QED
    BY <1>1, <1>5, <2>1, <2>2 DEF WorkOK
<1> QED
  BY <1>3, <1>4, <1>5

(* A truthful answer is a result for its job.                               *)
LEMMA AnswerType ==
  ASSUME NEW j \in Job, NEW r \in TruthfulAnswers(j)
  PROVE  r \in Result /\ r.job = j /\ Truthful(r) /\ r.x \in Pts[j.node] \cup {NoPoint}
<1>1. PICK s \in Answers, x \in Pts[j.node] \cup {NoPoint} :
        r = [job |-> j, status |-> s, x |-> x] /\ Truthful(r)
  BY DEF TruthfulAnswers
<1>2. s \in ResultStatus /\ x \in Point \cup {NoPoint}
  BY LocalAssumption, TreeAssumption, JobFacts DEF TreeTypes
<1> QED
  BY <1>1, <1>2 DEF Result

(* The state in which the solver of the attempt returns.                    *)
LEMMA ReturnState ==
  ASSUME LocalTypeOK, LoopInv, NEW r, Returns(r)
  PROVE  /\ pc = "solving" /\ pc' = "next" /\ r.job = attempt /\ attempt \in Job
         /\ pending \in Seq(Job) /\ Solving /\ Solving'
         /\ LoopOK(<<attempt>> \o pending, results, count, entry)
         /\ r \in Result /\ Truthful(r) /\ r.x \in Pts[r.job.node] \cup {NoPoint}
<1>1. pc = "solving" /\ pc' = "next" /\ attempt \in Job /\ pending \in Seq(Job)
      /\ r \in TruthfulAnswers(attempt)
  BY DEF Returns, LocalTypeOK
<1>2. r \in Result /\ r.job = attempt /\ Truthful(r) /\ r.x \in Pts[r.job.node] \cup {NoPoint}
  BY <1>1, AnswerType
<1>3. LoopOK(<<attempt>> \o pending, results, count, entry)
  BY <1>1, WorkIs DEF LoopInv, Solving
<1> QED
  BY <1>1, <1>2, <1>3 DEF Solving

-----------------------------------------------------------------------------
(* One step of the loop at a time.                                          *)

LEMMA LoopKept ==
  ASSUME LoopInv, Solving' => Solving /\ Work' = Work, results' = results, count' = count,
         entry'.expected = entry.expected, entry'.published = entry.published,
         entry'.redelegated = entry.redelegated, entry'.split = entry.split,
         entry'.completed = entry.completed
  PROVE  LoopInv'
BY DEF LoopInv, LoopOK

LEMMA LoopStart ==
  ASSUME FInv, LocalTypeOK, Untouched, StartSolve
  PROVE  LocalTypeOK' /\ LoopInv'
<1> DEFINE n == Len(jobs)
<1>1. pc = "frontier" /\ pc' = "next" /\ result = "ok" /\ results' = results
      /\ pending' = [i \in DOMAIN jobs |-> FirstTry(jobs[i])]
      /\ count' = [count EXCEPT !.expected = n]
      /\ entry' = [entry EXCEPT !.status = "running", !.expected = n]
      /\ pure' = pure
  BY DEF StartSolve
<1>2. jobs \in Seq(Node) /\ n \in Nat /\ DOMAIN jobs = 1..n /\ \A i \in 1..n : jobs[i] \in Node
  BY LenProperties DEF FInv, TypeOK
<1>3. results = {} /\ Cardinality({}) = 0 /\ ResultNodes({}) = {} /\ PtsOf({}) = {}
  BY <1>1, FS_EmptySet DEF Untouched, ResultNodes, PtsOf
<1>4. /\ count' \in Counts /\ count'.expected = n /\ count'.published = 0
      /\ count'.redelegated = 0 /\ count'.split = 0
      /\ entry' \in LocalEntry /\ entry'.expected = n /\ entry'.published = 0
      /\ entry'.redelegated = 0 /\ entry'.split = 0 /\ entry'.completed = 0
  <2>1. /\ count = [expected |-> 0, published |-> 0, redelegated |-> 0, split |-> 0]
        /\ entry = [status |-> "none", expected |-> 0, published |-> 0, completed |-> 0,
                    redelegated |-> 0, split |-> 0]
    BY <1>1 DEF Untouched
  <2>2. /\ count' = [expected |-> n, published |-> 0, redelegated |-> 0, split |-> 0]
        /\ entry' = [status |-> "running", expected |-> n, published |-> 0, completed |-> 0,
                     redelegated |-> 0, split |-> 0]
    BY <1>1, <2>1
  <2> HIDE DEF n
  <2> QED
    BY <1>2, <2>2 DEF Counts, LocalEntry
<1>5. pending' \in Seq(Job) /\ Len(pending') = n /\ DOMAIN pending' = 1..n
      /\ \A i \in 1..n : pending'[i].node = jobs[i]
  <2>1. pending' \in [1..n -> Job] /\ \A i \in 1..n : pending'[i].node = jobs[i]
    BY <1>1, <1>2, JobFacts
  <2>2. pending' \in Seq(Job)
    BY <1>2, <2>1, SeqDef
  <2> QED
    BY <1>2, <2>1, <2>2, LenProperties
<1>6. LocalTypeOK'
  BY <1>1, <1>4, <1>5 DEF LocalTypeOK
<1>7. Work' = pending'
  BY <1>1, <1>5, ConcatEmptySeq DEF Work
<1>8. Disjoint(jobs) /\ PtsOf(NodesIn(jobs)) = Pts[Root]
  <2>1. Pending = jobs
    BY <1>1, <1>2, ConcatEmptySeq DEF FInv, Pending
  <2> QED
    BY <2>1 DEF FInv, NoOverlap, NoPointLost
<1>9. ApartIn(pending')
  BY <1>5, <1>8 DEF ApartIn, Disjoint
<1>10. NodesOf(pending') = NodesIn(jobs)
  BY <1>2, <1>5, NodesOfSeq DEF NodesOf
<1>11. Away(NodesOf(pending'), {})
  BY DEF Away
<1>12. LoopOK(pending', results', count', entry')
  <2>1. results' = {} /\ Cardinality(results') = 0 /\ ResultNodes(results') = {}
    BY <1>1, <1>3
  <2>2. Away(NodesOf(pending'), ResultNodes(results'))
    BY <1>11, <2>1
  <2>3. PtsOf(NodesOf(pending')) \cup PtsOf(ResultNodes(results')) = Pts[Root]
    BY <1>3, <1>8, <1>10, <2>1
  <2>4. Cardinality(results') + Len(pending') = count'.expected
    BY <1>2, <1>4, <1>5, <2>1
  <2> QED
    BY <1>4, <1>9, <2>1, <2>2, <2>3, <2>4 DEF LoopOK
<1> QED
  BY <1>6, <1>7, <1>12 DEF LoopInv

LEMMA LoopBegin ==
  ASSUME LocalTypeOK, LoopInv, BeginAttempt
  PROVE  LocalTypeOK' /\ LoopInv'
<1>1. /\ pc = "next" /\ pc' = "solving" /\ pending # <<>> /\ attempt' = Head(pending)
      /\ pending' = Tail(pending) /\ results' = results /\ pure' = pure
      /\ count' = OnePublished(count) /\ entry' = OnePublished(entry)
  BY DEF BeginAttempt
<1>2. Head(pending) \in Job /\ Tail(pending) \in Seq(Job)
      /\ <<Head(pending)>> \o Tail(pending) = pending
  BY <1>1, HeadTailProperties DEF LocalTypeOK
<1>3. /\ count' \in Counts /\ count'.expected = count.expected
      /\ count'.published = count.published + 1
      /\ count'.redelegated = count.redelegated /\ count'.split = count.split
      /\ entry' \in LocalEntry /\ entry'.expected = entry.expected
      /\ entry'.published = entry.published + 1 /\ entry'.completed = entry.completed
      /\ entry'.redelegated = entry.redelegated /\ entry'.split = entry.split
  BY <1>1, CountMoves, EntryMoves DEF LocalTypeOK
<1>4. LocalTypeOK'
  BY <1>1, <1>2, <1>3 DEF LocalTypeOK
<1>5. Work = pending /\ Work' = pending
  BY <1>1, <1>2, WorkIs DEF Work
<1>6. LoopOK(pending, results, count, entry)
  BY <1>1, <1>5 DEF LoopInv, Solving
<1>7. LoopOK(pending, results', count', entry')
  BY <1>1, <1>3, <1>6 DEF LoopOK
<1> QED
  BY <1>4, <1>5, <1>7 DEF LoopInv

(* The children of the attempt go to the back of the queue.                 *)
LEMMA LoopSplit ==
  ASSUME LocalTypeOK, LoopInv, NEW r, SplitAttempt(r)
  PROVE  LocalTypeOK' /\ LoopInv'
<1>1. /\ Returns(r) /\ r.status = "split" /\ pending' = pending \o ChildJobs(r)
      /\ count' = OneMoreToCome(OneSplit(count)) /\ entry' = OneMoreToCome(OneSplit(entry))
      /\ results' = results /\ pure' = pure
  BY DEF SplitAttempt
<1>2. /\ pc' = "next" /\ r.job = attempt /\ attempt \in Job /\ pending \in Seq(Job)
      /\ LoopOK(<<attempt>> \o pending, results, count, entry)
      /\ r \in Result /\ Kids[r.job.node] # <<>>
  BY <1>1, ReturnState DEF Truthful
<1> DEFINE ch == ChildJobs(r)
<1>3. /\ ch \in Seq(Job) /\ Len(ch) = 2 /\ ApartIn(ch)
      /\ \A n \in NodesOf(ch) : Below[n] \subseteq Below[attempt.node]
      /\ PtsOf(NodesOf(ch)) = Pts[attempt.node]
  BY <1>2, ChildFacts
<1> HIDE DEF ch
<1>4. /\ count' \in Counts /\ count'.expected = count.expected + 1
      /\ count'.published = count.published
      /\ count'.redelegated = count.redelegated /\ count'.split = count.split + 1
  <2>1. count \in Counts
    BY DEF LocalTypeOK
  <2> QED
    BY <1>1, <2>1, CountMoves
<1>5. /\ entry' \in LocalEntry /\ entry'.expected = entry.expected + 1
      /\ entry'.published = entry.published /\ entry'.completed = entry.completed
      /\ entry'.redelegated = entry.redelegated /\ entry'.split = entry.split + 1
  <2>1. entry \in LocalEntry
    BY DEF LocalTypeOK
  <2> QED
    BY <1>1, <2>1, EntryMoves
<1>6. pending' \in Seq(Job)
  BY <1>1, <1>2, <1>3, ConcatFacts DEF ch
<1>7. LocalTypeOK'
  BY <1>1, <1>2, <1>4, <1>5, <1>6 DEF LocalTypeOK
<1>8. Work' = pending'
  BY <1>2, <1>6, ConcatEmptySeq DEF Work
<1>9. WorkOK(pending', results) /\ Len(pending') = Len(pending) + 2
  <2>1. pending' = pending \o ch
    BY <1>1 DEF ch
  <2>2. HeadOK(attempt, pending, results)
    BY <1>2, HeadWork
  <2>3. InPlace(ch, attempt)
    BY <1>3 DEF InPlace
  <2>4. WorkOK(pending \o ch, results)
    BY <1>2, <1>3, <2>2, <2>3, ReplaceHead
  <2>5. Len(pending \o ch) = Len(pending) + 2
    <3>1. pending \in Seq(Job) /\ ch \in Seq(Job) /\ Len(ch) = 2 /\ Len(pending) \in Nat
      BY <1>2, <1>3, LenProperties
    <3>2. Len(pending \o ch) = Len(pending) + Len(ch)
      BY <3>1, ConcatFacts
    <3> QED
      BY <3>1, <3>2
  <2> QED
    BY <2>1, <2>4, <2>5
<1>10. Len(pending) \in Nat /\ Len(<<attempt>> \o pending) = Len(pending) + 1
  BY <1>2, HeadWork
<1>11. LoopOK(pending', results', count', entry')
  <2>1. Cardinality(results') + Len(pending') = count'.expected
    <3>1. Cardinality(results) \in Nat
      BY FS_CardinalityType DEF LocalTypeOK
    <3>2. Cardinality(results) + (Len(pending) + 1) = count.expected
      BY <1>2, <1>10 DEF LoopOK
    <3> QED
      BY <1>1, <1>4, <1>9, <1>10, <3>1, <3>2
  <2>2. /\ entry'.completed = Cardinality(results') /\ entry'.expected = count'.expected
        /\ entry'.published = count'.published /\ entry'.redelegated = count'.redelegated
        /\ entry'.split = count'.split
    BY <1>1, <1>2, <1>4, <1>5 DEF LoopOK
  <2> QED
    BY <1>1, <1>9, <2>1, <2>2 DEF LoopOK, WorkOK
<1> QED
  BY <1>7, <1>8, <1>11 DEF LoopInv

(* The retry takes the place of the attempt.                                *)
LEMMA LoopRetry ==
  ASSUME LocalTypeOK, LoopInv, NEW r, RetryAttempt(r)
  PROVE  LocalTypeOK' /\ LoopInv'
<1> DEFINE nx == <<NextTry(r.job)>>
<1>1. /\ Returns(r) /\ ShouldRedelegate(r) /\ pending' = nx \o pending
      /\ count' = OneRetry(count) /\ entry' = OneRetry(entry)
      /\ results' = results /\ pure' = pure
  BY DEF RetryAttempt
<1>2. /\ pc' = "next" /\ r.job = attempt /\ attempt \in Job /\ pending \in Seq(Job)
      /\ LoopOK(<<attempt>> \o pending, results, count, entry)
  BY <1>1, ReturnState
<1>3. /\ nx \in Seq(Job) /\ Len(nx) = 1 /\ ApartIn(nx) /\ NodesOf(nx) = {attempt.node}
  <2>1. NextTry(r.job) \in Job /\ NextTry(r.job).node = attempt.node
    BY <1>1, <1>2, JobFacts DEF ShouldRedelegate
  <2> QED
    BY <2>1, OneJob
<1> HIDE DEF nx
<1>4. PtsOf(NodesOf(nx)) = Pts[attempt.node]
  BY <1>3 DEF PtsOf
<1>5. /\ count' \in Counts /\ count'.expected = count.expected
      /\ count'.published = count.published
      /\ count'.redelegated = count.redelegated + 1 /\ count'.split = count.split
      /\ entry' \in LocalEntry /\ entry'.expected = entry.expected
      /\ entry'.published = entry.published /\ entry'.completed = entry.completed
      /\ entry'.redelegated = entry.redelegated + 1 /\ entry'.split = entry.split
  BY <1>1, CountMoves, EntryMoves DEF LocalTypeOK
<1>6. pending' \in Seq(Job)
  BY <1>1, <1>2, <1>3, ConcatFacts
<1>7. LocalTypeOK'
  BY <1>1, <1>2, <1>5, <1>6 DEF LocalTypeOK
<1>8. Work' = pending'
  BY <1>2, <1>6, ConcatEmptySeq DEF Work
<1>9. WorkOK(pending', results) /\ Len(pending') = Len(pending) + 1
  <2>1. pending' = nx \o pending
    BY <1>1
  <2>2. HeadOK(attempt, pending, results)
    BY <1>2, HeadWork
  <2>3. InPlace(nx, attempt)
    <3>1. \A n \in NodesOf(nx) : Below[n] \subseteq Below[attempt.node]
      BY <1>3
    <3> QED
      BY <1>3, <1>4, <3>1 DEF InPlace
  <2>4. WorkOK(nx \o pending, results)
    BY <1>2, <1>3, <2>2, <2>3, ReplaceHead
  <2>5. Len(nx \o pending) = Len(pending) + 1
    <3>1. pending \in Seq(Job) /\ nx \in Seq(Job) /\ Len(nx) = 1 /\ Len(pending) \in Nat
      BY <1>2, <1>3, LenProperties
    <3>2. Len(nx \o pending) = Len(nx) + Len(pending)
      BY <3>1, ConcatFacts
    <3> QED
      BY <3>1, <3>2
  <2> QED
    BY <2>1, <2>4, <2>5
<1>10. Len(pending) \in Nat /\ Len(<<attempt>> \o pending) = Len(pending) + 1
  BY <1>2, HeadWork
<1>11. LoopOK(pending', results', count', entry')
  BY <1>1, <1>2, <1>5, <1>9, <1>10 DEF LoopOK, WorkOK
<1> QED
  BY <1>7, <1>8, <1>11 DEF LoopInv

(* The result takes the place of the attempt.                               *)
LEMMA LoopKeepResult ==
  ASSUME LocalTypeOK, LoopInv, NEW r, KeepResult(r)
  PROVE  LocalTypeOK' /\ LoopInv'
<1>1. /\ Returns(r) /\ results' = results \cup {r} /\ pending' = pending /\ count' = count
      /\ entry' = [entry EXCEPT !.completed = @ + 1] /\ pure' = pure
  BY DEF KeepResult
<1>2. /\ pc' = "next" /\ r.job = attempt /\ attempt \in Job /\ pending \in Seq(Job)
      /\ LoopOK(<<attempt>> \o pending, results, count, entry) /\ r \in Result
  BY <1>1, ReturnState
<1>3. /\ ApartIn(pending) /\ Away({attempt.node}, NodesOf(pending))
      /\ Away({attempt.node}, ResultNodes(results))
      /\ Away(NodesOf(pending), ResultNodes(results))
      /\ Pts[attempt.node] \cup PtsOf(NodesOf(pending)) \cup PtsOf(ResultNodes(results))
           = Pts[Root]
      /\ Len(pending) \in Nat /\ Len(<<attempt>> \o pending) = Len(pending) + 1
  BY <1>2, HeadWork DEF HeadOK
<1>4. r \notin results
  <2>1. attempt.node \in Below[attempt.node]
    BY <1>2, JobFacts, TreeAssumption DEF TreeShape
  <2> QED
    BY <1>2, <1>3, <2>1 DEF Away, ResultNodes
<1>5. /\ results' \subseteq Result /\ IsFiniteSet(results')
      /\ Cardinality(results') = Cardinality(results) + 1 /\ Cardinality(results) \in Nat
  <2>1. results \subseteq Result /\ IsFiniteSet(results)
    BY DEF LocalTypeOK
  <2> QED
    BY <1>1, <1>2, <1>4, <2>1, FS_AddElement, FS_CardinalityType
<1>6. /\ entry' \in LocalEntry /\ entry'.expected = entry.expected
      /\ entry'.published = entry.published /\ entry'.completed = entry.completed + 1
      /\ entry'.redelegated = entry.redelegated /\ entry'.split = entry.split
  <2>1. entry \in LocalEntry
    BY DEF LocalTypeOK
  <2> QED
    BY <1>1, <2>1 DEF LocalEntry
<1>7. LocalTypeOK'
  BY <1>1, <1>2, <1>5, <1>6 DEF LocalTypeOK
<1>8. Work' = pending
  BY <1>1, <1>2, ConcatEmptySeq DEF Work
<1>9. ResultNodes(results') = ResultNodes(results) \cup {attempt.node}
  BY <1>1, <1>2 DEF ResultNodes
<1>10. Away(NodesOf(pending), ResultNodes(results'))
  BY <1>3, <1>9 DEF Away
<1>11. PtsOf(NodesOf(pending)) \cup PtsOf(ResultNodes(results')) = Pts[Root]
  <2>1. PtsOf(ResultNodes(results')) = PtsOf(ResultNodes(results)) \cup PtsOf({attempt.node})
    BY <1>9, PtsOfUnion
  <2>2. PtsOf({attempt.node}) = Pts[attempt.node]
    BY DEF PtsOf
  <2> QED
    BY <1>3, <2>1, <2>2
<1>12. Cardinality(results') + Len(pending) = count'.expected
  <2>1. Cardinality(results) + (Len(pending) + 1) = count.expected
    BY <1>2, <1>3 DEF LoopOK
  <2> QED
    BY <1>1, <1>3, <1>5, <2>1
<1>13. LoopOK(pending, results', count', entry')
  BY <1>1, <1>2, <1>3, <1>5, <1>6, <1>10, <1>11, <1>12 DEF LoopOK
<1> QED
  BY <1>7, <1>8, <1>13 DEF LoopInv

(* The steps that leave the loop.                                           *)
LEMMA LoopLeft ==
  ASSUME LocalTypeOK, StartFails \/ SolverLost \/ ObserveCancel \/ Finish
  PROVE  LocalTypeOK' /\ LoopInv'
<1>1. /\ pc' \in {"done", "failed"} /\ results' = results /\ pending' = pending
      /\ count' = count /\ pure' = pure
  BY DEF StartFails, SolverLost, ObserveCancel, Finish
<1>2. entry' \in LocalEntry
  <2>1. CASE StartFails \/ SolverLost
    BY <2>1 DEF StartFails, SolverLost, LocalTypeOK
  <2>2. CASE ObserveCancel
    <3>1. entry \in LocalEntry /\ entry' = [entry EXCEPT !.status = "cancelled"]
      BY <2>2 DEF ObserveCancel, LocalTypeOK
    <3> QED
      BY <3>1 DEF LocalEntry, Answer
  <2>3. CASE Finish
    <3> DEFINE st == AggregateStatus(results, count.expected, FALSE)
    <3>1. entry' = [status |-> st,
                    expected |-> count.expected, published |-> count.published,
                    completed |-> Cardinality(results),
                    redelegated |-> count.redelegated, split |-> count.split]
      BY <2>3 DEF Finish
    <3>2. st \in Answer
      BY DEF AggregateStatus, Answer
    <3>3. count \in Counts /\ Cardinality(results) \in Nat
      BY FS_CardinalityType DEF LocalTypeOK
    <3> HIDE DEF st
    <3> QED
      BY <3>1, <3>2, <3>3 DEF Counts, LocalEntry
  <2> QED
    BY <2>1, <2>2, <2>3
<1>3. LocalTypeOK'
  BY <1>1, <1>2 DEF LocalTypeOK
<1> QED
  BY <1>1, <1>3 DEF LoopInv, Solving

(* A cancel changes nothing but the status of the entry.                    *)
LEMMA LoopCancelled ==
  ASSUME LocalTypeOK, LoopInv, RequestCancel \/ RecordCancel
  PROVE  LocalTypeOK' /\ LoopInv'
<1>1. /\ pc' = pc /\ pending' = pending /\ attempt' = attempt /\ results' = results
      /\ count' = count /\ pure' = pure
  BY DEF RequestCancel, RecordCancel
<1>2. /\ entry' \in LocalEntry
      /\ entry'.expected = entry.expected /\ entry'.published = entry.published
      /\ entry'.redelegated = entry.redelegated /\ entry'.split = entry.split
      /\ entry'.completed = entry.completed
  <2>1. CASE RequestCancel
    <3>1. entry \in LocalEntry /\ entry' = [entry EXCEPT !.status = "cancelling"]
      BY <2>1 DEF RequestCancel, LocalTypeOK
    <3> QED
      BY <3>1 DEF LocalEntry
  <2>2. CASE RecordCancel
    BY <2>2 DEF RecordCancel, LocalTypeOK
  <2> QED
    BY <2>1, <2>2
<1>3. LocalTypeOK'
  BY <1>1, <1>2 DEF LocalTypeOK
<1>4. Solving' = Solving /\ Work' = Work
  BY <1>1 DEF Solving, Work
<1> QED
  BY <1>1, <1>2, <1>3, <1>4, LoopKept

-----------------------------------------------------------------------------
(* The invariant of the whole solve.                                        *)

LInv ==
  /\ FInv /\ CapRespected
  /\ LocalTypeOK
  /\ Untouched
  /\ LoopInv

(* LP or MIP, the solve starts with nothing done; the one job of a pure LP  *)
(* is a frontier.                                                           *)
LEMMA LocalInitial == LocalInit => LInv
<1> SUFFICES ASSUME LocalInit PROVE LInv
  OBVIOUS
<1>1. FInv /\ CapRespected
  <2>1. CASE Init
    BY <2>1, FInvInit, CapInit
  <2>2. CASE queue = <<>> /\ jobs = <<Root>> /\ result = "ok"
    <3>1. TypeOK
      BY <2>2, TreeAssumption DEF TypeOK, TreeTypes
    <3>2. Pending = <<Root>> /\ Len(<<Root>>) = 1
      BY <2>2, <3>1, ConcatEmptySeq DEF Pending, TypeOK
    <3>3. NodesIn(Pending) = {Root}
      BY <3>2 DEF NodesIn
    <3>4. NoOverlap
      BY <3>2 DEF NoOverlap, Disjoint
    <3>5. NoPointLost
      BY <3>3 DEF NoPointLost, PtsOf
    <3>6. Len(jobs) = 1 /\ Len(queue) = 0
      BY <2>2
    <3>7. CapRespected
      BY <3>6, FrontierAssumption DEF CapRespected
    <3>8. DepthBounded
      BY <3>3, FrontierAssumption DEF DepthBounded
    <3>9. result = "ok" => queue = <<>>
      BY <2>2
    <3> QED
      BY <3>1, <3>4, <3>5, <3>7, <3>8, <3>9 DEF FInv
  <2> QED
    BY <2>1, <2>2 DEF LocalInit, OnlyJob
<1>2. LocalTypeOK
  <2>1. /\ pure \in BOOLEAN /\ pc = "frontier" /\ pending = <<>> /\ results = {}
        /\ count = [expected |-> 0, published |-> 0, redelegated |-> 0, split |-> 0]
        /\ entry = [status |-> "none", expected |-> 0, published |-> 0, completed |-> 0,
                    redelegated |-> 0, split |-> 0]
    BY DEF LocalInit
  <2>2. count \in Counts /\ entry \in LocalEntry
    BY <2>1 DEF Counts, LocalEntry
  <2>3. pending \in Seq(Job) /\ results \subseteq Result /\ IsFiniteSet(results)
    BY <2>1, NoJobs, FS_EmptySet
  <2> QED
    BY <2>1, <2>2, <2>3 DEF LocalTypeOK
<1>3. Untouched /\ LoopInv
  BY DEF LocalInit, Untouched, LoopInv, Solving
<1> QED
  BY <1>1, <1>2, <1>3 DEF LInv

LEMMA LocalStep == LInv /\ [LocalNext]_localVars => LInv'
<1> SUFFICES ASSUME LInv, [LocalNext]_localVars PROVE LInv'
  OBVIOUS
<1> USE DEF LInv
<1>1. CASE BuildFrontier
  <2>1. Next /\ UNCHANGED taskVars /\ pc = "frontier"
    BY <1>1 DEF BuildFrontier
  <2>2. FInv' /\ CapRespected'
    BY <2>1, FInvStep, CapStep DEF FInv
  <2> QED
    BY <2>1, <2>2 DEF taskVars, LocalTypeOK, Untouched, LoopInv, Solving
<1>2. ASSUME UNCHANGED vars, LocalTypeOK' /\ LoopInv', pc' # "frontier" \/ Untouched'
      PROVE  LInv'
  <2>1. FInv' /\ CapRespected'
    BY <1>2, FInvStep, CapStep DEF FInv
  <2> QED
    BY <1>2, <2>1 DEF Untouched
<1>3. CASE StartSolve
  BY <1>2, <1>3, LoopStart DEF StartSolve
<1>4. CASE BeginAttempt
  BY <1>2, <1>4, LoopBegin DEF BeginAttempt
<1>5. CASE SolverReturns
  <2>1. PICK r : SplitAttempt(r) \/ RetryAttempt(r) \/ KeepResult(r)
    BY <1>5 DEF SolverReturns
  <2>2. UNCHANGED vars /\ pc' = "next"
    BY <2>1 DEF SplitAttempt, RetryAttempt, KeepResult, Returns
  <2> QED
    BY <1>2, <2>1, <2>2, LoopSplit, LoopRetry, LoopKeepResult
<1>6. CASE StartFails \/ SolverLost \/ ObserveCancel \/ Finish
  <2>1. UNCHANGED vars /\ pc' # "frontier"
    BY <1>6 DEF StartFails, SolverLost, ObserveCancel, Finish
  <2> QED
    BY <1>2, <1>6, <2>1, LoopLeft
<1>7. CASE RequestCancel \/ RecordCancel
  <2>1. UNCHANGED vars /\ pc' = pc /\ entry.status \in {"running", "cancelling"}
    BY <1>7 DEF RequestCancel, RecordCancel
  <2>2. pc # "frontier"
    BY <2>1 DEF Untouched
  <2> QED
    BY <1>2, <1>7, <2>1, <2>2, LoopCancelled
<1>8. CASE UNCHANGED localVars
  <2>1. UNCHANGED vars /\ UNCHANGED taskVars
    BY <1>8 DEF localVars
  <2>2. FInv' /\ CapRespected'
    BY <2>1, FInvStep, CapStep DEF FInv
  <2>3. LocalTypeOK' /\ Untouched'
    BY <2>1 DEF taskVars, LocalTypeOK, Untouched
  <2>4. Work' = Work /\ Solving' = Solving
    BY <2>1 DEF taskVars, Work, Solving
  <2>5. LoopInv'
    BY <2>1, <2>4 DEF taskVars, LoopInv, LoopOK
  <2> QED
    BY <2>2, <2>3, <2>5
<1> QED
  BY <1>1, <1>3, <1>4, <1>5, <1>6, <1>7, <1>8 DEF LocalNext, TaskStep

(* The invariant of the pre-split and of the loop holds throughout.         *)
THEOREM LocalInductive == LocalSpec => []LInv
BY LocalInitial, LocalStep, PTL DEF LocalSpec

LEMMA LoopMeans == LInv => NothingDropped /\ NothingTwice /\ LocalCounts
BY LoopIs DEF LInv, LoopInv

(* Between the pre-split, the splits at run time, the retries and the kept  *)
(* results no feasible integer point drops out of a local solve (5674-5845).*)
THEOREM LocalKeepsAll == LocalSpec => []NothingDropped
BY LocalInductive, LoopMeans, PTL

(* No part of the tree is solved twice, though a retry goes to the front of *)
(* the queue and children to its back (5796-5828).                          *)
THEOREM LocalOnce == LocalSpec => []NothingTwice
BY LocalInductive, LoopMeans, PTL

(* jobs_expected is the number of results and of jobs in hand, and the      *)
(* registry counts what the task counts (5698-5846).                        *)
THEOREM LocalLedger == LocalSpec => []LocalCounts
BY LocalInductive, LoopMeans, PTL

(* The limits of the pre-split hold in the local solve too.                 *)
THEOREM LocalLimits == LocalSpec => []WithinLimits
<1>1. LInv => WithinLimits
  BY DEF LInv, FInv, WithinLimits
<1> QED
  BY <1>1, LocalInductive, PTL

-----------------------------------------------------------------------------
(* The local solve keeps the contract of the distributed one.               *)

LExplored == Pts[Root] \ Explored(results)
LFound == {r.x : r \in Feasible(results)}
LAnswer == IF response = NoResponse
           THEN [status |-> "none", x |-> NoPoint]
           ELSE [status |-> response.status, x |-> response.x]

(* No answer before the end, and no split among the results.                *)
Unanswered ==
  /\ pc # "done" => response = NoResponse
  /\ \A r \in results : r.status # "split"

LEMMA NoPointAway == \A n \in Node : NoPoint \notin Pts[n]
BY LocalAssumption, TreeAssumption DEF TreeTypes

LEMMA UnansweredInit == LocalInit => Unanswered
BY DEF LocalInit, Unanswered

LEMMA UnansweredStep == Unanswered /\ [LocalNext]_localVars => Unanswered'
<1> SUFFICES ASSUME Unanswered, [LocalNext]_localVars PROVE Unanswered'
  OBVIOUS
<1>1. ASSUME results' = results, pc' # "done" => response' = response /\ pc # "done"
      PROVE  Unanswered'
  BY <1>1 DEF Unanswered
<1>2. CASE BuildFrontier
  BY <1>1, <1>2 DEF BuildFrontier, taskVars
<1>3. CASE StartSolve \/ BeginAttempt \/ ObserveCancel \/ Finish \/ StartFails \/ SolverLost
  BY <1>1, <1>3 DEF StartSolve, BeginAttempt, ObserveCancel, Finish, StartFails, SolverLost
<1>4. CASE RequestCancel \/ RecordCancel \/ UNCHANGED localVars
  BY <1>1, <1>4 DEF RequestCancel, RecordCancel, localVars, taskVars
<1>5. CASE SolverReturns
  <2>1. PICK r : SplitAttempt(r) \/ RetryAttempt(r) \/ KeepResult(r)
    BY <1>5 DEF SolverReturns
  <2>2. CASE KeepResult(r)
    BY <2>2 DEF KeepResult, Returns, Unanswered
  <2>3. CASE SplitAttempt(r) \/ RetryAttempt(r)
    BY <1>1, <2>3 DEF SplitAttempt, RetryAttempt, Returns
  <2> QED
    BY <2>1, <2>2, <2>3
<1> QED
  BY <1>2, <1>3, <1>4, <1>5 DEF LocalNext, TaskStep

LEMMA ContractInitial == LocalInit => LocalContract!ContractInit
<1> SUFFICES ASSUME LocalInit PROVE LocalContract!ContractInit
  OBVIOUS
<1>1. results = {} /\ response = NoResponse
  BY DEF LocalInit
<1>2. Explored(results) = {} /\ Feasible(results) = {}
  BY <1>1 DEF Explored, PtsOf, Feasible
<1> QED
  BY <1>1, <1>2 DEF LocalContract!ContractInit, LocalContract!NoAnswer

(* The contract sees results and response only.                             *)
LEMMA Unseen ==
  ASSUME results' = results, response' = response
  PROVE  UNCHANGED LocalContract!cvars
BY DEF LocalContract!cvars, Explored, Feasible, PtsOf

LEMMA AddedResult ==
  ASSUME NEW R, NEW r
  PROVE  /\ r.status \in {"optimal", "infeasible"} =>
              Explored(R \cup {r}) = Explored(R) \cup Pts[r.job.node]
         /\ r.status \notin {"optimal", "infeasible"} => Explored(R \cup {r}) = Explored(R)
         /\ r.x # NoPoint =>
              {s.x : s \in Feasible(R \cup {r})} = {s.x : s \in Feasible(R)} \cup {r.x}
         /\ r.x = NoPoint =>
              {s.x : s \in Feasible(R \cup {r})} = {s.x : s \in Feasible(R)}
BY DEF Explored, PtsOf, Feasible

(* A result kept explores its subtree, adds a point, or shows nothing.      *)
LEMMA KeepsContract ==
  ASSUME LInv, Unanswered, NEW r, KeepResult(r)
  PROVE  [LocalContract!ContractNext]_(LocalContract!cvars)
<1> DEFINE n == r.job.node
<1>1. /\ Returns(r) /\ results' = results \cup {r} /\ response' = response
      /\ r.status # "split"
  BY DEF KeepResult
<1>2. /\ r \in Result /\ Truthful(r) /\ r.x \in Pts[n] \cup {NoPoint}
      /\ pc = "solving" /\ r.job = attempt /\ attempt \in Job /\ pending \in Seq(Job)
      /\ LoopOK(<<attempt>> \o pending, results, count, entry)
  BY <1>1, ReturnState DEF LInv
<1>3. n \in Node /\ Pts[n] \subseteq Pts[Root]
  <2>1. HeadOK(attempt, pending, results)
    BY <1>2, HeadWork
  <2> QED
    BY <1>2, <2>1, JobFacts DEF HeadOK
<1>4. response = NoResponse /\ LAnswer = LocalContract!NoAnswer /\ LAnswer' = LAnswer
  BY <1>1, <1>2 DEF Unanswered, LAnswer, LocalContract!NoAnswer
<1>5. /\ LFound' = IF r.x = NoPoint THEN LFound ELSE LFound \cup {r.x}
      /\ LExplored' = IF r.status \in {"optimal", "infeasible"}
                      THEN LExplored \ Pts[n] ELSE LExplored
  BY <1>1, AddedResult DEF LFound, LExplored
<1> HIDE DEF n
<1>6. CASE r.status = "optimal"
  <2>1. IsBestOf(r.x, Pts[n]) /\ r.x \in Pts[n]
    BY <1>6 , <1>2 DEF Truthful, IsBestOf, n
  <2>2. r.x # NoPoint
    BY <1>3, <2>1, NoPointAway
  <2>3. LExplored' = LExplored \ Pts[n] /\ LFound' = LFound \cup {r.x}
    BY <1>5, <1>6, <2>2
  <2>4. \E region \in SUBSET Pts[Root] : \E y \in region :
          /\ IsBestOf(y, region)
          /\ LExplored' = LExplored \ region
          /\ LFound' = LFound \cup {y}
    <3>1. Pts[n] \in SUBSET Pts[Root]
      BY <1>3
    <3> QED
      BY <2>1, <2>3, <3>1
  <2>5. \A y, S : LocalContract!IsBestOf(y, S) <=> IsBestOf(y, S)
    BY DEF LocalContract!IsBestOf, IsBestOf
  <2>6. LocalContract!Explore
    BY <1>4, <2>4, <2>5 DEF LocalContract!Explore, LExplored, LFound, LAnswer
  <2> QED
    BY <2>6 DEF LocalContract!ContractNext
<1>7. CASE r.status # "optimal" /\ r.x # NoPoint
  <2>1. r.x \in Pts[Root]
    BY <1>2, <1>3, <1>7 DEF n
  <2>2. r.status # "infeasible"
    BY <1>2, <1>7 DEF Truthful
  <2>3. LExplored' = LExplored /\ LFound' = LFound \cup {r.x}
    BY <1>5, <1>7, <2>2
  <2>4. LocalContract!FindPoint
    BY <1>4, <2>1, <2>3 DEF LocalContract!FindPoint, LExplored, LFound, LAnswer
  <2> QED
    BY <2>4 DEF LocalContract!ContractNext
<1>8. CASE r.status # "optimal" /\ r.x = NoPoint
  <2>1. r.status = "infeasible" => Pts[n] = {}
    BY <1>2 DEF Truthful, n
  <2>2. LExplored' = LExplored /\ LFound' = LFound
    BY <1>5, <1>8, <2>1
  <2> QED
    BY <1>4, <2>2 DEF LocalContract!cvars, LExplored, LFound, LAnswer
<1> QED
  BY <1>6, <1>7, <1>8

LEMMA CancelsByContract ==
  ASSUME Unanswered, ObserveCancel
  PROVE  LocalContract!ContractNext
<1>1. response = NoResponse /\ results' = results /\ response'.status = "cancelled"
      /\ response'.x = NoPoint
  BY DEF ObserveCancel, Unanswered
<1>2. LAnswer = LocalContract!NoAnswer
  BY <1>1 DEF LAnswer, LocalContract!NoAnswer
<1>3. LAnswer' = [status |-> "cancelled", x |-> NoPoint]
  <2>1. NoResponse.status = "none"
    BY DEF NoResponse
  <2>2. response' # NoResponse
    BY <1>1, <2>1
  <2> QED
    BY <1>1, <2>2 DEF LAnswer
<1>4. LExplored' = LExplored /\ LFound' = LFound
  BY <1>1 DEF LExplored, LFound, Explored, Feasible, PtsOf
<1>5. LocalContract!GiveAnswer
  BY <1>2, <1>3, <1>4 DEF LocalContract!GiveAnswer, LocalContract!AnswerCancelled, LAnswer,
                          LExplored, LFound
<1> QED
  BY <1>5 DEF LocalContract!ContractNext

(* What aggregate_results says of the results of a loop that has run out.   *)
LEMMA StatusMeans ==
  ASSUME NEW R, NEW n
  PROVE  LET s == AggregateStatus(R, n, FALSE)
         IN  /\ Feasible(R) # {} => s \in {"optimal", "feasible-partial"}
             /\ Feasible(R) = {} => s \in {"unbounded", "error", "infeasible"}
             /\ s = "optimal" => \A r \in R : r.status \in {"optimal", "infeasible"}
             /\ s = "infeasible" =>
                  \A r \in R : r.status \notin {"unbounded", "error", "iter-limit",
                                                "numerical-error"}
BY DEF AggregateStatus, AllTerminal

LEMMA FinishesByContract ==
  ASSUME LInv, Unanswered, Finish
  PROVE  LocalContract!ContractNext
<1> DEFINE s == AggregateStatus(results, count.expected, FALSE)
<1>1. PICK x \in IF Feasible(results) = {} THEN {NoPoint} ELSE BestPoints(results) :
        response'.status = s /\ response'.x = x
  BY DEF Finish
<1>2. pc = "next" /\ pending = <<>> /\ results' = results /\ response = NoResponse
  BY DEF Finish, Unanswered
<1>3. LAnswer = LocalContract!NoAnswer
  BY <1>2 DEF LAnswer, LocalContract!NoAnswer
<1>4. LAnswer' = [status |-> s, x |-> x]
  <2>1. s \in Answer /\ NoResponse.status = "none" /\ "none" \notin Answer
    BY DEF NoResponse, Answer, AggregateStatus
  <2>2. response' # NoResponse
    BY <1>1, <2>1
  <2> QED
    BY <1>1, <2>2 DEF LAnswer
<1>5. LExplored' = LExplored /\ LFound' = LFound
  BY <1>2 DEF LExplored, LFound, Explored, Feasible, PtsOf
<1>6. PtsOf(ResultNodes(results)) = Pts[Root]
  <2>1. Work = pending
    BY <1>2, WorkIs DEF LInv
  <2>2. LoopOK(<<>>, results, count, entry)
    BY <1>2, <2>1 DEF LInv, LoopInv, Solving
  <2>3. PtsOf(NodesOf(<<>>)) = {}
    BY NoJobs DEF PtsOf
  <2> QED
    BY <2>2, <2>3 DEF LoopOK
<1>7. (\A r \in results : r.status \in {"optimal", "infeasible"}) => LExplored = {}
  <2> SUFFICES ASSUME \A r \in results : r.status \in {"optimal", "infeasible"}
               PROVE  LExplored = {}
    OBVIOUS
  <2>1. {r \in results : r.status \in {"optimal", "infeasible"}} = results
    OBVIOUS
  <2> QED
    BY <1>6, <2>1 DEF LExplored, Explored, ResultNodes
<1>8. /\ Feasible(results) # {} => s \in {"optimal", "feasible-partial"}
      /\ Feasible(results) = {} => s \in {"unbounded", "error", "infeasible"}
      /\ s = "optimal" => LExplored = {}
      /\ s = "infeasible" => LExplored = {}
  <2>1. \A r \in results : r.status \in ResultStatus /\ r.status # "split"
    BY DEF LInv, LocalTypeOK, Unanswered, Result
  <2> QED
    BY <1>7, <2>1, StatusMeans DEF ResultStatus
<1> HIDE DEF s
<1>9. CASE Feasible(results) # {}
  <2>1. x \in LFound /\ \A y \in LFound : Obj[y] <= Obj[x]
    BY <1>1, <1>9 DEF BestPoints, LFound
  <2>2. LocalContract!BestFound(x)
    BY <2>1 DEF LocalContract!BestFound, LFound
  <2>3. LocalContract!AnswerOptimal \/ LocalContract!AnswerPartial
    BY <1>4, <1>8, <1>9, <2>1, <2>2
       DEF LocalContract!AnswerOptimal, LocalContract!AnswerPartial, LExplored, LFound, LAnswer
  <2> QED
    BY <1>3, <1>5, <2>3 DEF LocalContract!ContractNext, LocalContract!GiveAnswer, LExplored,
                            LFound, LAnswer
<1>10. CASE Feasible(results) = {}
  <2>1. LFound = {} /\ x = NoPoint
    BY <1>1, <1>10 DEF LFound
  <2>2. LocalContract!AnswerInfeasible \/ LocalContract!GiveUp
    BY <1>4, <1>8, <1>10, <2>1
       DEF LocalContract!AnswerInfeasible, LocalContract!GiveUp, LExplored, LFound, LAnswer
  <2> QED
    BY <1>3, <1>5, <2>2 DEF LocalContract!ContractNext, LocalContract!GiveAnswer, LExplored,
                            LFound, LAnswer
<1> QED
  BY <1>9, <1>10

LEMMA ContractStep ==
  LInv /\ Unanswered /\ [LocalNext]_localVars
    => [LocalContract!ContractNext]_(LocalContract!cvars)
<1> SUFFICES ASSUME LInv, Unanswered, [LocalNext]_localVars
             PROVE  [LocalContract!ContractNext]_(LocalContract!cvars)
  OBVIOUS
<1>1. CASE BuildFrontier \/ StartSolve \/ BeginAttempt \/ StartFails \/ SolverLost
  BY <1>1, Unseen DEF BuildFrontier, taskVars, StartSolve, BeginAttempt, StartFails, SolverLost
<1>2. CASE RequestCancel \/ RecordCancel \/ UNCHANGED localVars
  BY <1>2, Unseen DEF RequestCancel, RecordCancel, localVars, taskVars
<1>3. CASE SolverReturns
  <2>1. PICK r : SplitAttempt(r) \/ RetryAttempt(r) \/ KeepResult(r)
    BY <1>3 DEF SolverReturns
  <2>2. CASE SplitAttempt(r) \/ RetryAttempt(r)
    BY <2>2, Unseen DEF SplitAttempt, RetryAttempt
  <2> QED
    BY <2>1, <2>2, KeepsContract
<1>4. CASE ObserveCancel
  BY <1>4, CancelsByContract
<1>5. CASE Finish
  BY <1>5, FinishesByContract
<1> QED
  BY <1>1, <1>2, <1>3, <1>4, <1>5 DEF LocalNext, TaskStep

(* The local solve implements the contract of the distributed one: its one  *)
(* answer follows from what the results it kept have explored (5568-5862).  *)
THEOREM LocalKeepsContract == LocalSpec => LocalImplementsContract
<1>1. LInv /\ Unanswered /\ [LocalNext]_localVars => (LInv /\ Unanswered)'
  BY LocalStep, UnansweredStep
<1>2. LocalInit => LInv /\ Unanswered
  BY LocalInitial, UnansweredInit
<1> QED
  BY <1>1, <1>2, ContractStep, ContractInitial, PTL
     DEF LocalSpec, LocalImplementsContract, LocalContract!ContractSpec
=============================================================================
