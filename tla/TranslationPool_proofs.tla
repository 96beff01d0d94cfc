----------------------- MODULE TranslationPool_proofs -----------------------
(***************************************************************************)
(* Proofs about TranslationPool, for any number of captions, any degree of *)
(* concurrency, any number of updates and failures: its types, what the    *)
(* pool accounts for, that no update of the settings loses a caption, and  *)
(* that the model never replaces the translation of a user.                *)
(***************************************************************************)
EXTENDS TranslationPool, FiniteSetTheorems, SequenceTheorems, TLAPS

-----------------------------------------------------------------------------
(* The inductive invariant.                                                *)

\* The captions of a queue and of a set of running tasks.
Queued(q) == {q[i].cap : i \in DOMAIN q}
Started(r) == {t.cap : t \in r}

\* A queue q and a set r of running tasks are the work for the captions p, once each.
Work(q, r, p) ==
  /\ \A i, j \in DOMAIN q : q[i].cap = q[j].cap => i = j
  /\ \A t, u \in r : t.cap = u.cap => t = u
  /\ Queued(q) \cap Started(r) = {}
  /\ p = Queued(q) \cup Started(r)

\* The answers that are queued.
Answers(ms) == {i \in DOMAIN ms : ms[i].op = "write"}

\* The task that waits for an answer to be written.
TaskOf(m) == [cap |-> m.cap, gen |-> m.gen, at |-> "writing"]

\* Each queued answer has a task of its own that waits for it.
HaveTasks(ms, r) ==
  /\ \A i \in Answers(ms) : TaskOf(ms[i]) \in r
  /\ \A i, j \in Answers(ms) : ms[i].cap = ms[j].cap => i = j

\* The end of the session goes past the drain only when the pool is idle.
EndIsOrdered ==
  /\ endAt # "none" => phase = "stopping"
  /\ endAt = "finish" \/ phase = "ended" => Idle

\* A service that is down has nothing in memory.
DownIsEmpty ==
  lifecycle = "down" => Idle /\ mutations = <<>> /\ owed = {} /\ endAt = "none"

IInv ==
  /\ TypeOK /\ IsFiniteSet(running)
  /\ generation + Cardinality(Updates) <= MaxUpdates
  /\ Work(queue, running, pending)
  /\ HaveTasks(mutations, running)
  /\ EndIsOrdered /\ DownIsEmpty
  /\ NoCaptionForgotten

-----------------------------------------------------------------------------
(* The tasks of a set of captions, in their order.                         *)

LEMMA CaptionsAreFinite ==
  ASSUME NEW cs \in SUBSET Caption
  PROVE  IsFiniteSet(cs) /\ Cardinality(cs) \in Nat
<1>1. IsFiniteSet(Caption) BY FS_Interval, PoolAssumption DEF Caption
<1>2. IsFiniteSet(cs) BY <1>1, FS_Subset
<1> QED BY <1>2, FS_CardinalityType

LEMMA RankTyped ==
  ASSUME NEW cs \in SUBSET Caption, NEW c \in cs
  PROVE  Rank(c, cs) \in 1 .. Cardinality(cs)
<1> DEFINE below == {d \in cs : d <= c}
<1>1. cs \subseteq Nat BY DEF Caption
<1>2. c \in below BY <1>1
<1>3. IsFiniteSet(cs) /\ Cardinality(cs) \in Nat BY CaptionsAreFinite
<1>4. below \in SUBSET cs OBVIOUS
<1>5. IsFiniteSet(below) /\ Cardinality(below) <= Cardinality(cs) BY <1>3, <1>4, FS_Subset
<1> HIDE DEF below
<1>6. Cardinality(below) \in Nat /\ Cardinality(below) # 0
  BY <1>2, <1>5, FS_CardinalityType, FS_EmptySet
<1> QED BY <1>3, <1>5, <1>6 DEF Rank, below

LEMMA RankIncreases ==
  ASSUME NEW cs \in SUBSET Caption, NEW c \in cs, NEW e \in cs, c < e
  PROVE  Rank(c, cs) < Rank(e, cs)
<1> DEFINE below(x) == {d \in cs : d <= x}
<1>1. cs \subseteq Nat BY DEF Caption
<1>2. below(c) \cup {e} \in SUBSET below(e)
  <2>1. c \in Nat /\ e \in Nat /\ e <= e BY <1>1
  <2>2. e \in below(e) BY <2>1
  <2>3. \A d \in below(c) : d \in below(e) BY <1>1, <2>1
  <2> HIDE DEF below
  <2> QED BY <2>2, <2>3
<1>3. e \notin below(c) BY <1>1
<1>4. below(c) \in SUBSET Caption /\ below(e) \in SUBSET Caption OBVIOUS
<1> HIDE DEF below
<1>5. /\ IsFiniteSet(below(c)) /\ Cardinality(below(c)) \in Nat
      /\ IsFiniteSet(below(e)) /\ Cardinality(below(e)) \in Nat
  BY <1>4, CaptionsAreFinite
<1>6. Cardinality(below(c) \cup {e}) = Cardinality(below(c)) + 1 BY <1>3, <1>5, FS_AddElement
<1>7. Cardinality(below(c) \cup {e}) <= Cardinality(below(e)) BY <1>2, <1>5, FS_Subset
<1> QED BY <1>5, <1>6, <1>7 DEF Rank, below

LEMMA RankIsInjective ==
  ASSUME NEW cs \in SUBSET Caption, NEW c \in cs, NEW e \in cs, Rank(c, cs) = Rank(e, cs)
  PROVE  c = e
<1>1. c \in Nat /\ e \in Nat BY DEF Caption
<1>2. Rank(c, cs) \in Nat /\ Rank(e, cs) \in Nat BY RankTyped, CaptionsAreFinite
<1>3. ~(c < e) BY <1>2, RankIncreases
<1>4. ~(e < c) BY <1>2, RankIncreases
<1> QED BY <1>1, <1>3, <1>4

\* Every place among the captions is taken.
LEMMA RankIsSurjective ==
  ASSUME NEW cs \in SUBSET Caption, NEW i \in 1 .. Cardinality(cs)
  PROVE  \E c \in cs : Rank(c, cs) = i
<1> DEFINE n == Cardinality(cs)
           rank == [c \in cs |-> Rank(c, cs)]
<1>1. IsFiniteSet(cs) /\ n \in Nat BY CaptionsAreFinite
<1>2. rank \in [cs -> 1 .. n] BY RankTyped
<1>3. \A c, e \in cs : rank[c] = rank[e] => c = e BY RankIsInjective
<1>4. rank \in Injection(cs, 1 .. n) BY <1>2, <1>3, Zenon DEF Injection, IsInjective
<1>5. IsFiniteSet(1 .. n) /\ Cardinality(1 .. n) = n BY <1>1, FS_Interval
<1>6. rank \in Surjection(cs, 1 .. n)
  <2> HIDE DEF n, rank
  <2>1. Cardinality(cs) = Cardinality(1 .. n) BY <1>5 DEF n
  <2> QED BY <1>4, <1>5, <2>1, FS_Injection
<1>7. PICK c \in cs : rank[c] = i BY <1>6 DEF Surjection
<1> QED BY <1>7

LEMMA TasksOf ==
  ASSUME NEW cs \in SUBSET Caption, NEW gen \in 0 .. MaxUpdates
  PROVE  /\ Tasks(cs, gen) \in Seq(Task)
         /\ \A i \in DOMAIN Tasks(cs, gen) : Tasks(cs, gen)[i].gen = gen
         /\ \A i, j \in DOMAIN Tasks(cs, gen) :
              Tasks(cs, gen)[i].cap = Tasks(cs, gen)[j].cap => i = j
         /\ Queued(Tasks(cs, gen)) = cs
<1> DEFINE n == Cardinality(cs)
           cap(i) == CHOOSE c \in cs : Rank(c, cs) = i
           ts == Tasks(cs, gen)
<1>1. n \in Nat BY CaptionsAreFinite
<1>2. \A i \in 1 .. n : cap(i) \in cs /\ Rank(cap(i), cs) = i BY RankIsSurjective
<1>3. \A c \in cs : Rank(c, cs) \in 1 .. n /\ cap(Rank(c, cs)) = c
  <2>1. TAKE c \in cs
  <2>2. Rank(c, cs) \in 1 .. n BY RankTyped
  <2>3. cap(Rank(c, cs)) \in cs /\ Rank(cap(Rank(c, cs)), cs) = Rank(c, cs) BY <1>2, <2>2
  <2> HIDE DEF cap
  <2> QED BY <2>2, <2>3, RankIsInjective
<1> HIDE DEF cap, n
<1>4. ts = [i \in 1 .. n |-> [cap |-> cap(i), gen |-> gen]] BY DEF Tasks, n, cap
<1> HIDE DEF ts
<1>5. ts \in [1 .. n -> Task] BY <1>2, <1>4 DEF Task
<1>6. ts \in Seq(Task) BY <1>1, <1>5
<1>7. DOMAIN ts = 1 .. n BY <1>4
<1>8. \A i \in 1 .. n : ts[i].cap = cap(i) /\ ts[i].gen = gen BY <1>4
<1>9. \A i, j \in DOMAIN ts : ts[i].cap = ts[j].cap => i = j BY <1>2, <1>7, <1>8
<1>10. Queued(ts) = cs
  <2>1. Queued(ts) \subseteq cs BY <1>2, <1>7, <1>8 DEF Queued
  <2>2. cs \subseteq Queued(ts) BY <1>3, <1>7, <1>8 DEF Queued
  <2> QED BY <2>1, <2>2
<1> QED BY <1>6, <1>7, <1>8, <1>9, <1>10 DEF ts

-----------------------------------------------------------------------------
(* The work of the pool.                                                   *)

LEMMA WorkAppends ==
  ASSUME NEW q \in Seq(Task), NEW s \in Seq(Task), NEW r, NEW p, Work(q, r, p),
         \A i, j \in DOMAIN s : s[i].cap = s[j].cap => i = j,
         Queued(s) \cap p = {}
  PROVE  /\ q \o s \in Seq(Task)
         /\ Work(q \o s, r, p \cup Queued(s))
<1> DEFINE z == q \o s
<1>1. /\ Len(q) \in Nat /\ DOMAIN q = 1 .. Len(q)
      /\ Len(s) \in Nat /\ DOMAIN s = 1 .. Len(s)
  BY LenProperties
<1>2. /\ z \in Seq(Task) /\ Len(z) = Len(q) + Len(s)
      /\ \A i \in 1 .. Len(q) + Len(s) : z[i] = IF i <= Len(q) THEN q[i] ELSE s[i - Len(q)]
  BY ConcatProperties
<1>3. DOMAIN z = 1 .. Len(q) + Len(s) BY <1>2, LenProperties
<1> HIDE DEF z
<1>4. \A i \in DOMAIN q : i \in DOMAIN z /\ z[i] = q[i] BY <1>1, <1>2, <1>3
<1>5. \A i \in DOMAIN s : i + Len(q) \in DOMAIN z /\ z[i + Len(q)] = s[i] BY <1>1, <1>2, <1>3
<1>6. \A i \in DOMAIN z : \/ i \in DOMAIN q /\ z[i] = q[i]
                          \/ i - Len(q) \in DOMAIN s /\ z[i] = s[i - Len(q)]
  BY <1>1, <1>2, <1>3
<1>7. Queued(z) = Queued(q) \cup Queued(s)
  <2>1. Queued(z) \subseteq Queued(q) \cup Queued(s) BY <1>6 DEF Queued
  <2>2. Queued(q) \cup Queued(s) \subseteq Queued(z) BY <1>4, <1>5 DEF Queued
  <2> QED BY <2>1, <2>2
<1>8. ASSUME NEW i \in DOMAIN z, NEW j \in DOMAIN z, z[i].cap = z[j].cap PROVE i = j
  <2>0. i \in Nat /\ j \in Nat BY <1>1, <1>3
  <2>1. CASE i \in DOMAIN q /\ z[i] = q[i] /\ j \in DOMAIN q /\ z[j] = q[j]
    BY <1>8, <2>1 DEF Work
  <2>2. CASE /\ i - Len(q) \in DOMAIN s /\ z[i] = s[i - Len(q)]
             /\ j - Len(q) \in DOMAIN s /\ z[j] = s[j - Len(q)]
    <3>1. i - Len(q) = j - Len(q) BY <1>8, <2>2
    <3> QED BY <1>1, <2>0, <3>1
  <2>3. ASSUME NEW k \in DOMAIN q, NEW l \in DOMAIN s, q[k].cap = s[l].cap PROVE FALSE
    <3>1. q[k].cap \in Queued(q) /\ s[l].cap \in Queued(s) BY DEF Queued
    <3>2. q[k].cap \in p BY <3>1 DEF Work
    <3> QED BY <2>3, <3>1, <3>2
  <2> QED BY <1>6, <1>8, <2>1, <2>2, <2>3
<1> QED BY <1>2, <1>7, <1>8 DEF Work, z

LEMMA WorkTail ==
  ASSUME NEW q \in Seq(Task), NEW r, NEW p, Work(q, r, p), q # <<>>
  PROVE  /\ Head(q) \in Task /\ Head(q).cap \in p
         /\ Tail(q) \in Seq(Task)
         /\ Work(Tail(q), r, p \ {Head(q).cap})
<1> DEFINE z == Tail(q)
<1>1. Len(q) \in Nat /\ DOMAIN q = 1 .. Len(q) /\ Len(q) # 0 BY LenProperties, EmptySeq
<1>2. /\ Head(q) \in Task /\ z \in Seq(Task) /\ Len(z) = Len(q) - 1
      /\ \A i \in 1 .. Len(z) : z[i] = q[i + 1]
  BY HeadTailProperties
<1>3. DOMAIN z = 1 .. Len(q) - 1 BY <1>2, LenProperties
<1>4. Head(q) = q[1] /\ 1 \in DOMAIN q BY <1>1
<1> HIDE DEF z
<1>5. \A i \in DOMAIN z : i + 1 \in DOMAIN q /\ z[i] = q[i + 1] /\ i \in Nat /\ i + 1 # 1
  BY <1>1, <1>2, <1>3
<1>6. \A i \in DOMAIN q : i = 1 \/ (i - 1 \in DOMAIN z /\ z[i - 1] = q[i])
  BY <1>1, <1>2, <1>3
<1>7. Queued(z) = Queued(q) \ {Head(q).cap}
  <2>1. ASSUME NEW c \in Queued(z) PROVE c \in Queued(q) \ {Head(q).cap}
    <3>1. PICK i \in DOMAIN z : c = z[i].cap BY DEF Queued
    <3>2. i + 1 \in DOMAIN q /\ c = q[i + 1].cap /\ i + 1 # 1 BY <1>5, <3>1
    <3>3. q[i + 1].cap # q[1].cap BY <1>4, <3>2 DEF Work
    <3> QED BY <1>4, <3>2, <3>3 DEF Queued
  <2>2. ASSUME NEW c \in Queued(q), c # Head(q).cap PROVE c \in Queued(z)
    <3>1. PICK i \in DOMAIN q : c = q[i].cap BY DEF Queued
    <3>2. i # 1 BY <1>4, <2>2, <3>1
    <3> QED BY <1>6, <3>1, <3>2 DEF Queued
  <2> QED BY <2>1, <2>2
<1>8. ASSUME NEW i \in DOMAIN z, NEW j \in DOMAIN z, z[i].cap = z[j].cap PROVE i = j
  <2>1. i + 1 = j + 1 BY <1>5, <1>8 DEF Work
  <2> QED BY <1>5, <2>1
<1>9. Head(q).cap \in Queued(q) BY <1>4 DEF Queued
<1> QED BY <1>2, <1>7, <1>8, <1>9 DEF Work, z

\* A running task is the only work for its caption.
LEMMA WorkDrops ==
  ASSUME NEW q, NEW r, NEW p, Work(q, r, p), NEW t \in r
  PROVE  Work(q, r \ {t}, p \ {t.cap}) /\ t.cap \in p
<1>1. Started(r \ {t}) = Started(r) \ {t.cap} BY DEF Work, Started
<1>2. t.cap \in Started(r) BY DEF Started
<1> QED BY <1>1, <1>2 DEF Work

\* A task starts for a caption that has none.
LEMMA WorkAdds ==
  ASSUME NEW q, NEW r, NEW p, Work(q, r, p), NEW t, t.cap \notin p
  PROVE  Work(q, r \cup {t}, p \cup {t.cap})
<1>1. Started(r \cup {t}) = Started(r) \cup {t.cap} BY DEF Started
<1>2. t.cap \notin Started(r) BY DEF Work
<1>3. \A u \in r : u.cap # t.cap BY <1>2 DEF Started
<1> QED BY <1>1, <1>2, <1>3 DEF Work

-----------------------------------------------------------------------------
(* The mutations.                                                          *)

\* The updates among the mutations ms.
UpdatesOf(ms) == {i \in DOMAIN ms : ms[i].op = "update"}

LEMMA UpdatesTyped ==
  ASSUME NEW ms \in Seq(Mutation)
  PROVE  IsFiniteSet(UpdatesOf(ms)) /\ Cardinality(UpdatesOf(ms)) \in Nat
<1>1. Len(ms) \in Nat /\ DOMAIN ms = 1 .. Len(ms) BY LenProperties
<1>2. IsFiniteSet(1 .. Len(ms)) BY <1>1, FS_Interval
<1>3. UpdatesOf(ms) \in SUBSET (1 .. Len(ms)) BY <1>1 DEF UpdatesOf
<1>4. IsFiniteSet(UpdatesOf(ms)) BY <1>2, <1>3, FS_Subset
<1> QED BY <1>4, FS_CardinalityType

LEMMA UpdatesOfAppend ==
  ASSUME NEW ms \in Seq(Mutation), NEW m \in Mutation
  PROVE  /\ Append(ms, m) \in Seq(Mutation)
         /\ m.op = "write" => UpdatesOf(Append(ms, m)) = UpdatesOf(ms)
         /\ Cardinality(UpdatesOf(Append(ms, m))) <= Cardinality(UpdatesOf(ms)) + 1
<1> DEFINE z == Append(ms, m)
<1>1. Len(ms) \in Nat /\ DOMAIN ms = 1 .. Len(ms) BY LenProperties
<1>2. /\ z \in Seq(Mutation) /\ Len(z) = Len(ms) + 1
      /\ \A i \in 1 .. Len(ms) : z[i] = ms[i]
      /\ z[Len(ms) + 1] = m
  BY AppendProperties
<1>3. DOMAIN z = 1 .. Len(ms) + 1 BY <1>2, LenProperties
<1> HIDE DEF z
<1>4. UpdatesOf(z) = IF m.op = "update" THEN UpdatesOf(ms) \cup {Len(ms) + 1} ELSE UpdatesOf(ms)
  BY <1>1, <1>2, <1>3 DEF UpdatesOf
<1>5. IsFiniteSet(UpdatesOf(ms)) /\ Cardinality(UpdatesOf(ms)) \in Nat BY UpdatesTyped
<1>6. Cardinality(UpdatesOf(ms) \cup {Len(ms) + 1}) <= Cardinality(UpdatesOf(ms)) + 1
  <2> DEFINE U == UpdatesOf(ms)
             k == Len(ms) + 1
  <2> HIDE DEF U, k
  <2>1. IsFiniteSet(U) /\ Cardinality(U) \in Nat BY <1>5 DEF U
  <2>2. Cardinality(U \cup {k}) = IF k \in U THEN Cardinality(U) ELSE Cardinality(U) + 1
    BY <2>1, FS_AddElement
  <2>3. Cardinality(U \cup {k}) <= Cardinality(U) + 1 BY <2>1, <2>2
  <2> QED BY <2>3 DEF U, k
<1>7. Cardinality(UpdatesOf(z)) <= Cardinality(UpdatesOf(ms)) + 1 BY <1>4, <1>5, <1>6
<1> QED BY <1>2, <1>4, <1>7 DEF z

LEMMA UpdatesOfTail ==
  ASSUME NEW ms \in Seq(Mutation), ms # <<>>
  PROVE  /\ Head(ms) \in Mutation
         /\ Tail(ms) \in Seq(Mutation)
         /\ Cardinality(UpdatesOf(Tail(ms))) <= Cardinality(UpdatesOf(ms))
         /\ Head(ms).op = "update" =>
              Cardinality(UpdatesOf(Tail(ms))) < Cardinality(UpdatesOf(ms))
<1> DEFINE z == Tail(ms)
           S == UpdatesOf(z)
           T == UpdatesOf(ms)
           next == [i \in S |-> i + 1]
<1>1. Len(ms) \in Nat /\ DOMAIN ms = 1 .. Len(ms) /\ Len(ms) # 0 BY LenProperties, EmptySeq
<1>2. /\ Head(ms) \in Mutation /\ z \in Seq(Mutation) /\ Len(z) = Len(ms) - 1
      /\ \A i \in 1 .. Len(z) : z[i] = ms[i + 1]
  BY HeadTailProperties
<1>3. DOMAIN z = 1 .. Len(ms) - 1 BY <1>2, LenProperties
<1>4. Head(ms) = ms[1] /\ 1 \in DOMAIN ms BY <1>1
<1>5. IsFiniteSet(T) /\ Cardinality(T) \in Nat BY UpdatesTyped
<1>5a. IsFiniteSet(S) /\ Cardinality(S) \in Nat BY <1>2, UpdatesTyped
<1> HIDE DEF z
<1>6. \A i \in S : i \in Nat /\ i + 1 \in T \ {1} BY <1>1, <1>2, <1>3 DEF UpdatesOf
<1>7. IsFiniteSet(T \ {1}) /\ Cardinality(T \ {1}) = IF 1 \in T THEN Cardinality(T) - 1 ELSE Cardinality(T)
  BY <1>5, FS_RemoveElement
<1>8. Head(ms).op = "update" => 1 \in T BY <1>4 DEF UpdatesOf
<1> HIDE DEF S, T
<1>9. next \in [S -> T \ {1}] BY <1>6
<1>10. \A i, j \in S : next[i] = next[j] => i = j BY <1>6
<1>11. next \in Injection(S, T \ {1})
  <2> HIDE DEF next
  <2> QED BY <1>9, <1>10, Zenon DEF Injection, IsInjective
<1> HIDE DEF next
<1>12. Cardinality(S) <= Cardinality(T \ {1}) BY <1>7, <1>11, FS_Injection
<1> QED BY <1>2, <1>5, <1>5a, <1>7, <1>8, <1>12 DEF z, S, T

LEMMA HaveTasksAppends ==
  ASSUME NEW ms \in Seq(Mutation), NEW m \in Mutation, NEW r, NEW s, HaveTasks(ms, r),
         \A i \in Answers(ms) : TaskOf(ms[i]) \in s,
         m.op = "write" => /\ TaskOf(m) \in s
                           /\ \A i \in Answers(ms) : ms[i].cap # m.cap
  PROVE  HaveTasks(Append(ms, m), s)
<1> DEFINE z == Append(ms, m)
<1>1. Len(ms) \in Nat /\ DOMAIN ms = 1 .. Len(ms) BY LenProperties
<1>2. /\ z \in Seq(Mutation) /\ Len(z) = Len(ms) + 1
      /\ \A i \in 1 .. Len(ms) : z[i] = ms[i]
      /\ z[Len(ms) + 1] = m
  BY AppendProperties
<1>3. DOMAIN z = 1 .. Len(ms) + 1 BY <1>2, LenProperties
<1> HIDE DEF z
<1>4. \A i \in Answers(z) : \/ i \in Answers(ms) /\ z[i] = ms[i]
                            \/ i = Len(ms) + 1 /\ z[i] = m /\ m.op = "write"
  BY <1>1, <1>2, <1>3 DEF Answers
<1>5. \A i \in Answers(z) : TaskOf(z[i]) \in s BY <1>4
<1>6. \A i, j \in Answers(z) : z[i].cap = z[j].cap => i = j BY <1>4 DEF HaveTasks
<1> QED BY <1>5, <1>6 DEF HaveTasks, z

\* The answer at the head is written: the tasks of the others go on waiting.
LEMMA HaveTasksTail ==
  ASSUME NEW ms \in Seq(Mutation), ms # <<>>, NEW r, HaveTasks(ms, r)
  PROVE  /\ Head(ms).op = "write" =>
              /\ TaskOf(Head(ms)) \in r
              /\ HaveTasks(Tail(ms), r \ {TaskOf(Head(ms))})
         /\ HaveTasks(Tail(ms), r)
<1> DEFINE z == Tail(ms)
<1>1. Len(ms) \in Nat /\ DOMAIN ms = 1 .. Len(ms) /\ Len(ms) # 0 BY LenProperties, EmptySeq
<1>2. /\ z \in Seq(Mutation) /\ Len(z) = Len(ms) - 1
      /\ \A i \in 1 .. Len(z) : z[i] = ms[i + 1]
  BY HeadTailProperties
<1>3. DOMAIN z = 1 .. Len(ms) - 1 BY <1>2, LenProperties
<1>4. Head(ms) = ms[1] /\ 1 \in DOMAIN ms BY <1>1
<1> HIDE DEF z
<1>5. \A i \in Answers(z) : i \in Nat /\ i + 1 # 1 /\ i + 1 \in Answers(ms) /\ z[i] = ms[i + 1]
  BY <1>1, <1>2, <1>3 DEF Answers
<1>6. \A i \in Answers(z) : TaskOf(z[i]) \in r BY <1>5 DEF HaveTasks
<1>7. \A i, j \in Answers(z) : z[i].cap = z[j].cap => i = j
  <2>1. TAKE i, j \in Answers(z)
  <2>2. HAVE z[i].cap = z[j].cap
  <2>3. i + 1 = j + 1 BY <1>5, <2>2 DEF HaveTasks
  <2> QED BY <1>5, <2>3
<1>8. ASSUME Head(ms).op = "write"
      PROVE  /\ TaskOf(Head(ms)) \in r
             /\ \A i \in Answers(z) : TaskOf(z[i]) # TaskOf(Head(ms))
  <2>1. 1 \in Answers(ms) BY <1>4, <1>8 DEF Answers
  <2>2. TaskOf(Head(ms)) \in r BY <1>4, <2>1 DEF HaveTasks
  <2>3. \A i \in Answers(z) : z[i].cap # ms[1].cap BY <1>5, <2>1 DEF HaveTasks
  <2>4. \A i \in Answers(z) : TaskOf(z[i]) # TaskOf(Head(ms)) BY <1>4, <2>3 DEF TaskOf
  <2> QED BY <2>2, <2>4
<1> QED BY <1>6, <1>7, <1>8 DEF HaveTasks, z

-----------------------------------------------------------------------------
(* The steps of the pool.                                                  *)

LEMMA UpdatesAre == Updates = UpdatesOf(mutations)
BY DEF Updates, UpdatesOf

LEMMA UpdatesAreNext == Updates' = UpdatesOf(mutations')
BY DEF Updates, UpdatesOf

LEMMA RunningTyped ==
  ASSUME NEW r \in SUBSET Running, IsFiniteSet(r), NEW t \in Running, NEW u
  PROVE  /\ IsFiniteSet(r \cup {t}) /\ IsFiniteSet(r \ {u})
         /\ Cardinality(r \ {u}) <= Cardinality(r) /\ Cardinality(r) \in Nat
         /\ Cardinality(r \cup {t}) <= Cardinality(r) + 1
         /\ u \in r => Cardinality((r \ {u}) \cup {t}) <= Cardinality(r)
         /\ IsFiniteSet((r \ {u}) \cup {t})
<1>1. Cardinality(r) \in Nat BY FS_CardinalityType
<1>2. /\ IsFiniteSet(r \cup {t})
      /\ Cardinality(r \cup {t}) = IF t \in r THEN Cardinality(r) ELSE Cardinality(r) + 1
  BY FS_AddElement
<1> DEFINE s == r \ {u}
<1>3. /\ IsFiniteSet(s)
      /\ Cardinality(s) = IF u \in r THEN Cardinality(r) - 1 ELSE Cardinality(r)
  BY FS_RemoveElement
<1> HIDE DEF s
<1>4. /\ IsFiniteSet(s \cup {t})
      /\ Cardinality(s \cup {t}) = IF t \in s THEN Cardinality(s) ELSE Cardinality(s) + 1
  BY <1>3, FS_AddElement
<1>5. Cardinality(s) \in Nat BY <1>3, FS_CardinalityType
<1> QED BY <1>1, <1>2, <1>3, <1>4, <1>5 DEF s

\* A task that ends leaves the rest of the work, and takes its caption with it
\* unless it is scheduled again.
LEMMA Finishes ==
  ASSUME NEW w \in Seq(Task), NEW r, NEW t, t.cap \in pending, pending \in SUBSET Caption,
         Work(w, r, pending \ {t.cap}), generation' \in 0 .. MaxUpdates, Finish(t, w)
  PROVE  /\ queue' \in Seq(Task) /\ pending' \in SUBSET Caption
         /\ Work(queue', r, pending')
         /\ pending \ {t.cap} \subseteq pending'
         /\ Reschedules(t) => t.cap \in pending'
<1>1. CASE ~Reschedules(t) BY <1>1 DEF Finish
<1>2. CASE Reschedules(t)
  <2> DEFINE s == Tasks({t.cap}, generation')
             rest == pending \ {t.cap}
  <2>1. {t.cap} \in SUBSET Caption OBVIOUS
  <2>2. /\ s \in Seq(Task)
        /\ \A i, j \in DOMAIN s : s[i].cap = s[j].cap => i = j
        /\ Queued(s) = {t.cap}
    BY <2>1, TasksOf
  <2>3. queue' = w \o s /\ pending' = pending BY <1>2 DEF Finish
  <2> HIDE DEF s
  <2>4. Queued(s) \cap rest = {} BY <2>2
  <2>5. w \o s \in Seq(Task) /\ Work(w \o s, r, rest \cup Queued(s)) BY <2>2, <2>4, WorkAppends
  <2>6. rest \cup Queued(s) = pending BY <2>2
  <2> QED BY <2>3, <2>5, <2>6
<1> QED BY <1>1, <1>2

\* What the steps of the tasks have in common.
LEMMA TaskStep ==
  ASSUME IInv, Up, ~Idle, UNCHANGED <<lifecycle, session, config, captions>>,
         NEW t, pending \ {t.cap} \subseteq pending',
         t.cap \in pending' \/ t.cap \notin owed' \cap Candidates' \/ lifecycle # "ready",
         owed' \subseteq owed, Candidates' \subseteq Candidates
  PROVE  EndIsOrdered' /\ DownIsEmpty' /\ NoCaptionForgotten'
<1> USE DEF session, config
<1>1. EndIsOrdered' BY DEF IInv, EndIsOrdered
<1>2. DownIsEmpty' BY DEF Up, DownIsEmpty
<1>3. NoCaptionForgotten' BY DEF IInv, NoCaptionForgotten
<1> QED BY <1>1, <1>2, <1>3

LEMMA TaskIsWork ==
  ASSUME IInv, NEW t \in running
  PROVE  /\ t \in Running /\ t.cap \in Caption /\ t.gen \in 0 .. MaxUpdates
         /\ running \ {t} \in SUBSET Running /\ IsFiniteSet(running \ {t})
         /\ Cardinality(running \ {t}) <= Concurrency
         /\ t.cap \in pending /\ ~Idle
         /\ Work(queue, running \ {t}, pending \ {t.cap})
<1>1. t \in Running /\ running \in SUBSET Running BY DEF IInv, TypeOK
<1>2. t.cap \in Caption /\ t.gen \in 0 .. MaxUpdates BY <1>1 DEF Running
<1>3. t.cap \in pending /\ Work(queue, running \ {t}, pending \ {t.cap}) BY WorkDrops DEF IInv
<1>4. IsFiniteSet(running) BY DEF IInv
<1>5. IsFiniteSet(running \ {t}) /\ Cardinality(running \ {t}) <= Cardinality(running)
      /\ Cardinality(running) \in Nat
  BY <1>1, <1>4, RunningTyped
<1>6. Cardinality(running \ {t}) \in Nat BY <1>5, FS_CardinalityType
<1>7. Cardinality(running) <= Concurrency /\ Concurrency \in Nat BY PoolAssumption DEF IInv, TypeOK
<1> QED BY <1>1, <1>2, <1>3, <1>5, <1>6, <1>7 DEF Idle

LEMMA CandidatesSame ==
  ASSUME UNCHANGED <<config, texts>> PROVE Candidates' = Candidates
BY DEF config, texts, Candidates

\* A task that is not wanted is scheduled again if its caption is to be translated.
LEMMA NotWantedAgain ==
  ASSUME NEW t, ~Wanted(t), UNCHANGED <<lifecycle, config, texts>>
  PROVE  Reschedules(t) \/ t.cap \notin Candidates' \/ lifecycle # "ready"
BY CandidatesSame DEF Wanted, Reschedules, WritesAllowed, config

LEMMA StartTaskStep == ASSUME IInv, StartTask PROVE IInv'
<1> DEFINE t == Head(queue)
           u == [cap |-> t.cap, gen |-> t.gen, at |-> "asking"]
<1>1. queue \in Seq(Task) /\ queue # <<>> /\ Work(queue, running, pending) /\ pending \in SUBSET Caption
  BY DEF IInv, TypeOK, StartTask
<1>2. /\ t \in Task /\ t.cap \in pending /\ Tail(queue) \in Seq(Task)
      /\ Work(Tail(queue), running, pending \ {t.cap})
  BY <1>1, WorkTail
<1>3. t.cap \in Caption /\ t.gen \in 0 .. MaxUpdates BY <1>2 DEF Task
<1>4. u \in Running BY <1>3 DEF Running
<1>5. running \in SUBSET Running /\ IsFiniteSet(running) /\ Cardinality(running) < Concurrency
      /\ Concurrency \in Nat
  BY PoolAssumption DEF IInv, TypeOK, StartTask, FreeSlot
<1>6. /\ UNCHANGED <<lifecycle, session, config, texts, mutations, owed, failures>> /\ ~Idle /\ Up
  BY DEF StartTask, FreeSlot, Idle
<1>7. generation' \in 0 .. MaxUpdates BY <1>6 DEF IInv, TypeOK, config
<1> HIDE DEF t, u
<1>8. Candidates' = Candidates BY <1>6, CandidatesSame
<1>9. CASE Wanted(t)
  <2>1. running' = running \cup {u} /\ queue' = Tail(queue) /\ pending' = pending
    BY <1>9 DEF StartTask, t, u
  <2>2. u.cap = t.cap BY DEF u
  <2>3. Work(Tail(queue), running \cup {u}, (pending \ {t.cap}) \cup {t.cap})
    BY <1>2, <2>2, WorkAdds
  <2>4. (pending \ {t.cap}) \cup {t.cap} = pending BY <1>2
  <2>5. Work(queue', running', pending') BY <2>1, <2>3, <2>4
  <2>6. IsFiniteSet(running') /\ running' \in SUBSET Running BY <1>4, <1>5, <2>1, RunningTyped
  <2>7. Cardinality(running') <= Concurrency
    <3>1. Cardinality(running) \in Nat /\ Cardinality(running') <= Cardinality(running) + 1
      BY <1>4, <1>5, <2>1, RunningTyped
    <3>2. Cardinality(running') \in Nat BY <2>6, FS_CardinalityType
    <3> QED BY <1>5, <3>1, <3>2
  <2>8. HaveTasks(mutations', running') BY <1>6, <2>1 DEF IInv, HaveTasks
  <2>9. EndIsOrdered' /\ DownIsEmpty' /\ NoCaptionForgotten'
    BY <1>2, <1>6, <1>8, <2>1, TaskStep DEF texts
  <2>10. TypeOK' BY <1>2, <1>6, <2>1, <2>6, <2>7 DEF IInv, TypeOK, session, config, texts
  <2>11. generation' + Cardinality(Updates') <= MaxUpdates BY <1>6 DEF IInv, Updates, config
  <2> QED BY <2>5, <2>6, <2>8, <2>9, <2>10, <2>11 DEF IInv
<1>10. CASE ~Wanted(t)
  <2>1. Finish(t, Tail(queue)) /\ running' = running BY <1>10 DEF StartTask, t
  <2>2. /\ queue' \in Seq(Task) /\ pending' \in SUBSET Caption
        /\ Work(queue', running, pending')
        /\ pending \ {t.cap} \subseteq pending'
        /\ Reschedules(t) => t.cap \in pending'
    BY <1>1, <1>2, <1>7, <2>1, Finishes
  <2>3. Reschedules(t) \/ t.cap \notin Candidates' \/ lifecycle # "ready"
    BY <1>6, <1>10, NotWantedAgain
  <2>4. EndIsOrdered' /\ DownIsEmpty' /\ NoCaptionForgotten'
    BY <1>6, <1>8, <2>2, <2>3, TaskStep DEF texts
  <2>5. TypeOK' BY <1>6, <2>1, <2>2 DEF IInv, TypeOK, session, config, texts
  <2>6. generation' + Cardinality(Updates') <= MaxUpdates BY <1>6 DEF IInv, Updates, config
  <2> QED BY <1>6, <2>1, <2>2, <2>4, <2>5, <2>6 DEF IInv, HaveTasks
<1> QED BY <1>9, <1>10

LEMMA AnswerStep == ASSUME IInv, NEW t \in running, Answer(t) PROVE IInv'
<1> DEFINE m == [op |-> "write", cap |-> t.cap, gen |-> t.gen]
           u == [t EXCEPT !.at = "writing"]
<1>1. /\ UNCHANGED <<lifecycle, session, config, texts, owed, failures>>
      /\ Up /\ t.at = "asking" BY DEF Answer
<1>2. /\ t \in Running /\ t.cap \in Caption /\ t.gen \in 0 .. MaxUpdates
      /\ running \ {t} \in SUBSET Running /\ IsFiniteSet(running \ {t})
      /\ Cardinality(running \ {t}) <= Concurrency
      /\ t.cap \in pending /\ ~Idle
      /\ Work(queue, running \ {t}, pending \ {t.cap})
  BY TaskIsWork
<1>3. queue \in Seq(Task) /\ pending \in SUBSET Caption /\ mutations \in Seq(Mutation)
      /\ running \in SUBSET Running /\ IsFiniteSet(running)
      /\ Cardinality(running) <= Concurrency /\ Concurrency \in Nat
      /\ Work(queue, running, pending) /\ HaveTasks(mutations, running)
  BY PoolAssumption DEF IInv, TypeOK
<1>4. generation' \in 0 .. MaxUpdates BY <1>1 DEF IInv, TypeOK, config
<1>5. Candidates' = Candidates BY <1>1, CandidatesSame
<1>6. \A i \in Answers(mutations) : TaskOf(mutations[i]) \in running \ {t}
  BY <1>1, <1>3 DEF HaveTasks, TaskOf
<1>7. CASE Wanted(t)
  <2>1. /\ mutations' = Append(mutations, m) /\ running' = (running \ {t}) \cup {u}
        /\ UNCHANGED <<pending, queue>>
    BY <1>7 DEF Answer
  <2>2. u = TaskOf(m) /\ u.cap = t.cap /\ u \in Running /\ m \in Mutation /\ m.op = "write"
    BY <1>2 DEF Running, TaskOf, Mutation
  <2>3. m.cap = t.cap OBVIOUS
  <2> HIDE DEF u, m
  <2>4. Work(queue', running', pending')
    <3>1. (pending \ {t.cap}) \cup {u.cap} = pending BY <1>2, <2>2
    <3> QED BY <1>2, <2>1, <2>2, <3>1, WorkAdds
  <2>5. IsFiniteSet(running') /\ running' \in SUBSET Running BY <1>3, <2>1, <2>2, RunningTyped
  <2>6. Cardinality(running') <= Concurrency
    <3>1. Cardinality(running) \in Nat /\ Cardinality(running') <= Cardinality(running)
      BY <1>3, <2>1, <2>2, RunningTyped
    <3>2. Cardinality(running') \in Nat BY <2>5, FS_CardinalityType
    <3> QED BY <1>3, <3>1, <3>2
  <2>7. \A i \in Answers(mutations) : mutations[i].cap # m.cap
    <3>1. TAKE i \in Answers(mutations)
    <3>2. TaskOf(mutations[i]) \in running /\ TaskOf(mutations[i]) # t BY <1>6
    <3>3. TaskOf(mutations[i]).cap # t.cap BY <1>3, <3>2 DEF Work
    <3> QED BY <2>3, <3>3 DEF TaskOf
  <2>8. HaveTasks(mutations', running')
    <3>1. \A i \in Answers(mutations) : TaskOf(mutations[i]) \in running' BY <1>6, <2>1
    <3>2. TaskOf(m) \in running' BY <2>1, <2>2
    <3> QED BY <1>3, <2>1, <2>2, <2>7, <3>1, <3>2, HaveTasksAppends
  <2>9. mutations' \in Seq(Mutation) /\ UpdatesOf(mutations') = UpdatesOf(mutations)
    BY <1>3, <2>1, <2>2, UpdatesOfAppend
  <2>10. generation' + Cardinality(Updates') <= MaxUpdates
    BY <1>1, <2>9, UpdatesAre, UpdatesAreNext DEF IInv, config
  <2>11. EndIsOrdered' /\ DownIsEmpty' /\ NoCaptionForgotten'
    BY <1>1, <1>2, <1>5, <2>1, TaskStep DEF texts
  <2>12. TypeOK' BY <1>1, <2>1, <2>5, <2>6, <2>9 DEF IInv, TypeOK, session, config, texts
  <2> QED BY <2>4, <2>5, <2>8, <2>10, <2>11, <2>12 DEF IInv
<1>8. CASE ~Wanted(t)
  <2>1. running' = running \ {t} /\ Finish(t, queue) /\ mutations' = mutations BY <1>8 DEF Answer
  <2>2. /\ queue' \in Seq(Task) /\ pending' \in SUBSET Caption
        /\ Work(queue', running', pending')
        /\ pending \ {t.cap} \subseteq pending'
        /\ Reschedules(t) => t.cap \in pending'
    BY <1>2, <1>3, <1>4, <2>1, Finishes
  <2>3. Reschedules(t) \/ t.cap \notin Candidates' \/ lifecycle # "ready"
    BY <1>1, <1>8, NotWantedAgain
  <2>4. EndIsOrdered' /\ DownIsEmpty' /\ NoCaptionForgotten'
    BY <1>1, <1>2, <1>5, <2>2, <2>3, TaskStep DEF texts
  <2>5. TypeOK' BY <1>1, <1>2, <2>1, <2>2 DEF IInv, TypeOK, session, config, texts
  <2>6. generation' + Cardinality(Updates') <= MaxUpdates BY <1>1, <2>1 DEF IInv, Updates, config
  <2>7. HaveTasks(mutations', running') BY <1>3, <1>6, <2>1 DEF HaveTasks
  <2> QED BY <1>2, <2>1, <2>2, <2>4, <2>5, <2>6, <2>7 DEF IInv
<1> QED BY <1>7, <1>8

\* A failed attempt is owed no more, unless an update has overtaken it.
LEMMA FailedAgain ==
  ASSUME NEW t, UNCHANGED <<lifecycle, config>>,
         owed' = IF t.gen = generation THEN owed \ {t.cap} ELSE owed
  PROVE  Reschedules(t) \/ t.cap \notin owed' \cap Candidates' \/ lifecycle # "ready"
BY DEF Reschedules, WritesAllowed, config

LEMMA AnswerFailsStep == ASSUME IInv, NEW t \in running, AnswerFails(t) PROVE IInv'
<1>1. /\ UNCHANGED <<lifecycle, session, config, texts, mutations, failures>>
      /\ Up /\ t.at = "asking"
      /\ running' = running \ {t} /\ Finish(t, queue)
      /\ owed' = IF t.gen = generation THEN owed \ {t.cap} ELSE owed
  BY DEF AnswerFails
<1>2. /\ t \in Running /\ t.cap \in Caption /\ t.gen \in 0 .. MaxUpdates
      /\ running \ {t} \in SUBSET Running /\ IsFiniteSet(running \ {t})
      /\ Cardinality(running \ {t}) <= Concurrency
      /\ t.cap \in pending /\ ~Idle
      /\ Work(queue, running \ {t}, pending \ {t.cap})
  BY TaskIsWork
<1>3. queue \in Seq(Task) /\ pending \in SUBSET Caption /\ HaveTasks(mutations, running)
  BY DEF IInv, TypeOK
<1>4. generation' \in 0 .. MaxUpdates BY <1>1 DEF IInv, TypeOK, config
<1>5. Candidates' = Candidates BY <1>1, CandidatesSame
<1>6. /\ queue' \in Seq(Task) /\ pending' \in SUBSET Caption
      /\ Work(queue', running', pending')
      /\ pending \ {t.cap} \subseteq pending'
      /\ Reschedules(t) => t.cap \in pending'
  BY <1>1, <1>2, <1>3, <1>4, Finishes
<1>7. Reschedules(t) \/ t.cap \notin owed' \cap Candidates' \/ lifecycle # "ready"
  BY <1>1, FailedAgain
<1>8. owed' \subseteq owed BY <1>1
<1>9. EndIsOrdered' /\ DownIsEmpty' /\ NoCaptionForgotten'
  BY <1>1, <1>2, <1>5, <1>6, <1>7, <1>8, TaskStep DEF texts
<1>10. TypeOK' BY <1>1, <1>2, <1>6, <1>8 DEF IInv, TypeOK, session, config, texts
<1>11. generation' + Cardinality(Updates') <= MaxUpdates BY <1>1 DEF IInv, Updates, config
<1>12. HaveTasks(mutations', running')
  BY <1>1, <1>3 DEF HaveTasks, TaskOf
<1> QED BY <1>1, <1>2, <1>6, <1>9, <1>10, <1>11, <1>12 DEF IInv

\* The end of a task whose answer is written or cannot be.
LEMMA WriterEnds ==
  ASSUME IInv, Next1("write"), UNCHANGED <<lifecycle, session, config, captions>>,
         running' = running \ {Writer}, Finish(Writer, queue)
  PROVE  /\ Writer.cap \in Caption /\ Writer.cap \in pending /\ ~Idle /\ Up
         /\ queue' \in Seq(Task) /\ pending' \in SUBSET Caption
         /\ Work(queue', running', pending')
         /\ pending \ {Writer.cap} \subseteq pending'
         /\ Reschedules(Writer) => Writer.cap \in pending'
         /\ running' \in SUBSET Running /\ IsFiniteSet(running')
         /\ Cardinality(running') <= Concurrency
         /\ mutations' \in Seq(Mutation) /\ HaveTasks(mutations', running')
         /\ generation' + Cardinality(Updates') <= MaxUpdates
<1>1. /\ mutations # <<>> /\ Head(mutations).op = "write" /\ mutations' = Tail(mutations) /\ Up
  BY DEF Next1
<1>2. mutations \in Seq(Mutation) /\ HaveTasks(mutations, running) /\ queue \in Seq(Task)
      /\ pending \in SUBSET Caption
  BY DEF IInv, TypeOK
<1>3. Writer = TaskOf(Head(mutations)) BY DEF Writer, TaskOf
<1>4. Writer \in running /\ HaveTasks(mutations', running')
  BY <1>1, <1>2, <1>3, HaveTasksTail
<1>5. /\ Writer.cap \in Caption
      /\ running \ {Writer} \in SUBSET Running /\ IsFiniteSet(running \ {Writer})
      /\ Cardinality(running \ {Writer}) <= Concurrency
      /\ Writer.cap \in pending /\ ~Idle
      /\ Work(queue, running \ {Writer}, pending \ {Writer.cap})
  BY <1>4, TaskIsWork
<1>6. generation' \in 0 .. MaxUpdates BY DEF IInv, TypeOK, config
<1>7. /\ queue' \in Seq(Task) /\ pending' \in SUBSET Caption
      /\ Work(queue', running', pending')
      /\ pending \ {Writer.cap} \subseteq pending'
      /\ Reschedules(Writer) => Writer.cap \in pending'
  BY <1>2, <1>5, <1>6, Finishes
<1>8. mutations' \in Seq(Mutation) /\ Cardinality(UpdatesOf(mutations')) <= Cardinality(UpdatesOf(mutations))
  BY <1>1, <1>2, UpdatesOfTail
<1>9. generation' + Cardinality(Updates') <= MaxUpdates
  <2>1. Cardinality(UpdatesOf(mutations')) \in Nat /\ Cardinality(UpdatesOf(mutations)) \in Nat
    BY <1>2, <1>8, UpdatesTyped
  <2>2. generation \in Nat /\ MaxUpdates \in Nat /\ generation' = generation
        /\ generation + Cardinality(UpdatesOf(mutations)) <= MaxUpdates
    BY PoolAssumption, UpdatesAre DEF IInv, TypeOK, config
  <2> QED BY <1>8, <2>1, <2>2, UpdatesAreNext
<1> QED BY <1>1, <1>4, <1>5, <1>7, <1>8, <1>9

LEMMA WriteAnswerStep == ASSUME IInv, WriteAnswer PROVE IInv'
<1> DEFINE c == Writer.cap
<1>1. /\ UNCHANGED <<lifecycle, session, config, captions, owed, failures>>
      /\ translation' = Written(c)
      /\ Next1("write") /\ running' = running \ {Writer} /\ Finish(Writer, queue)
  BY DEF WriteAnswer
<1>2. /\ c \in Caption /\ c \in pending /\ ~Idle /\ Up
      /\ queue' \in Seq(Task) /\ pending' \in SUBSET Caption
      /\ Work(queue', running', pending')
      /\ pending \ {c} \subseteq pending'
      /\ running' \in SUBSET Running /\ IsFiniteSet(running')
      /\ Cardinality(running') <= Concurrency
      /\ mutations' \in Seq(Mutation) /\ HaveTasks(mutations', running')
      /\ generation' + Cardinality(Updates') <= MaxUpdates
  BY <1>1, WriterEnds
<1> HIDE DEF c
<1>3. translation' \in [Caption -> {"none", "manual", "model"}] /\ translation'[c] # "none"
      /\ \A d \in Caption : translation'[d] = "none" => translation[d] = "none"
  BY <1>1, <1>2 DEF IInv, TypeOK, Written
<1>4. captions \in 0 .. MaxCaptions /\ captions' = captions BY <1>1 DEF IInv, TypeOK
<1>5. 1 .. captions \subseteq Caption BY <1>4, PoolAssumption DEF Caption
<1>6. Candidates' \subseteq Candidates /\ c \notin Candidates'
  BY <1>1, <1>3, <1>4, <1>5 DEF Candidates, config
<1>7. EndIsOrdered' /\ DownIsEmpty' /\ NoCaptionForgotten'
  <2> DEFINE t == Writer
  <2>1. t.cap = c BY DEF c
  <2> HIDE DEF t
  <2> QED BY <1>1, <1>2, <1>6, <2>1, TaskStep
<1>8. TypeOK' BY <1>1, <1>2, <1>3 DEF IInv, TypeOK, session, config
<1> QED BY <1>2, <1>7, <1>8 DEF IInv

LEMMA WriteAnswerFailsStep == ASSUME IInv, WriteAnswerFails PROVE IInv'
<1> DEFINE t == Writer
<1>1. /\ UNCHANGED <<lifecycle, session, config, texts>>
      /\ failures < MaxFailures /\ failures' = failures + 1
      /\ Next1("write") /\ running' = running \ {Writer} /\ Finish(Writer, queue)
      /\ owed' = IF t.gen = generation THEN owed \ {t.cap} ELSE owed
  BY DEF WriteAnswerFails, Inject
<1>2. /\ t.cap \in Caption /\ t.cap \in pending /\ ~Idle /\ Up
      /\ queue' \in Seq(Task) /\ pending' \in SUBSET Caption
      /\ Work(queue', running', pending')
      /\ pending \ {t.cap} \subseteq pending'
      /\ Reschedules(t) => t.cap \in pending'
      /\ running' \in SUBSET Running /\ IsFiniteSet(running')
      /\ Cardinality(running') <= Concurrency
      /\ mutations' \in Seq(Mutation) /\ HaveTasks(mutations', running')
      /\ generation' + Cardinality(Updates') <= MaxUpdates
  BY <1>1, WriterEnds DEF texts
<1> HIDE DEF t
<1>3. Candidates' = Candidates BY <1>1, CandidatesSame
<1>4. Reschedules(t) \/ t.cap \notin owed' \cap Candidates' \/ lifecycle # "ready"
  BY <1>1, FailedAgain
<1>5. owed' \subseteq owed BY <1>1
<1>6. EndIsOrdered' /\ DownIsEmpty' /\ NoCaptionForgotten'
  BY <1>1, <1>2, <1>3, <1>4, <1>5, TaskStep DEF texts
<1>7. TypeOK'
  <2>1. failures' \in 0 .. MaxFailures BY <1>1, PoolAssumption DEF IInv, TypeOK
  <2> QED BY <1>1, <1>2, <1>5, <2>1 DEF IInv, TypeOK, session, config, texts
<1> QED BY <1>2, <1>6, <1>7 DEF IInv

-----------------------------------------------------------------------------
(* The other steps.                                                        *)

LEMMA Schedules ==
  ASSUME IInv, NEW cs, Candidates' \in SUBSET Caption, generation' \in 0 .. MaxUpdates, Schedule(cs)
  PROVE  /\ queue' \in Seq(Task) /\ pending' \in SUBSET Caption
         /\ Work(queue', running, pending')
         /\ pending \cup (cs \cap Candidates') \subseteq pending'
<1> DEFINE new == (cs \cap Candidates') \ pending
           s == Tasks(new, generation')
<1>1. queue \in Seq(Task) /\ pending \in SUBSET Caption /\ Work(queue, running, pending)
  BY DEF IInv, TypeOK
<1>2. pending' = pending \cup new /\ queue' = queue \o s BY DEF Schedule
<1>3. new \in SUBSET Caption /\ new \cap pending = {} OBVIOUS
<1>4. cs \cap Candidates' \subseteq pending \cup new OBVIOUS
<1> HIDE DEF new
<1>5. /\ s \in Seq(Task)
      /\ \A i, j \in DOMAIN s : s[i].cap = s[j].cap => i = j
      /\ Queued(s) = new
  BY <1>3, TasksOf
<1> HIDE DEF s
<1>6. queue \o s \in Seq(Task) /\ Work(queue \o s, running, pending \cup Queued(s))
  BY <1>1, <1>3, <1>5, WorkAppends
<1> QED BY <1>1, <1>2, <1>3, <1>4, <1>5, <1>6

LEMMA CandidatesTyped ==
  ASSUME captions' \in 0 .. MaxCaptions PROVE Candidates' \in SUBSET Caption
<1>1. 1 .. captions' \subseteq Caption BY PoolAssumption DEF Caption
<1> QED BY <1>1 DEF Candidates

LEMMA InjectTyped ==
  ASSUME IInv, Inject \/ UNCHANGED failures PROVE failures' \in 0 .. MaxFailures
BY PoolAssumption DEF Inject, IInv, TypeOK

LEMMA RequestUpdateStep == ASSUME IInv, NEW new \in Change, RequestUpdate(new) PROVE IInv'
<1> DEFINE m == [op |-> "update", to |-> new]
<1>1. /\ UNCHANGED <<lifecycle, session, config, texts, pool, owed, failures>>
      /\ lifecycle = "ready" /\ mutations' = Append(mutations, m)
      /\ generation + Cardinality(Updates) < MaxUpdates
  BY DEF RequestUpdate
<1>2. m \in Mutation /\ m.op = "update" BY DEF Mutation
<1> HIDE DEF m
<1>3. mutations \in Seq(Mutation) /\ HaveTasks(mutations, running) BY DEF IInv, TypeOK
<1>4. /\ mutations' \in Seq(Mutation)
      /\ Cardinality(UpdatesOf(mutations')) <= Cardinality(UpdatesOf(mutations)) + 1
  BY <1>1, <1>2, <1>3, UpdatesOfAppend
<1>5. HaveTasks(mutations', running')
  <2>1. \A i \in Answers(mutations) : TaskOf(mutations[i]) \in running BY <1>3 DEF HaveTasks
  <2> QED BY <1>1, <1>2, <1>3, <2>1, HaveTasksAppends DEF pool
<1>6. generation' + Cardinality(Updates') <= MaxUpdates
  <2>1. Cardinality(UpdatesOf(mutations')) \in Nat /\ Cardinality(UpdatesOf(mutations)) \in Nat
    BY <1>3, <1>4, UpdatesTyped
  <2>2. generation \in Nat /\ MaxUpdates \in Nat /\ generation' = generation
        /\ generation + Cardinality(UpdatesOf(mutations)) < MaxUpdates
    BY <1>1, PoolAssumption, UpdatesAre DEF IInv, TypeOK, config
  <2> QED BY <1>4, <2>1, <2>2, UpdatesAreNext
<1>7. TypeOK' BY <1>1, <1>4 DEF IInv, TypeOK, session, config, texts, pool
<1>8. EndIsOrdered' /\ DownIsEmpty' /\ NoCaptionForgotten'
  BY <1>1, CandidatesSame
  DEF IInv, EndIsOrdered, DownIsEmpty, NoCaptionForgotten, Idle, session, config, texts, pool
<1> QED BY <1>1, <1>5, <1>6, <1>7, <1>8 DEF IInv, pool

\* The head of the mutations that is an update, and what remains.
LEMMA UpdateTaken ==
  ASSUME IInv, Next1("update")
  PROVE  /\ Head(mutations) \in Mutation /\ Head(mutations).to \in Change /\ Up
         /\ mutations' \in Seq(Mutation) /\ HaveTasks(mutations', running)
         /\ generation + 1 + Cardinality(Updates') <= MaxUpdates
         /\ generation + Cardinality(Updates') <= MaxUpdates
         /\ generation + 1 \in 0 .. MaxUpdates
<1>1. mutations # <<>> /\ Head(mutations).op = "update" /\ mutations' = Tail(mutations) /\ Up
  BY DEF Next1
<1>2. mutations \in Seq(Mutation) /\ HaveTasks(mutations, running) BY DEF IInv, TypeOK
<1>3. /\ Head(mutations) \in Mutation /\ mutations' \in Seq(Mutation)
      /\ Cardinality(UpdatesOf(mutations')) < Cardinality(UpdatesOf(mutations))
  BY <1>1, <1>2, UpdatesOfTail
<1>4. Head(mutations).to \in Change BY <1>1, <1>3 DEF Mutation
<1>5. HaveTasks(mutations', running) BY <1>1, <1>2, HaveTasksTail
<1>6. Cardinality(UpdatesOf(mutations')) \in Nat /\ Cardinality(UpdatesOf(mutations)) \in Nat
  BY <1>2, <1>3, UpdatesTyped
<1>7. generation \in Nat /\ MaxUpdates \in Nat
      /\ generation + Cardinality(UpdatesOf(mutations)) <= MaxUpdates
  BY PoolAssumption, UpdatesAre DEF IInv, TypeOK
<1> QED BY <1>1, <1>3, <1>4, <1>5, <1>6, <1>7, UpdatesAreNext

LEMMA UpdateStep == ASSUME IInv, Update PROVE IInv'
<1> DEFINE to == Head(mutations).to
<1>1. Next1("update") /\ UNCHANGED <<lifecycle, session, texts, running, failures>> BY DEF Update
<1>2. /\ to \in Change /\ Up
      /\ mutations' \in Seq(Mutation) /\ HaveTasks(mutations', running')
      /\ generation + 1 + Cardinality(Updates') <= MaxUpdates
      /\ generation + Cardinality(Updates') <= MaxUpdates
      /\ generation + 1 \in 0 .. MaxUpdates
  BY <1>1, UpdateTaken
<1>3. DownIsEmpty' BY <1>1, <1>2 DEF Up, DownIsEmpty
<1>4. CASE to = "enabled" /\ ~settings.model
  <2>1. UNCHANGED <<config, pending, queue, owed>> BY <1>4 DEF Update
  <2> HIDE DEF to
  <2>2. TypeOK' BY <1>1, <1>2, <2>1 DEF IInv, TypeOK, session, config, texts
  <2>3. EndIsOrdered' /\ NoCaptionForgotten'
    BY <1>1, <2>1, CandidatesSame
    DEF IInv, EndIsOrdered, NoCaptionForgotten, Idle, session, config, texts
  <2> QED BY <1>1, <1>2, <1>3, <2>1, <2>2, <2>3 DEF IInv, config
<1>5. CASE ~(to = "enabled" /\ ~settings.model)
  <2>1. /\ settings' = CASE to = "model" -> [settings EXCEPT !.model = TRUE]
                         [] to = "enabled" -> [settings EXCEPT !.enabled = TRUE]
                         [] to = "disabled" -> [settings EXCEPT !.enabled = FALSE]
        /\ generation' = generation + 1
        /\ IF settings'.enabled /\ phase = "open"
             THEN Schedule(1..captions)
             ELSE UNCHANGED <<pending, queue>>
        /\ owed' = IF phase = "open" THEN 1..captions ELSE owed \cap pending
    BY <1>5 DEF Update
  <2> HIDE DEF to
  <2>2. settings' \in [enabled : BOOLEAN, model : BOOLEAN]
    BY <1>2, <2>1 DEF IInv, TypeOK, Change
  <2>3. captions \in 0 .. MaxCaptions /\ captions' = captions BY <1>1 DEF IInv, TypeOK, texts
  <2>4. 1 .. captions \subseteq Caption BY <2>3, PoolAssumption DEF Caption
  <2>5. generation' \in 0 .. MaxUpdates BY <1>2, <2>1
  <2>6. Candidates' \in SUBSET Caption BY <2>3, CandidatesTyped
  <2>7. /\ queue' \in Seq(Task) /\ pending' \in SUBSET Caption
        /\ Work(queue', running', pending') /\ pending \subseteq pending'
        /\ settings'.enabled /\ phase = "open" => (1..captions) \cap Candidates' \subseteq pending'
    <3>1. CASE settings'.enabled /\ phase = "open" BY <1>1, <2>1, <2>5, <2>6, <3>1, Schedules
    <3>2. CASE ~(settings'.enabled /\ phase = "open") BY <1>1, <2>1, <3>2 DEF IInv, TypeOK
    <3> QED BY <3>1, <3>2
  <2>8. owed' \in SUBSET Caption BY <2>1, <2>4 DEF IInv, TypeOK
  <2>9. TypeOK' BY <1>1, <1>2, <2>2, <2>5, <2>7, <2>8 DEF IInv, TypeOK, session, texts
  <2>10. EndIsOrdered'
    <3>1. phase # "open" => UNCHANGED <<pending, queue>> BY <2>1
    <3> QED BY <1>1, <3>1 DEF IInv, EndIsOrdered, Idle, session
  <2>11. NoCaptionForgotten'
    <3>1. CASE phase = "open" /\ settings'.enabled BY <2>1, <2>7, <3>1 DEF NoCaptionForgotten
    <3>2. CASE phase = "open" /\ ~settings'.enabled BY <3>2 DEF NoCaptionForgotten, Candidates
    <3>3. CASE phase # "open" BY <2>1, <2>7, <3>3 DEF NoCaptionForgotten
    <3> QED BY <3>1, <3>2, <3>3
  <2>12. generation' + Cardinality(Updates') <= MaxUpdates BY <1>2, <2>1
  <2> QED BY <1>1, <1>2, <1>3, <2>7, <2>9, <2>10, <2>11, <2>12 DEF IInv
<1> QED BY <1>4, <1>5

LEMMA UpdateFailsStep == ASSUME IInv, UpdateFails PROVE IInv'
<1>1. /\ Next1("update") /\ Inject
      /\ UNCHANGED <<lifecycle, session, config, texts, pool, owed>>
  BY DEF UpdateFails
<1>2. /\ Up /\ mutations' \in Seq(Mutation) /\ HaveTasks(mutations', running')
      /\ generation' + Cardinality(Updates') <= MaxUpdates
  BY <1>1, UpdateTaken DEF config, pool
<1>3. TypeOK' BY <1>1, <1>2, InjectTyped DEF IInv, TypeOK, session, config, texts, pool
<1>4. EndIsOrdered' /\ DownIsEmpty' /\ NoCaptionForgotten'
  BY <1>1, <1>2, CandidatesSame
  DEF IInv, EndIsOrdered, DownIsEmpty, NoCaptionForgotten, Up, Idle, session, config, texts, pool
<1> QED BY <1>1, <1>2, <1>3, <1>4 DEF IInv, pool

LEMMA ReceiveCaptionStep == ASSUME IInv, ReceiveCaption PROVE IInv'
<1>1. /\ UNCHANGED <<lifecycle, session, config, translation, running, mutations, failures>>
      /\ Up /\ captions < MaxCaptions /\ captions' = captions + 1
      /\ phase = "open" \/ endAt = "runtime"
      /\ Schedule({captions'}) /\ owed' = owed \cup {captions'}
  BY DEF ReceiveCaption
<1>2. captions' \in 0 .. MaxCaptions /\ captions' \in Caption /\ captions \in Nat
  BY <1>1, PoolAssumption DEF IInv, TypeOK, Caption
<1>3. generation' \in 0 .. MaxUpdates BY <1>1 DEF IInv, TypeOK, config
<1>4. Candidates' \in SUBSET Caption BY <1>2, CandidatesTyped
<1>5. /\ queue' \in Seq(Task) /\ pending' \in SUBSET Caption
      /\ Work(queue', running', pending')
      /\ pending \cup ({captions'} \cap Candidates') \subseteq pending'
  BY <1>1, <1>3, <1>4, Schedules
<1>6. \A c \in Candidates' : c = captions' \/ c \in Candidates
  BY <1>1, <1>2 DEF Candidates, config
<1>7. NoCaptionForgotten' BY <1>1, <1>5, <1>6 DEF IInv, NoCaptionForgotten
<1>8. EndIsOrdered'
  BY <1>1 DEF IInv, EndIsOrdered, session
<1>9. DownIsEmpty' BY <1>1 DEF Up, DownIsEmpty
<1>10. TypeOK' BY <1>1, <1>2, <1>5 DEF IInv, TypeOK, session, config
<1>11. generation' + Cardinality(Updates') <= MaxUpdates BY <1>1 DEF IInv, Updates, config
<1> QED BY <1>1, <1>5, <1>7, <1>8, <1>9, <1>10, <1>11 DEF IInv, HaveTasks

LEMMA ReceiveTranslationStep ==
  ASSUME IInv, NEW c \in Caption, ReceiveTranslation(c) PROVE IInv'
<1>1. /\ UNCHANGED <<lifecycle, session, config, captions, pool, mutations, owed, failures>>
      /\ translation' = [translation EXCEPT ![c] = "manual"]
  BY DEF ReceiveTranslation
<1>2. captions \in 0 .. MaxCaptions BY DEF IInv, TypeOK
<1>3. 1 .. captions \subseteq Caption BY <1>2, PoolAssumption DEF Caption
<1>4. Candidates' \subseteq Candidates BY <1>1, <1>3 DEF IInv, TypeOK, Candidates, config
<1>5. TypeOK' BY <1>1 DEF IInv, TypeOK, session, config, pool
<1>6. EndIsOrdered' /\ DownIsEmpty' /\ NoCaptionForgotten'
  BY <1>1, <1>4 DEF IInv, EndIsOrdered, DownIsEmpty, NoCaptionForgotten, Idle, session, config, pool
<1>7. generation' + Cardinality(Updates') <= MaxUpdates BY <1>1 DEF IInv, Updates, config
<1> QED BY <1>1, <1>5, <1>6, <1>7 DEF IInv, HaveTasks, pool

\* The steps of the end of the session and of the service that forget nothing.
LEMMA EndStep ==
  ASSUME IInv, RequestStop \/ RuntimeStopped \/ RuntimeFails \/ Drained \/ FinishEnd \/ Close \/ Start
  PROVE  IInv'
<1>1. UNCHANGED <<config, texts, pool, mutations, owed>>
  BY DEF RequestStop, RuntimeStopped, RuntimeFails, Drained, FinishEnd, Close, Start
<1>2. failures' \in 0 .. MaxFailures
  BY InjectTyped DEF RequestStop, RuntimeStopped, RuntimeFails, Drained, FinishEnd, Close, Start
<1>3. /\ lifecycle' \in {"ready", "closing", "down"}
      /\ phase' \in {"open", "stopping", "ended"}
      /\ endAt' \in {"none", "runtime", "drain", "finish"}
  BY DEF IInv, TypeOK, RequestStop, RuntimeStopped, RuntimeFails, Drained, FinishEnd, Close, Start, session
<1>4. TypeOK' BY <1>1, <1>2, <1>3 DEF IInv, TypeOK, config, texts, pool
<1>5. EndIsOrdered'
  BY <1>1 DEF IInv, TypeOK, EndIsOrdered, Idle, RequestStop, RuntimeStopped, RuntimeFails, Drained, FinishEnd,
     Close, Start, session, pool
<1>6. DownIsEmpty'
  BY <1>1 DEF IInv, DownIsEmpty, Idle, Up, RequestStop, RuntimeStopped, RuntimeFails, Drained, FinishEnd,
     Close, Start, session, pool
<1>7. lifecycle' = "ready" => lifecycle = "ready" \/ owed = {}
  BY DEF IInv, DownIsEmpty, RequestStop, RuntimeStopped, RuntimeFails, Drained, FinishEnd, Close, Start
<1>8. NoCaptionForgotten' BY <1>1, <1>7, CandidatesSame DEF IInv, NoCaptionForgotten, pool
<1>9. generation' + Cardinality(Updates') <= MaxUpdates BY <1>1 DEF IInv, Updates, config
<1> QED BY <1>1, <1>4, <1>5, <1>6, <1>8, <1>9 DEF IInv, HaveTasks, pool

LEMMA NoWork ==
  ASSUME pending' = {}, queue' = <<>>, running' = {}, mutations' = <<>>, generation' = 0
  PROVE  /\ queue' \in Seq(Task) /\ mutations' \in Seq(Mutation)
         /\ IsFiniteSet(running') /\ Cardinality(running') <= Concurrency
         /\ Work(queue', running', pending') /\ HaveTasks(mutations', running')
         /\ generation' + Cardinality(Updates') <= MaxUpdates
<1>1. IsFiniteSet(running') /\ Cardinality(running') = 0 BY FS_EmptySet
<1>2. DOMAIN queue' = {} /\ DOMAIN mutations' = {} OBVIOUS
<1>3. Work(queue', running', pending') BY <1>2 DEF Work, Queued, Started
<1>4. HaveTasks(mutations', running') BY <1>2 DEF HaveTasks, Answers
<1>5. Updates' = {} BY <1>2 DEF Updates
<1>6. Cardinality(Updates') = 0 BY <1>5, FS_EmptySet
<1> QED BY <1>1, <1>3, <1>4, <1>6, EmptySeq, PoolAssumption

LEMMA DownStep == ASSUME IInv, CloseDone \/ Crash PROVE IInv'
<1>1. /\ lifecycle' = "down" /\ Forget /\ UNCHANGED phase
      /\ Inject \/ UNCHANGED failures
      /\ CloseDone => Idle
  BY DEF CloseDone, Crash
<1>2. /\ endAt' = "none" /\ generation' = 0
      /\ pending' = {} /\ queue' = <<>> /\ running' = {} /\ mutations' = <<>>
      /\ owed' = {} /\ UNCHANGED <<settings, texts>>
  BY <1>1 DEF Forget
<1>3. /\ queue' \in Seq(Task) /\ mutations' \in Seq(Mutation)
      /\ IsFiniteSet(running') /\ Cardinality(running') <= Concurrency
      /\ Work(queue', running', pending') /\ HaveTasks(mutations', running')
      /\ generation' + Cardinality(Updates') <= MaxUpdates
  BY <1>2, NoWork
<1>4. generation' \in 0 .. MaxUpdates BY <1>2, PoolAssumption
<1>5. TypeOK' BY <1>1, <1>2, <1>3, <1>4, InjectTyped DEF IInv, TypeOK, texts
<1>6. EndIsOrdered' /\ DownIsEmpty' /\ NoCaptionForgotten'
  BY <1>1, <1>2 DEF EndIsOrdered, DownIsEmpty, NoCaptionForgotten, Idle
<1> QED BY <1>3, <1>5, <1>6 DEF IInv

-----------------------------------------------------------------------------
(* The theorems.                                                           *)

LEMMA Initial == Init => IInv
<1> SUFFICES ASSUME Init PROVE IInv OBVIOUS
<1> USE DEF Init
<1>1. IsFiniteSet(running) /\ Cardinality(running) = 0 BY FS_EmptySet
<1>2. DOMAIN queue = {} /\ DOMAIN mutations = {} OBVIOUS
<1>3. Work(queue, running, pending) BY <1>2 DEF Work, Queued, Started
<1>4. HaveTasks(mutations, running) BY <1>2 DEF HaveTasks, Answers
<1>5. Updates = {} BY <1>2 DEF Updates
<1>6. Cardinality(Updates) = 0 BY <1>5, FS_EmptySet
<1>7. queue \in Seq(Task) /\ mutations \in Seq(Mutation) BY EmptySeq
<1>8. TypeOK BY <1>1, <1>7, PoolAssumption DEF TypeOK
<1>9. EndIsOrdered /\ DownIsEmpty /\ NoCaptionForgotten
  BY DEF EndIsOrdered, DownIsEmpty, NoCaptionForgotten
<1> QED BY <1>1, <1>3, <1>4, <1>6, <1>8, <1>9, PoolAssumption DEF IInv

LEMMA Stutters == ASSUME IInv, UNCHANGED vars PROVE IInv'
<1>1. TypeOK' BY DEF IInv, TypeOK, vars
<1>2. EndIsOrdered' /\ DownIsEmpty' BY DEF IInv, EndIsOrdered, DownIsEmpty, Idle, vars
<1>3. NoCaptionForgotten' BY DEF IInv, NoCaptionForgotten, Candidates, vars
<1> QED BY <1>1, <1>2, <1>3 DEF IInv, HaveTasks, Updates, vars

\* The invariant holds in every state of every run.
THEOREM Invariant == Spec => []IInv
<1>1. IInv /\ [Next]_vars => IInv'
  <2> SUFFICES ASSUME IInv, [Next]_vars PROVE IInv' OBVIOUS
  <2>1. ASSUME NEW t \in running, Answer(t) \/ AnswerFails(t) PROVE IInv'
    BY <2>1, AnswerStep, AnswerFailsStep
  <2>2. ASSUME NEW new \in Change, RequestUpdate(new) PROVE IInv' BY <2>2, RequestUpdateStep
  <2>3. ASSUME NEW c \in Caption, ReceiveTranslation(c) PROVE IInv' BY <2>3, ReceiveTranslationStep
  <2> QED BY <2>1, <2>2, <2>3, StartTaskStep, WriteAnswerStep, WriteAnswerFailsStep, UpdateStep,
       UpdateFailsStep, ReceiveCaptionStep, EndStep, DownStep, Stutters DEF Next
<1> QED BY <1>1, Initial, PTL DEF Spec

\* What is pending, counted.
LEMMA PendingIsCounted ==
  ASSUME IInv PROVE Cardinality(pending) = Len(queue) + Cardinality(running)
<1> DEFINE Q == Queued(queue)
           R == Started(running)
           places == [i \in 1 .. Len(queue) |-> queue[i].cap]
           captionOf == [t \in running |-> t.cap]
<1>1. /\ Len(queue) \in Nat /\ DOMAIN queue = 1 .. Len(queue)
      /\ Work(queue, running, pending) /\ IsFiniteSet(running) /\ Cardinality(running) \in Nat
  BY LenProperties, FS_CardinalityType DEF IInv, TypeOK
<1>2. IsFiniteSet(1 .. Len(queue)) /\ Cardinality(1 .. Len(queue)) = Len(queue)
  <2> DEFINE n == Len(queue)
  <2> HIDE DEF n
  <2>1. n \in Nat BY <1>1 DEF n
  <2>2. IsFiniteSet(1 .. n) /\ Cardinality(1 .. n) = IF 1 > n THEN 0 ELSE n - 1 + 1
    BY <2>1, FS_Interval
  <2>3. Cardinality(1 .. n) = n BY <2>1, <2>2
  <2> QED BY <2>2, <2>3 DEF n
<1>3. IsFiniteSet(Q) /\ Cardinality(Q) = Len(queue)
  <2>1. places \in [1 .. Len(queue) -> Q] BY <1>1 DEF Queued
  <2>2. \A i, j \in 1 .. Len(queue) : places[i] = places[j] => i = j BY <1>1 DEF Work
  <2>3. \A c \in Q : \E i \in 1 .. Len(queue) : places[i] = c BY <1>1 DEF Queued
  <2> HIDE DEF places, Q
  <2>4. places \in Injection(1 .. Len(queue), Q)
    BY <2>1, <2>2, Zenon DEF Injection, IsInjective
  <2>5. places \in Surjection(1 .. Len(queue), Q) BY <2>1, <2>3, Zenon DEF Surjection
  <2> QED BY <1>2, <2>4, <2>5, FS_Surjection
<1>4. IsFiniteSet(R) /\ Cardinality(R) = Cardinality(running)
  <2>1. captionOf \in [running -> R] BY DEF Started
  <2>2. \A t, u \in running : captionOf[t] = captionOf[u] => t = u BY <1>1 DEF Work
  <2>3. \A c \in R : \E t \in running : captionOf[t] = c BY DEF Started
  <2> HIDE DEF captionOf, R
  <2>4. captionOf \in Injection(running, R) BY <2>1, <2>2, Zenon DEF Injection, IsInjective
  <2>5. captionOf \in Surjection(running, R) BY <2>1, <2>3, Zenon DEF Surjection
  <2> QED BY <1>1, <2>4, <2>5, FS_Surjection
<1>5. pending = Q \cup R /\ Q \cap R = {} BY <1>1 DEF Work
<1> HIDE DEF Q, R
<1>6. Cardinality(Q \cup R) = Cardinality(Q) + Cardinality(R) - Cardinality(Q \cap R)
  BY <1>3, <1>4, FS_Union
<1>7. Cardinality(Q \cap R) = 0 BY <1>5, FS_EmptySet
<1> QED BY <1>1, <1>3, <1>4, <1>5, <1>6, <1>7

\* The pool accounts for its work: it runs no more tasks than it may, a caption
\* has at most one task, what is pending is what is queued or running, and an
\* ended session has none of it (scheduleTranslation, BoundedTaskPool).
THEOREM PoolAlwaysConsistent == Spec => []PoolIsConsistent
<1>1. IInv => PoolIsConsistent
  <2> SUFFICES ASSUME IInv PROVE PoolIsConsistent OBVIOUS
  <2>1. TypeOK BY DEF IInv
  <2>2. OneTaskPerCaption
    <3>1. pending = {queue[i].cap : i \in DOMAIN queue} \cup {t.cap : t \in running}
      BY DEF IInv, Work, Queued, Started
    <3> QED BY <3>1, PendingIsCounted DEF OneTaskPerCaption
  <2>3. EndedIsDrained
    <3>1. ASSUME phase = "ended" PROVE Idle /\ pending = {}
      <4>1. queue = <<>> /\ running = {} BY <3>1 DEF IInv, EndIsOrdered, Idle
      <4>2. DOMAIN queue = {} BY <4>1
      <4>3. pending = {} BY <4>1, <4>2 DEF IInv, Work, Queued, Started
      <4> QED BY <4>1, <4>3 DEF Idle
    <3> QED BY <3>1 DEF EndedIsDrained
  <2> QED BY <2>1, <2>2, <2>3 DEF PoolIsConsistent
<1> QED BY <1>1, Invariant, PTL

\* An update of the settings that overtakes a task loses no caption: what is to
\* be translated under the present settings, and has not failed under them, is
\* in work (the generations of scheduleTranslation).
THEOREM NoCaptionIsForgotten == Spec => []NoCaptionForgotten
<1>1. IInv => NoCaptionForgotten BY DEF IInv
<1> QED BY <1>1, Invariant, PTL

\* The model never replaces the translation of a user, which may have come after
\* the answer was queued (receiveTranslationUnlocked).
THEOREM ManualAlwaysKept == Spec => ManualIsKept
<1>1. IInv /\ [Next]_vars =>
        [\A c \in Caption : translation[c] = "manual" => translation'[c] = "manual"]_vars
  <2> SUFFICES ASSUME IInv, Next,
                      NEW c \in Caption, translation[c] = "manual"
               PROVE  translation'[c] = "manual"
    OBVIOUS
  <2>1. translation \in [Caption -> {"none", "manual", "model"}] BY DEF IInv, TypeOK
  <2>2. CASE UNCHANGED translation BY <2>2
  <2>3. CASE WriteAnswer
    <3>1. mutations # <<>> /\ mutations \in Seq(Mutation) BY <2>3 DEF WriteAnswer, Next1, IInv, TypeOK
    <3>2. Head(mutations) \in Mutation /\ Head(mutations).op = "write"
      BY <2>3, <3>1, HeadTailProperties DEF WriteAnswer, Next1
    <3>3. Writer.cap \in Caption BY <3>2 DEF Writer, Mutation
    <3> QED BY <2>1, <2>3, <3>3 DEF WriteAnswer, Written
  <2>4. ASSUME NEW d \in Caption, ReceiveTranslation(d) PROVE translation'[c] = "manual"
    BY <2>1, <2>4 DEF ReceiveTranslation
  <2>5. \/ UNCHANGED translation \/ WriteAnswer
        \/ \E d \in Caption : ReceiveTranslation(d)
    BY DEF Next, StartTask, Answer, AnswerFails, WriteAnswerFails, RequestUpdate, Update, UpdateFails,
       ReceiveCaption, RequestStop, RuntimeStopped, RuntimeFails, Drained, FinishEnd, Close, CloseDone,
       Crash, Start, Forget, texts
  <2> QED BY <2>2, <2>3, <2>4, <2>5
<1> QED BY <1>1, Invariant, PTL DEF Spec, ManualIsKept

=============================================================================
