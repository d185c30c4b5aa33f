--------------------------- MODULE EventBusProofs ---------------------------
(***************************************************************************)
(* Theorems about EventBus, for every capacity of the bus, every limit of  *)
(* a poll and any number of events, polls and restarts.                    *)
(***************************************************************************)
EXTENDS EventBus, WellFoundedInduction, TLAPS

-----------------------------------------------------------------------------
(* What the loop of getAfter returns.                                      *)

\* A nonempty set of numbers has a least one.  (Induction over a number is done
\* below by looking at the least counterexample.)
LEMMA LeastNumber ==
    ASSUME NEW T \in SUBSET Nat, T # {}
    PROVE  \E n \in T : \A k \in T : n <= k
<1> DEFINE R == OpToRel(<, Nat)
<1>1. \E n \in T : \A k \in T : ~ (<<k, n>> \in R)
  <2>1. IsWellFoundedOn(R, Nat)
    BY NatLessThanWellFounded
  <2> HIDE DEF R
  <2> QED
    BY <2>1, WFMin
<1>2. \A n, k \in Nat : ~ (<<k, n>> \in R) => n <= k
  BY DEF OpToRel
<1> HIDE DEF R
<1> QED
  BY <1>1, <1>2

\* One round of the loop, and the loop over the first n events.
TakeRound(q, after, lim, f, i) ==
    IF i = 0 THEN << >>
    ELSE IF q[i] > after /\ Len(f[i - 1]) < lim THEN Append(f[i - 1], q[i])
    ELSE f[i - 1]
IsTake(q, after, lim, n, f) == f = [i \in 0..n |-> TakeRound(q, after, lim, f, i)]

\* The loop is well defined: it can be run over any number of events.
LEMMA TakeExists ==
    ASSUME NEW q, NEW after, NEW lim, NEW n \in Nat
    PROVE  \E f : IsTake(q, after, lim, n, f)
<1> DEFINE T == {k \in Nat : ~ \E f : IsTake(q, after, lim, k, f)}
<1> SUFFICES ASSUME T # {}
             PROVE  FALSE
  OBVIOUS
<1>1. PICK k \in T : \A j \in T : k <= j
  BY LeastNumber
<1>2. CASE k = 0
  <2>1. IsTake(q, after, lim, 0, [i \in 0..0 |-> << >>])
    BY DEF IsTake, TakeRound
  <2> QED
    BY <1>1, <1>2, <2>1
<1>3. CASE k # 0
  <2>1. k \in Nat /\ k - 1 \in Nat /\ k - 1 \notin T
    BY <1>1, <1>3
  <2>2. PICK g : IsTake(q, after, lim, k - 1, g)
    BY <2>1
  <2> DEFINE f == [i \in 0..k |-> IF i < k THEN g[i] ELSE TakeRound(q, after, lim, g, k)]
  <2>3. g = [i \in 0..(k - 1) |-> TakeRound(q, after, lim, g, i)]
    BY <2>2 DEF IsTake
  <2>4. \A i \in 0..(k - 1) : f[i] = g[i] /\ g[i] = TakeRound(q, after, lim, g, i)
    BY <2>1, <2>3, SMTT(30)
  <2>5. \A i \in 0..k : TakeRound(q, after, lim, f, i) = TakeRound(q, after, lim, g, i)
    <3> SUFFICES ASSUME NEW i \in 0..k
                 PROVE  TakeRound(q, after, lim, f, i) = TakeRound(q, after, lim, g, i)
      OBVIOUS
    <3>1. i # 0 => i - 1 \in 0..(k - 1)
      BY <2>1
    <3> HIDE DEF f
    <3>2. i # 0 => f[i - 1] = g[i - 1]
      BY <2>4, <3>1
    <3> QED
      BY <3>2 DEF TakeRound
  <2>6. \A i \in 0..k : f[i] = TakeRound(q, after, lim, g, i)
    <3> SUFFICES ASSUME NEW i \in 0..k
                 PROVE  f[i] = TakeRound(q, after, lim, g, i)
      OBVIOUS
    <3>1. f[k] = TakeRound(q, after, lim, g, k)
      BY <2>1
    <3>2. i = k \/ i \in 0..(k - 1)
      BY <2>1
    <3> HIDE DEF f
    <3> QED
      BY <2>4, <3>1, <3>2
  <2>7. IsTake(q, after, lim, k, f)
    <3>1. f = [i \in 0..k |-> f[i]]
      OBVIOUS
    <3> HIDE DEF f
    <3> QED
      BY <2>5, <2>6, <3>1 DEF IsTake
  <2> QED
    BY <1>1, <2>7
<1> QED
  BY <1>2, <1>3

\* The loop, unrolled by one round.
LEMMA TakenUnrolls ==
    ASSUME NEW q \in Seq(Nat), NEW after, NEW lim
    PROVE  \E f : /\ Taken(q, after, lim) = f[Len(q)]
                  /\ \A i \in 0..Len(q) : f[i] = TakeRound(q, after, lim, f, i)
<1> DEFINE P(f) == f = [i \in 0..Len(q) |->
                          IF i = 0 THEN << >>
                          ELSE IF q[i] > after /\ Len(f[i - 1]) < lim THEN Append(f[i - 1], q[i])
                          ELSE f[i - 1]]
           c == CHOOSE f : P(f)
<1>1. \E g : P(g)
  <2>1. Len(q) \in Nat
    OBVIOUS
  <2>2. PICK g : IsTake(q, after, lim, Len(q), g)
    BY <2>1, TakeExists
  <2>3. P(g)
    BY <2>2 DEF IsTake, TakeRound
  <2> QED
    BY <2>3
<1>2. Taken(q, after, lim) = c[Len(q)]
  BY DEF Taken
<1> HIDE DEF P
<1>3. P(c)
  BY <1>1
<1> HIDE DEF c
<1>4. \A i \in 0..Len(q) : c[i] = TakeRound(q, after, lim, c, i)
  BY <1>3 DEF P, TakeRound
<1> QED
  BY <1>2, <1>4

Ascending(s) == \A i, j \in 1..Len(s) : i < j => s[i] < s[j]

\* An id that was taken, and one that a full answer has no room for.
In(r, x) == \E k \in 1..Len(r) : r[k] = x
Beyond(r, lim, x) == Len(r) = lim /\ x > r[lim]

\* r is what the loop has to make of the first n events of q.
Selects(q, after, lim, n, r) ==
    /\ r \in Seq(Nat) /\ Len(r) <= n /\ Len(r) <= lim
    /\ \A k \in 1..Len(r) : r[k] > after /\ \E j \in 1..n : r[k] = q[j]
    /\ Ascending(r)
    /\ \A j \in 1..n : q[j] > after => In(r, q[j]) \/ Beyond(r, lim, q[j])

\* One round: an event is appended to what was selected before it, or passed over.
LEMMA RoundSelects ==
    ASSUME NEW q \in Seq(Nat), Ascending(q), NEW after \in Nat, NEW lim \in Nat \ {0},
           NEW f, NEW i \in 1..Len(q),
           Selects(q, after, lim, i - 1, f[i - 1])
    PROVE  Selects(q, after, lim, i, TakeRound(q, after, lim, f, i))
<1> DEFINE r == f[i - 1]
           t == TakeRound(q, after, lim, f, i)
<1>0. i \in Nat /\ i # 0 /\ i - 1 \in Nat /\ Len(q) \in Nat /\ q[i] \in Nat /\ i <= Len(q)
  OBVIOUS
<1>1. /\ r \in Seq(Nat) /\ Len(r) <= i - 1 /\ Len(r) \in Nat /\ Len(r) <= lim
      /\ \A k \in 1..Len(r) : r[k] > after /\ \E j \in 1..(i - 1) : r[k] = q[j]
      /\ Ascending(r)
      /\ \A j \in 1..(i - 1) : q[j] > after => In(r, q[j]) \/ Beyond(r, lim, q[j])
  BY SMTT(30) DEF Selects
<1>2. \A j \in 1..(i - 1) : j \in 1..i /\ q[j] < q[i]
  <2> HIDE DEF r, t
  <2> SUFFICES ASSUME NEW j \in 1..(i - 1)
               PROVE  j \in 1..i /\ q[j] < q[i]
    OBVIOUS
  <2>1. j \in 1..i /\ j \in 1..Len(q) /\ i \in 1..Len(q) /\ j < i
    BY <1>0
  <2> QED
    BY <2>1 DEF Ascending
<1>3. CASE q[i] > after /\ Len(r) < lim
  <2>1. t = Append(r, q[i])
    BY <1>0, <1>3 DEF TakeRound
  <2> HIDE DEF r, t
  <2>2. /\ t \in Seq(Nat) /\ Len(t) = Len(r) + 1
        /\ \A k \in 1..Len(r) : t[k] = r[k]
        /\ t[Len(r) + 1] = q[i]
    BY <1>0, <1>1, <2>1
  <2>3. \A k \in 1..Len(t) : k \in 1..Len(r) \/ k = Len(r) + 1
    BY <1>1, <2>2
  <2>4. \A k \in 1..Len(t) : t[k] > after /\ \E j \in 1..i : t[k] = q[j]
    <3> SUFFICES ASSUME NEW k \in 1..Len(t)
                 PROVE  t[k] > after /\ \E j \in 1..i : t[k] = q[j]
      OBVIOUS
    <3>1. CASE k \in 1..Len(r)
      <4>1. PICK j \in 1..(i - 1) : r[k] = q[j]
        BY <1>1, <3>1
      <4>2. t[k] = r[k] /\ r[k] > after /\ j \in 1..i
        BY <1>1, <1>2, <2>2, <3>1, <4>1
      <4> QED
        BY <4>1, <4>2
    <3>2. CASE k = Len(r) + 1
      BY <1>0, <1>3, <2>2, <3>2, SMTT(30)
    <3> QED
      BY <2>3, <3>1, <3>2
  <2>5. Ascending(t)
    <3> SUFFICES ASSUME NEW k \in 1..Len(t), NEW l \in 1..Len(t), k < l
                 PROVE  t[k] < t[l]
      BY DEF Ascending
    <3>1. k \in 1..Len(r)
      BY <1>1, <2>2
    <3>2. CASE l \in 1..Len(r)
      BY <1>1, <2>2, <3>1, <3>2 DEF Ascending
    <3>3. CASE l = Len(r) + 1
      <4>1. r[k] < q[i]
        BY <1>1, <1>2, <3>1
      <4> QED
        BY <2>2, <3>1, <3>3, <4>1
    <3> QED
      BY <2>3, <3>2, <3>3
  <2>6. \A j \in 1..i : q[j] > after => In(t, q[j])
    <3> SUFFICES ASSUME NEW j \in 1..i, q[j] > after
                 PROVE  \E k \in 1..Len(t) : t[k] = q[j]
      BY DEF In
    <3>1. CASE j \in 1..(i - 1)
      <4>0. ~ Beyond(r, lim, q[j])
        BY <1>1, <1>3 DEF Beyond, r
      <4>1. PICK k \in 1..Len(r) : r[k] = q[j]
        BY <1>1, <3>1, <4>0 DEF In
      <4>2. k \in 1..Len(t) /\ t[k] = q[j]
        BY <1>1, <2>2, <4>1
      <4> QED
        BY <4>2
    <3>2. CASE j = i
      <4>1. Len(r) + 1 \in 1..Len(t)
        BY <1>1, <2>2
      <4> QED
        BY <2>2, <3>2, <4>1
    <3>3. j \in 1..(i - 1) \/ j = i
      BY <1>0
    <3> QED
      BY <3>1, <3>2, <3>3
  <2>7. Len(t) <= i /\ Len(t) <= lim
    BY <1>0, <1>1, <1>3, <2>2 DEF r
  <2> QED
    BY <2>2, <2>4, <2>5, <2>6, <2>7 DEF Selects, t
<1>4. CASE ~ (q[i] > after /\ Len(r) < lim)
  <2>1. t = r
    BY <1>0, <1>4 DEF TakeRound
  <2> HIDE DEF r, t
  <2>2. \A k \in 1..Len(r) : r[k] > after /\ \E j \in 1..i : r[k] = q[j]
    BY <1>1, <1>2
  <2>3. q[i] > after => Beyond(r, lim, q[i])
    <3> SUFFICES ASSUME q[i] > after
                 PROVE  Len(r) = lim /\ q[i] > r[lim]
      BY DEF Beyond
    <3>1. Len(r) = lim /\ lim \in 1..Len(r)
      BY <1>1, <1>4 DEF r
    <3>2. PICK j \in 1..(i - 1) : r[lim] = q[j]
      BY <1>1, <3>1
    <3>3. q[j] < q[i] /\ q[j] \in Nat
      BY <1>0, <1>2, <3>2
    <3> QED
      BY <1>0, <3>1, <3>2, <3>3
  <2>4. \A j \in 1..i : q[j] > after => In(r, q[j]) \/ Beyond(r, lim, q[j])
    <3>1. \A j \in 1..i : j \in 1..(i - 1) \/ j = i
      BY <1>0
    <3> QED
      BY <1>1, <2>3, <3>1
  <2>5. Len(r) <= i
    BY <1>0, <1>1
  <2> QED
    BY <1>1, <2>1, <2>2, <2>4, <2>5 DEF Selects, t
<1> QED
  BY <1>3, <1>4

\* What getAfter returns, for every deque whose ids ascend: ids after the cursor,
\* in order, and all of them up to the last one when there are as many as the limit.
LEMMA TakenSelects ==
    ASSUME NEW q \in Seq(Nat), Ascending(q), NEW after \in Nat, NEW lim \in Nat \ {0}
    PROVE  Selects(q, after, lim, Len(q), Taken(q, after, lim))
<1>1. PICK f : /\ Taken(q, after, lim) = f[Len(q)]
               /\ \A i \in 0..Len(q) : f[i] = TakeRound(q, after, lim, f, i)
  BY TakenUnrolls
<1> DEFINE T == {i \in 0..Len(q) : ~ Selects(q, after, lim, i, f[i])}
<1>0. Len(q) \in Nat
  OBVIOUS
<1> SUFFICES ASSUME T # {}
             PROVE  FALSE
  BY <1>0, <1>1
<1>2. PICK i \in T : \A j \in T : i <= j
  <2>1. T \in SUBSET Nat
    BY <1>0
  <2> HIDE DEF T
  <2> QED
    BY <2>1, LeastNumber
<1>3. CASE i = 0
  <2>1. f[0] = << >>
    BY <1>0, <1>1 DEF TakeRound
  <2>2. << >> \in Seq(Nat) /\ Len(<< >>) = 0
    OBVIOUS
  <2>3. Selects(q, after, lim, 0, f[0])
    BY <2>1, <2>2 DEF Selects, Ascending
  <2> QED
    BY <1>2, <1>3, <2>3
<1>4. CASE i # 0
  <2>1. i \in 1..Len(q) /\ i - 1 \in 0..Len(q) /\ ~ (i <= i - 1)
    BY <1>0, <1>2, <1>4
  <2>2. Selects(q, after, lim, i - 1, f[i - 1])
    BY <1>2, <2>1
  <2>3. Selects(q, after, lim, i, TakeRound(q, after, lim, f, i))
    BY <2>1, <2>2, RoundSelects
  <2> QED
    BY <1>1, <1>2, <2>1, <2>3
<1> QED
  BY <1>3, <1>4
-----------------------------------------------------------------------------
(* The deque.                                                              *)

PollType == [pc : {"idle", "sent", "events", "answered"}, after : Nat, evs : Ids, lastId : Nat]

\* What getEvents stores: the pairs of the run and the selected ids.
Answer(p) == [i \in 1..Len(getAfter(poll[p].after)) |-> <<run, getAfter(poll[p].after)[i]>>]

LEMMA BufAscends ==
    ASSUME TypeOK, BufferIsTail
    PROVE  Ascending(buf) /\ Len(buf) \in Nat /\ Len(buf) <= MaxEvents
           /\ \A i \in 1..Len(buf) : buf[i] \in 1..last
<1>1. Len(buf) \in Nat /\ last \in Nat /\ MaxEvents \in Nat
  BY EventBusAssumption DEF TypeOK
<1>2. Len(buf) <= MaxEvents /\ Len(buf) <= last
  BY <1>1 DEF BufferIsTail
<1>3. \A i \in 1..Len(buf) : buf[i] = last - Len(buf) + i
  BY DEF BufferIsTail
<1> QED
  BY <1>1, <1>2, <1>3 DEF Ascending

LEMMA NoPollType == NoPoll \in PollType
<1>1. << >> \in Ids
  BY DEF Ids
<1> QED
  BY <1>1 DEF NoPoll, PollType

\* What a poll is answered with: pairs of this run, after its cursor, in order, and
\* all that are retained but those a full answer has no room for.
LEMMA AnswerFacts ==
    ASSUME TypeOK, BufferIsTail, NEW p \in Polls
    PROVE  /\ Answer(p) \in Ids
           /\ \A k \in 1..Len(Answer(p)) :
                 /\ Answer(p)[k][1] = run
                 /\ Answer(p)[k][2] \in Nat
                 /\ Answer(p)[k][2] > poll[p].after /\ Answer(p)[k][2] <= last
           /\ \A k, l \in 1..Len(Answer(p)) : k < l => Answer(p)[k][2] < Answer(p)[l][2]
           /\ \A i \in 1..Len(buf) : buf[i] > poll[p].after =>
                 \/ \E k \in 1..Len(Answer(p)) : Answer(p)[k] = <<run, buf[i]>>
                 \/ Len(Answer(p)) = Limit /\ buf[i] > Answer(p)[Limit][2]
<1> DEFINE r == getAfter(poll[p].after)
<1>1. poll[p].after \in Nat /\ run \in Nat /\ buf \in Seq(Nat) /\ last \in Nat
  BY DEF TypeOK
<1>2. Limit \in Nat \ {0} /\ MaxEvents \in Nat
  BY EventBusAssumption
<1>3. Ascending(buf) /\ Len(buf) \in Nat /\ Len(buf) <= MaxEvents
      /\ \A i \in 1..Len(buf) : buf[i] \in 1..last
  BY BufAscends
<1>4. Selects(buf, poll[p].after, Limit, Len(buf), r)
  BY <1>1, <1>2, <1>3, TakenSelects DEF getAfter
<1> HIDE DEF r
<1>5. /\ r \in Seq(Nat) /\ Len(r) \in Nat
      /\ \A k \in 1..Len(r) : r[k] \in Nat /\ r[k] > poll[p].after /\ r[k] <= last
      /\ \A k, l \in 1..Len(r) : k < l => r[k] < r[l]
  <2>1. r \in Seq(Nat) /\ Len(r) \in Nat /\ \A k, l \in 1..Len(r) : k < l => r[k] < r[l]
    BY <1>4 DEF Selects, Ascending
  <2>2. ASSUME NEW k \in 1..Len(r)
        PROVE  r[k] \in Nat /\ r[k] > poll[p].after /\ r[k] <= last
    <3>1. PICK j \in 1..Len(buf) : r[k] = buf[j]
      BY <1>4 DEF Selects
    <3>2. r[k] > poll[p].after
      BY <1>4 DEF Selects
    <3> QED
      BY <1>1, <1>3, <3>1, <3>2
  <2> QED
    BY <2>1, <2>2
<1>6. \A i \in 1..Len(buf) : buf[i] > poll[p].after =>
         In(r, buf[i]) \/ Beyond(r, Limit, buf[i])
  BY <1>4 DEF Selects
<1> DEFINE a == [i \in 1..Len(r) |-> <<run, r[i]>>]
<1>7. a = Answer(p)
  BY DEF Answer, r
<1>8. a \in Ids /\ Len(a) = Len(r)
  <2>1. \A i \in 1..Len(r) : <<run, r[i]>> \in Nat \X Nat
    BY <1>1, <1>5
  <2> QED
    BY <1>5, <2>1 DEF Ids
<1>9. \A k \in 1..Len(r) : a[k] = <<run, r[k]>> /\ a[k][1] = run /\ a[k][2] = r[k]
  OBVIOUS
<1> HIDE DEF a
<1>10. \A k, l \in 1..Len(a) : k < l => a[k][2] < a[l][2]
  BY <1>5, <1>8, <1>9
<1>11. \A k \in 1..Len(a) : /\ a[k][1] = run /\ a[k][2] \in Nat
                            /\ a[k][2] > poll[p].after /\ a[k][2] <= last
  BY <1>5, <1>8, <1>9
<1>12. \A i \in 1..Len(buf) : buf[i] > poll[p].after =>
             \/ \E k \in 1..Len(a) : a[k] = <<run, buf[i]>>
             \/ Len(a) = Limit /\ buf[i] > a[Limit][2]
  <2> SUFFICES ASSUME NEW i \in 1..Len(buf), buf[i] > poll[p].after
               PROVE  \/ \E k \in 1..Len(a) : a[k] = <<run, buf[i]>>
                      \/ Len(a) = Limit /\ buf[i] > a[Limit][2]
    OBVIOUS
  <2>1. CASE In(r, buf[i])
    BY <1>8, <1>9, <2>1 DEF In
  <2>2. CASE Beyond(r, Limit, buf[i])
    <3>1. Len(a) = Limit /\ Limit \in 1..Len(r) /\ buf[i] > r[Limit]
      BY <1>2, <1>8, <2>2 DEF Beyond
    <3> QED
      BY <1>9, <3>1
  <2> QED
    BY <1>6, <2>1, <2>2
<1> QED
  BY <1>7, <1>8, <1>10, <1>11, <1>12

\* The stages of a poll, as the steps set them.
Becomes(p, pc, after, evs, id) ==
    /\ poll' \in [Polls -> PollType]
    /\ poll'[p].pc = pc /\ poll'[p].after = after
    /\ poll'[p].evs = evs /\ poll'[p].lastId = id
    /\ \A q \in Polls : q # p => poll'[q] = poll[q]

LEMMA PollBecomes ==
    ASSUME NEW p \in Polls, poll \in [Polls -> PollType],
           NEW v \in PollType, poll' = [poll EXCEPT ![p] = v]
    PROVE  Becomes(p, v.pc, v.after, v.evs, v.lastId)
BY DEF Becomes

\* What the steps of a poll make of it.
LEMMA PollSteps ==
    ASSUME TypeOK, BufferIsTail, NEW p \in Polls
    PROVE  /\ pollEvents(p) => Becomes(p, "sent", afterId, << >>, 0)
           /\ getEvents(p) => Becomes(p, "events", poll[p].after, Answer(p), poll[p].lastId)
           /\ lastId(p) => Becomes(p, "answered", poll[p].after, poll[p].evs, last)
           /\ showEvents(p) \/ pollFails(p) \/ pollRefused(p) => Becomes(p, "idle", 0, << >>, 0)
<1>1. /\ poll \in [Polls -> PollType] /\ poll[p] \in PollType
      /\ afterId \in Nat /\ last \in Nat /\ << >> \in Ids
  BY DEF TypeOK, PollType, Ids
<1>2. ASSUME pollEvents(p)
      PROVE  Becomes(p, "sent", afterId, << >>, 0)
  BY <1>1, <1>2 DEF pollEvents, NoPoll, Becomes, PollType
<1>3. ASSUME getEvents(p)
      PROVE  Becomes(p, "events", poll[p].after, Answer(p), poll[p].lastId)
  <2> DEFINE a == Answer(p)
  <2>1. poll' = [poll EXCEPT ![p].pc = "events", ![p].evs = a]
    BY <1>3 DEF getEvents, Answer
  <2>2. a \in Ids
    BY AnswerFacts
  <2> HIDE DEF a
  <2>3. Becomes(p, "events", poll[p].after, a, poll[p].lastId)
    BY <1>1, <2>1, <2>2 DEF Becomes, PollType
  <2> QED
    BY <2>3 DEF a
<1>4. ASSUME lastId(p)
      PROVE  Becomes(p, "answered", poll[p].after, poll[p].evs, last)
  BY <1>1, <1>4 DEF lastId, Becomes, PollType
<1>5. ASSUME showEvents(p) \/ pollFails(p) \/ pollRefused(p)
      PROVE  Becomes(p, "idle", 0, << >>, 0)
  <2>1. poll' = [poll EXCEPT ![p] = NoPoll]
    BY <1>5 DEF showEvents, pollFails, pollRefused
  <2>2. Becomes(p, NoPoll.pc, NoPoll.after, NoPoll.evs, NoPoll.lastId)
    BY <1>1, <2>1, NoPollType, PollBecomes
  <2> QED
    BY <2>2 DEF NoPoll
<1> QED
  BY <1>2, <1>3, <1>4, <1>5

\* A poll is left alone, or starts over, when the page or the process does.
LEMMA PollsReset ==
    ASSUME TypeOK
    PROVE  /\ Restart => /\ poll' \in [Polls -> PollType]
                         /\ \A p \in Polls : poll'[p] = (IF poll[p].pc = "answered"
                                                         THEN poll[p] ELSE NoPoll)
           /\ Reload => /\ poll' \in [Polls -> PollType]
                        /\ \A p \in Polls : poll'[p] = NoPoll
<1>1. poll \in [Polls -> PollType]
  BY DEF TypeOK, PollType
<1> QED
  BY <1>1, NoPollType DEF Restart, Reload

\* A push: what stays of the deque.
LEMMA PushShifts ==
    ASSUME TypeOK, BufferIsTail, push
    PROVE  BufferIsTail' /\ buf' \in Seq(Nat) /\ last' \in Nat /\ last' = last + 1
<1>1. buf \in Seq(Nat) /\ last \in Nat /\ MaxEvents \in Nat /\ MaxEvents # 0
  BY EventBusAssumption DEF TypeOK
<1>2. last' = last + 1 /\ buf' = Append(IF Len(buf) >= MaxEvents THEN Tail(buf) ELSE buf, last + 1)
  BY DEF push
<1>3. Len(buf) \in Nat /\ (last < MaxEvents => Len(buf) = last)
      /\ (last >= MaxEvents => Len(buf) = MaxEvents)
      /\ \A i \in 1..Len(buf) : buf[i] = last - Len(buf) + i
  BY <1>1 DEF BufferIsTail
<1>4. CASE Len(buf) >= MaxEvents
  <2>1. buf # << >> /\ Len(buf) = MaxEvents /\ last >= MaxEvents
    BY <1>1, <1>3, <1>4
  <2>2. PICK t : t = Tail(buf)
    OBVIOUS
  <2>3. t \in Seq(Nat) /\ Len(t) = Len(buf) - 1 /\ \A i \in 1..Len(t) : t[i] = buf[i + 1]
    BY <1>1, <2>1, <2>2
  <2>4. buf' = Append(t, last + 1)
    BY <1>2, <1>4, <2>2
  <2>5. buf' \in Seq(Nat) /\ Len(buf') = MaxEvents /\ buf'[MaxEvents] = last + 1
        /\ \A i \in 1..(MaxEvents - 1) : buf'[i] = t[i]
    BY <1>1, <2>1, <2>3, <2>4
  <2>6. \A i \in 1..MaxEvents : buf'[i] = last + 1 - MaxEvents + i
    <3> SUFFICES ASSUME NEW i \in 1..MaxEvents
                 PROVE  buf'[i] = last + 1 - MaxEvents + i
      OBVIOUS
    <3>1. CASE i = MaxEvents
      BY <1>1, <2>5, <3>1
    <3>2. CASE i \in 1..(MaxEvents - 1)
      <4>1. buf'[i] = buf[i + 1] /\ i + 1 \in 1..Len(buf)
        BY <1>1, <2>1, <2>3, <2>5, <3>2
      <4> QED
        BY <1>1, <1>3, <2>1, <4>1
    <3> QED
      BY <1>1, <3>1, <3>2
  <2>7. ~ (last' < MaxEvents)
    BY <1>1, <1>2, <2>1
  <2>8. Len(buf') = MaxEvents /\ last + 1 = last'
    BY <1>2, <2>5
  <2>9. BufferIsTail'
    <3>1. Len(buf') = (IF last' < MaxEvents THEN last' ELSE MaxEvents)
      BY <2>7, <2>8
    <3>2. \A i \in 1..MaxEvents : buf'[i] = last' - MaxEvents + i
      BY <1>1, <2>6, <2>8
    <3>3. \A i \in 1..Len(buf') : buf'[i] = last' - Len(buf') + i
      BY <2>8, <3>2
    <3> QED
      BY <3>1, <3>3 DEF BufferIsTail
  <2> QED
    BY <1>1, <1>2, <2>5, <2>9
<1>5. CASE Len(buf) < MaxEvents
  <2>1. Len(buf) = last
    BY <1>1, <1>3, <1>5
  <2>2. buf' = Append(buf, last + 1)
    BY <1>1, <1>2, <1>3, <1>5
  <2>3. buf' \in Seq(Nat) /\ Len(buf') = last + 1 /\ buf'[last + 1] = last + 1
        /\ \A i \in 1..last : buf'[i] = buf[i]
    BY <1>1, <2>1, <2>2
  <2>4. \A i \in 1..(last + 1) : buf'[i] = i
    BY <1>1, <1>3, <2>1, <2>3
  <2>5. Len(buf') = (IF last' < MaxEvents THEN last' ELSE MaxEvents)
    BY <1>1, <1>2, <1>5, <2>1, <2>3
  <2>6. \A i \in 1..Len(buf') : buf'[i] = last' - Len(buf') + i
    <3> SUFFICES ASSUME NEW i \in 1..(last + 1)
                 PROVE  i = last' - (last + 1) + i
      BY <2>3, <2>4
    <3> QED
      BY <1>1, <1>2
  <2>7. BufferIsTail'
    BY <2>5, <2>6 DEF BufferIsTail
  <2> QED
    BY <1>1, <1>2, <2>3, <2>7
<1> QED
  BY <1>1, <1>3, <1>4, <1>5
-----------------------------------------------------------------------------
(* Types and the deque.                                                    *)

BusOK == TypeOK /\ BufferIsTail

LEMMA BusInit == Init => BusOK
<1> SUFFICES ASSUME Init
             PROVE  BusOK
  OBVIOUS
<1>1. poll \in [Polls -> PollType]
  BY NoPollType DEF Init
<1>2. /\ run \in Nat /\ last \in Nat /\ afterId \in Nat
      /\ buf \in Seq(Nat) /\ log \in Ids /\ between \subseteq Nat
      /\ cut \subseteq Nat /\ overlaps \in Nat
  BY DEF Init, FreshPage, Ids
<1>3. polling \in BOOLEAN
  BY DEF Init, FreshPage
<1>4. BufferIsTail
  BY EventBusAssumption DEF Init, BufferIsTail
<1> QED
  BY <1>1, <1>2, <1>3, <1>4 DEF BusOK, TypeOK, PollType

LEMMA BusNext == BusOK /\ [Next]_vars => BusOK'
<1> SUFFICES ASSUME TypeOK, BufferIsTail, [Next]_vars
             PROVE  BusOK'
  BY DEF BusOK
<1> USE DEF bus, page
<1>0. /\ run \in Nat /\ last \in Nat /\ afterId \in Nat
      /\ buf \in Seq(Nat) /\ log \in Ids /\ between \subseteq Nat
      /\ poll \in [Polls -> PollType] /\ polling \in BOOLEAN
      /\ cut \subseteq Nat /\ overlaps \in Nat
  BY DEF TypeOK, PollType
<1>1. ASSUME UNCHANGED bus, UNCHANGED page, poll' \in [Polls -> PollType]
      PROVE  BusOK'
  BY <1>0, <1>1 DEF BusOK, TypeOK, BufferIsTail, PollType
<1>2. CASE push
  <2>1. BufferIsTail' /\ buf' \in Seq(Nat) /\ last' \in Nat
    BY <1>2, PushShifts
  <2>2. /\ run' = run /\ poll' = poll /\ polling' = polling /\ afterId' = afterId /\ log' = log
        /\ cut' = cut /\ overlaps' = overlaps
    BY <1>2 DEF push
  <2>3. between' \subseteq Nat
    BY <1>0, <1>2 DEF push, RecordBetween
  <2> QED
    BY <1>0, <2>1, <2>2, <2>3 DEF BusOK, TypeOK, PollType
<1>3. CASE Restart
  <2>1. poll' \in [Polls -> PollType]
    BY <1>3, PollsReset
  <2>2. /\ polling' = polling /\ afterId' = afterId /\ log' = log
        /\ cut' = cut /\ overlaps' = overlaps
    BY <1>3 DEF Restart
  <2>3. run' \in Nat /\ last' = 0 /\ buf' = << >> /\ between' = {}
    BY <1>0, <1>3 DEF Restart
  <2>4. BufferIsTail'
    BY <2>3, EventBusAssumption DEF BufferIsTail
  <2> QED
    BY <1>0, <2>1, <2>2, <2>3, <2>4 DEF BusOK, TypeOK, PollType
<1>4. CASE Reload
  <2>1. poll' \in [Polls -> PollType]
    BY <1>4, PollsReset
  <2>2. run' = run /\ buf' = buf /\ last' = last /\ between' = between
    BY <1>4 DEF Reload
  <2>3. polling' = TRUE /\ afterId' = 0 /\ log' = << >> /\ cut' = {} /\ overlaps' = 0
    BY <1>4 DEF Reload
  <2>4. polling' \in BOOLEAN
    BY <2>3
  <2>5. afterId' \in Nat /\ log' \in Ids /\ cut' \subseteq Nat /\ overlaps' \in Nat
    BY <2>3 DEF Ids
  <2>6. BufferIsTail'
    BY <2>2 DEF BufferIsTail
  <2> QED
    BY <1>0, <2>1, <2>2, <2>4, <2>5, <2>6 DEF BusOK, TypeOK, PollType
<1>5. ASSUME NEW p \in Polls,
             \/ pollEvents(p) \/ getEvents(p) \/ lastId(p)
             \/ showEvents(p) \/ pollFails(p) \/ pollRefused(p)
      PROVE  BusOK'
  <2>1. poll' \in [Polls -> PollType]
    BY <1>5, PollSteps DEF Becomes
  <2>2. run' = run /\ buf' = buf /\ last' = last /\ between' = between
    BY <1>5 DEF pollEvents, getEvents, lastId, showEvents, pollFails, pollRefused
  <2>3. BufferIsTail'
    BY <2>2 DEF BufferIsTail
  <2>4. polling' \in BOOLEAN
    BY <1>0, <1>5 DEF pollEvents, getEvents, lastId, showEvents, pollFails, pollRefused
  <2>5. afterId' \in Nat /\ log' \in Ids
    <3>1. CASE showEvents(p)
      <4>1. poll[p].lastId \in Nat /\ poll[p].evs \in Ids
        BY <1>0 DEF PollType
      <4> QED
        BY <1>0, <3>1, <4>1 DEF showEvents, Ids
    <3>2. CASE ~ showEvents(p)
      BY <1>0, <1>5, <3>2 DEF pollEvents, getEvents, lastId, pollFails, pollRefused
    <3> QED
      BY <3>1, <3>2
  <2>6. cut' \subseteq Nat
    BY <1>0, <1>5 DEF pollEvents, getEvents, lastId, showEvents, pollFails, pollRefused, LeftOut
  <2>7. overlaps' \in Nat
    BY <1>0, <1>5 DEF pollEvents, getEvents, lastId, showEvents, pollFails, pollRefused
  <2> QED
    BY <1>0, <2>1, <2>2, <2>3, <2>4, <2>5, <2>6, <2>7 DEF BusOK, TypeOK, PollType
<1>6. CASE UNCHANGED vars
  BY <1>0, <1>1, <1>6 DEF vars
<1> QED
  BY <1>2, <1>3, <1>4, <1>5, <1>6 DEF Next

LEMMA BusAlways == Spec => []BusOK
<1> QED
  BY BusInit, BusNext, PTL DEF Spec

\* The variables of the bus, the page and the polls keep their types (EventBus,
\* getEvents, events.js).
THEOREM TypeAlways == Spec => []TypeOK
<1>1. BusOK => TypeOK
  BY DEF BusOK
<1> QED
  BY BusAlways, <1>1, PTL

\* At any capacity the deque holds exactly the newest ids, without a gap
\* (EventBus::push).
THEOREM BufferAlwaysTail == Spec => []BufferIsTail
<1>1. BusOK => BufferIsTail
  BY DEF BusOK
<1> QED
  BY BusAlways, <1>1, PTL
-----------------------------------------------------------------------------
(* What is passed over, with any number of polls outstanding.               *)

\* An event of this run that the page shows, and one that an answer carries.
Shown(x) == \E k \in 1..Len(log) : log[k] = <<run, x>>
Carried(p, x) == \E k \in 1..Len(poll[p].evs) : poll[p].evs[k] = <<run, x>>

\* The answer of a poll is full, and the event comes after its last one.
NoRoom(p, x) == Len(poll[p].evs) = Limit /\ x > poll[p].evs[Limit][2]

\* An event the page has accounted for, and one it will when the answer arrives.
Accounted(x) == Shown(x) \/ x \in between \cup cut
Answered(p, x) == Accounted(x) \/ Carried(p, x) \/ NoRoom(p, x)

Retained == {buf[i] : i \in 1..Len(buf)}

\* In the first run no cursor is above the newest id.
CursorOK ==
    run = 0 => /\ afterId <= last
               /\ \A p \in Polls : poll[p].after <= last /\ poll[p].lastId <= last

\* What becomes of a retained event that a cursor has passed, at each stage of a
\* poll: the answer of a poll accounts for it before the page does.
PassedOK ==
    run = 0 =>
        \A x \in Retained :
            /\ x <= afterId => Accounted(x)
            /\ \A p \in Polls :
                /\ poll[p].pc = "sent" /\ x <= poll[p].after => Accounted(x)
                /\ poll[p].pc = "events" => Answered(p, x)
                /\ poll[p].pc = "answered" /\ x <= poll[p].lastId => Answered(p, x)

SkipOK == BusOK /\ CursorOK /\ PassedOK

LEMMA SkipInit == Init => CursorOK /\ PassedOK
<1> SUFFICES ASSUME Init
             PROVE  CursorOK /\ PassedOK
  OBVIOUS
<1>1. Retained = {}
  BY DEF Init, Retained
<1> QED
  BY <1>1 DEF Init, FreshPage, NoPoll, CursorOK, PassedOK

LEMMA CursorNext ==
    ASSUME TypeOK, BufferIsTail, CursorOK, [Next]_vars
    PROVE  CursorOK'
<1> SUFFICES ASSUME run' = 0
             PROVE  /\ afterId' <= last'
                    /\ \A q \in Polls : poll'[q].after <= last' /\ poll'[q].lastId <= last'
  BY DEF CursorOK
<1> USE DEF bus, page
<1>0. /\ run \in Nat /\ last \in Nat /\ afterId \in Nat
      /\ \A q \in Polls : poll[q].after \in Nat /\ poll[q].lastId \in Nat
  BY DEF TypeOK
<1>1. run' = run \/ run' = run + 1
  BY DEF Next, vars, push, Restart, Reload, pollEvents, getEvents, lastId, showEvents,
         pollFails, pollRefused
<1>2. run = 0 /\ run' = run
  BY <1>0, <1>1
<1>3. /\ afterId <= last
      /\ \A q \in Polls : poll[q].after <= last /\ poll[q].lastId <= last
  BY <1>2 DEF CursorOK
<1>4. CASE push
  BY <1>0, <1>3, <1>4 DEF push
<1>5. CASE Restart
  BY <1>0, <1>2, <1>5 DEF Restart
<1>6. CASE Reload
  BY <1>0, <1>6, PollsReset DEF Reload, NoPoll
<1>7. ASSUME NEW p \in Polls,
             \/ pollEvents(p) \/ getEvents(p) \/ lastId(p)
             \/ showEvents(p) \/ pollFails(p) \/ pollRefused(p)
      PROVE  /\ afterId' <= last'
             /\ \A q \in Polls : poll'[q].after <= last' /\ poll'[q].lastId <= last'
  <2>1. last' = last /\ (afterId' = afterId \/ afterId' = poll[p].lastId)
    BY <1>7 DEF pollEvents, getEvents, lastId, showEvents, pollFails, pollRefused
  <2>2. \A q \in Polls : q # p => poll'[q] = poll[q]
    BY <1>7, PollSteps DEF Becomes
  <2>3. poll'[p].after <= last /\ poll'[p].lastId <= last
    BY <1>0, <1>3, <1>7, PollSteps DEF Becomes
  <2> QED
    BY <1>0, <1>3, <2>1, <2>2, <2>3
<1>8. CASE UNCHANGED vars
  BY <1>3, <1>8 DEF vars
<1> QED
  BY <1>4, <1>5, <1>6, <1>7, <1>8 DEF Next

\* What was shown stays shown until the page is loaded again.
LEMMA ShownStays ==
    ASSUME TypeOK, run' = run, NEW x, NEW s \in Ids, log' = log \o s,
           Shown(x) \/ \E k \in 1..Len(s) : s[k] = <<run, x>>
    PROVE  Shown(x)'
<1>1. log \in Seq(Nat \X Nat) /\ s \in Seq(Nat \X Nat)
  BY DEF TypeOK, Ids
<1>2. Len(log') = Len(log) + Len(s) /\ Len(log) \in Nat /\ Len(s) \in Nat
  BY <1>1
<1>3. CASE Shown(x)
  <2>1. PICK k \in 1..Len(log) : log[k] = <<run, x>>
    BY <1>3 DEF Shown
  <2>2. k \in 1..Len(log') /\ log'[k] = log[k]
    BY <1>1, <1>2
  <2> QED
    BY <2>1, <2>2 DEF Shown
<1>4. CASE \E k \in 1..Len(s) : s[k] = <<run, x>>
  <2>1. PICK k \in 1..Len(s) : s[k] = <<run, x>>
    BY <1>4
  <2>2. PICK n : n = Len(log) + k
    OBVIOUS
  <2>3. n \in 1..Len(log') /\ log'[n] = s[k]
    BY <1>1, <1>2, <2>2
  <2> QED
    BY <2>1, <2>3 DEF Shown
<1> QED
  BY <1>3, <1>4

LEMMA PushRetains ==
    ASSUME TypeOK, BufferIsTail, push
    PROVE  Retained' \subseteq Retained \cup {last + 1}
<1>1. /\ buf \in Seq(Nat) /\ last \in Nat /\ Len(buf) \in Nat
      /\ Len(buf) = (IF last < MaxEvents THEN last ELSE MaxEvents)
      /\ \A i \in 1..Len(buf) : buf[i] = last - Len(buf) + i
  BY DEF TypeOK, BufferIsTail
<1>2. BufferIsTail' /\ last' = last + 1 /\ buf' \in Seq(Nat)
  BY PushShifts
<1>3. /\ Len(buf') = (IF last' < MaxEvents THEN last' ELSE MaxEvents)
      /\ \A i \in 1..Len(buf') : buf'[i] = last' - Len(buf') + i
  BY <1>2 DEF BufferIsTail
<1>4. MaxEvents \in Nat /\ MaxEvents # 0
  BY EventBusAssumption
<1> SUFFICES ASSUME NEW i \in 1..Len(buf'), buf'[i] # last + 1
             PROVE  buf'[i] \in Retained
  BY DEF Retained
<1>5. Len(buf') \in Nat /\ buf'[i] = last + 1 - Len(buf') + i /\ i # Len(buf')
  BY <1>1, <1>2, <1>3, SMTT(30)
<1>6. PICK j : j = i + 1 - Len(buf') + Len(buf)
  OBVIOUS
<1>7. Len(buf') = Len(buf) \/ Len(buf') = Len(buf) + 1
  BY <1>1, <1>2, <1>3, <1>4
<1>8. j \in 1..Len(buf)
  BY <1>1, <1>5, <1>6, <1>7, SMTT(30)
<1>9. buf[j] = buf'[i]
  BY <1>1, <1>5, <1>6, <1>8, SMTT(30)
<1> QED
  BY <1>8, <1>9 DEF Retained

LEMMA PassedNext ==
    ASSUME TypeOK, BufferIsTail, CursorOK, PassedOK, [Next]_vars
    PROVE  PassedOK'
<1> SUFFICES ASSUME run' = 0, NEW x \in Retained'
             PROVE  /\ x <= afterId' => Accounted(x)'
                    /\ \A q \in Polls :
                        /\ poll'[q].pc = "sent" /\ x <= poll'[q].after => Accounted(x)'
                        /\ poll'[q].pc = "events" => Answered(q, x)'
                        /\ poll'[q].pc = "answered" /\ x <= poll'[q].lastId => Answered(q, x)'
  BY DEF PassedOK
<1> USE DEF bus, page
<1>0. /\ run \in Nat /\ last \in Nat /\ afterId \in Nat /\ log \in Ids
      /\ \A q \in Polls : /\ poll[q].after \in Nat /\ poll[q].lastId \in Nat
                          /\ poll[q].evs \in Ids
  BY DEF TypeOK
<1>1. run' = run \/ run' = run + 1
  BY DEF Next, vars, push, Restart, Reload, pollEvents, getEvents, lastId, showEvents,
         pollFails, pollRefused
<1>2. run = 0 /\ run' = run
  BY <1>0, <1>1
<1>3. \A y \in Retained :
            /\ y <= afterId => Accounted(y)
            /\ \A q \in Polls :
                /\ poll[q].pc = "sent" /\ y <= poll[q].after => Accounted(y)
                /\ poll[q].pc = "events" => Answered(q, y)
                /\ poll[q].pc = "answered" /\ y <= poll[q].lastId => Answered(q, y)
  BY <1>2 DEF PassedOK
<1>4. /\ afterId <= last
      /\ \A q \in Polls : poll[q].after <= last /\ poll[q].lastId <= last
  BY <1>2 DEF CursorOK
<1>5. Retained \subseteq Nat /\ \A y \in Retained : y >= 1 /\ y <= last
  BY <1>0, BufAscends DEF Retained
<1>6. CASE push
  <2>1. log' = log /\ afterId' = afterId /\ poll' = poll /\ cut' = cut
    BY <1>6 DEF push
  <2>2. between \subseteq between'
    BY <1>6 DEF push, RecordBetween
  <2>3. /\ \A y : Accounted(y) => Accounted(y)'
        /\ \A y : \A q \in Polls : Answered(q, y) => Answered(q, y)'
    BY <1>2, <2>1, <2>2 DEF Accounted, Answered, Shown, Carried, NoRoom
  <2>4. CASE x \in Retained
    BY <1>3, <2>1, <2>3, <2>4
  <2>5. CASE x = last + 1
    <3>1. ~ (x <= afterId') /\ \A q \in Polls : ~ (x <= poll'[q].after) /\ ~ (x <= poll'[q].lastId)
      BY <1>0, <1>4, <2>1, <2>5
    <3>2. \A q \in Polls : poll'[q].pc = "events" => x \in between'
      BY <1>2, <1>6, <2>1, <2>5 DEF push, RecordBetween
    <3>3. x \in between' => Accounted(x)' /\ \A q \in Polls : Answered(q, x)'
      BY DEF Accounted, Answered
    <3> QED
      BY <3>1, <3>2, <3>3
  <2> QED
    BY <1>6, <2>4, <2>5, PushRetains
<1>7. CASE Restart
  BY <1>0, <1>2, <1>7 DEF Restart
<1>8. CASE Reload
  <2>1. afterId' = 0 /\ buf' = buf /\ \A q \in Polls : poll'[q].pc = "idle"
    BY <1>8, PollsReset DEF Reload, NoPoll
  <2>2. x >= 1 /\ x \in Nat
    BY <1>5, <2>1 DEF Retained
  <2> QED
    BY <2>1, <2>2
<1>9. ASSUME NEW p \in Polls,
             \/ pollEvents(p) \/ getEvents(p) \/ lastId(p)
             \/ showEvents(p) \/ pollFails(p) \/ pollRefused(p)
      PROVE  /\ x <= afterId' => Accounted(x)'
             /\ \A q \in Polls :
                 /\ poll'[q].pc = "sent" /\ x <= poll'[q].after => Accounted(x)'
                 /\ poll'[q].pc = "events" => Answered(q, x)'
                 /\ poll'[q].pc = "answered" /\ x <= poll'[q].lastId => Answered(q, x)'
  <2>1. buf' = buf /\ last' = last /\ between' = between
    BY <1>9 DEF pollEvents, getEvents, lastId, showEvents, pollFails, pollRefused
  <2>2. x \in Retained /\ x \in Nat /\ x <= last
    BY <1>5, <2>1 DEF Retained
  <2>3. Accounted(x) => Accounted(x)'
    <3>0. cut \subseteq cut'
      BY <1>9 DEF pollEvents, getEvents, lastId, showEvents, pollFails, pollRefused
    <3>1. CASE log' = log
      BY <1>2, <2>1, <3>0, <3>1 DEF Accounted, Shown
    <3>2. CASE showEvents(p)
      <4>1. log' = log \o poll[p].evs
        BY <3>2 DEF showEvents
      <4>2. Shown(x) => Shown(x)'
        BY <1>0, <1>2, <4>1, ShownStays
      <4> QED
        BY <2>1, <3>0, <4>2 DEF Accounted
    <3> QED
      BY <1>9, <3>1, <3>2 DEF pollEvents, getEvents, lastId, pollFails, pollRefused
  <2>4. \A q \in Polls : q # p => poll'[q] = poll[q]
    BY <1>9, PollSteps DEF Becomes
  <2>5. \A q \in Polls : q # p => (Answered(q, x) => Answered(q, x)')
    BY <1>2, <2>3, <2>4 DEF Answered, Carried, NoRoom
  <2>6. \A q \in Polls : q # p =>
                 /\ poll'[q].pc = "sent" /\ x <= poll'[q].after => Accounted(x)'
                 /\ poll'[q].pc = "events" => Answered(q, x)'
                 /\ poll'[q].pc = "answered" /\ x <= poll'[q].lastId => Answered(q, x)'
    BY <1>3, <2>2, <2>3, <2>4, <2>5
  <2> SUFFICES /\ x <= afterId' => Accounted(x)'
               /\ poll'[p].pc = "sent" /\ x <= poll'[p].after => Accounted(x)'
               /\ poll'[p].pc = "events" => Answered(p, x)'
               /\ poll'[p].pc = "answered" /\ x <= poll'[p].lastId => Answered(p, x)'
    BY <2>6
  <2>7. CASE pollEvents(p)
    <3>1. afterId' = afterId /\ poll'[p].pc = "sent" /\ poll'[p].after = afterId
      BY <2>7, PollSteps DEF pollEvents, Becomes
    <3> QED
      BY <1>3, <2>2, <2>3, <3>1
  <2>8. CASE getEvents(p)
    <3>1. /\ afterId' = afterId /\ poll[p].pc = "sent"
          /\ poll'[p].pc = "events" /\ poll'[p].evs = Answer(p)
      BY <2>8, PollSteps DEF getEvents, Becomes
    <3>2. x > poll[p].after =>
              \/ \E k \in 1..Len(Answer(p)) : Answer(p)[k] = <<run, x>>
              \/ Len(Answer(p)) = Limit /\ x > Answer(p)[Limit][2]
      BY <2>2, AnswerFacts DEF Retained
    <3>3. x > poll[p].after => Answered(p, x)'
      BY <1>2, <3>1, <3>2 DEF Answered, Carried, NoRoom
    <3>a. Accounted(x)' => Answered(p, x)'
      BY DEF Answered
    <3>4. x > poll[p].after \/ x <= poll[p].after
      BY <1>0, <2>2
    <3> QED
      BY <1>3, <2>2, <2>3, <3>1, <3>3, <3>4, <3>a
  <2>9. CASE lastId(p)
    <3>1. /\ afterId' = afterId /\ poll[p].pc = "events"
          /\ poll'[p].pc = "answered" /\ poll'[p].evs = poll[p].evs
      BY <2>9, PollSteps DEF lastId, Becomes
    <3>2. Answered(p, x) => Answered(p, x)'
      BY <1>2, <2>3, <3>1 DEF Answered, Carried, NoRoom
    <3> QED
      BY <1>3, <2>2, <2>3, <3>1, <3>2
  <2>10. CASE showEvents(p)
    <3>1. /\ afterId' = poll[p].lastId /\ poll[p].pc = "answered" /\ log' = log \o poll[p].evs
          /\ poll'[p].pc = "idle" /\ cut' = cut \cup LeftOut(poll[p])
      BY <2>10, PollSteps DEF showEvents, Becomes
    <3>2. Carried(p, x) => Shown(x)'
      BY <1>0, <1>2, <3>1, ShownStays DEF Carried
    <3>3. x <= poll[p].lastId /\ NoRoom(p, x) => x \in cut'
      <4>1. x \in Nat /\ x >= 1 /\ poll[p].lastId \in Nat
        BY <1>0, <1>5, <2>2
      <4> QED
        BY <1>2, <3>1, <4>1 DEF NoRoom, LeftOut
    <3>4. x <= poll[p].lastId /\ Answered(p, x) => Accounted(x)'
      BY <2>3, <3>2, <3>3 DEF Answered, Accounted
    <3> QED
      BY <1>3, <2>2, <3>1, <3>4
  <2>11. CASE pollFails(p) \/ pollRefused(p)
    <3>1. afterId' = afterId /\ poll'[p].pc = "idle"
      BY <2>11, PollSteps DEF pollFails, pollRefused, Becomes
    <3> QED
      BY <1>3, <2>2, <2>3, <3>1
  <2> QED
    BY <1>9, <2>7, <2>8, <2>9, <2>10, <2>11
<1>10. CASE UNCHANGED vars
  <2>1. x \in Retained /\ (Accounted(x)' <=> Accounted(x))
        /\ \A q \in Polls : Answered(q, x)' <=> Answered(q, x)
    BY <1>10 DEF vars, Retained, Answered, Accounted, Shown, Carried, NoRoom
  <2> QED
    BY <1>3, <1>10, <2>1 DEF vars
<1> QED
  BY <1>6, <1>7, <1>8, <1>9, <1>10 DEF Next

\* However many polls are outstanding, in whatever order they are answered or fail,
\* and at any capacity and limit: an event on the bus that the cursor has moved past
\* in the first run is shown, or was pushed between getAfter and lastId of a poll,
\* or came after the last event of a full answer (getEvents, events.js).
THEOREM SkippedAlwaysWithCause == Spec => []SkippedWithCause
<1>1. Init => SkipOK
  BY BusInit, SkipInit DEF SkipOK
<1>2. SkipOK /\ [Next]_vars => SkipOK'
  BY BusNext, CursorNext, PassedNext DEF SkipOK, BusOK
<1>3. SkipOK => SkippedWithCause
  BY DEF SkipOK, PassedOK, SkippedWithCause, Accounted, Shown, Retained
<1> QED
  BY <1>1, <1>2, <1>3, PTL DEF Spec
-----------------------------------------------------------------------------
(* The order of the page, until polls overlap.                             *)

\* The events shown were pushed in run r or before, those of run r up to id c.
UpTo(shown, r, c) ==
    \A k \in 1..Len(shown) : shown[k][1] <= r /\ (shown[k][1] = r => shown[k][2] <= c)

\* An answer carries events of run r after the cursor a and up to c, in order.
Carries(evs, a, r, c) ==
    /\ \A k \in 1..Len(evs) : evs[k][1] = r /\ evs[k][2] > a /\ evs[k][2] <= c
    /\ \A k, l \in 1..Len(evs) : k < l => evs[k][2] < evs[l][2]

\* How far a page with the cursor a has got when its only poll is v.  The answer
\* the poll waits for may come from a run r of the server that has ended.
Reached(v, a, shown, now, newest) ==
    /\ v.pc # "answered" => UpTo(shown, now, a) /\ UpTo(shown, now, newest)
    /\ v.pc = "sent" => v.after = a
    /\ v.pc = "events" => Carries(v.evs, a, now, newest)
    /\ v.pc = "answered" =>
          \E r \in 0..now :
              /\ UpTo(shown, r, a) /\ UpTo(shown, r, v.lastId) /\ Carries(v.evs, a, r, v.lastId)
              /\ r = now => v.lastId <= newest

PageOK == \A p \in Polls : Reached(poll[p], afterId, log, run, last)

\* At most one poll is outstanding.
OnePoll == \A p, q \in Polls : poll[p].pc # "idle" /\ poll[q].pc # "idle" => p = q

InOrder(shown) ==
    \A i, j \in 1..Len(shown) :
        i < j /\ shown[i][1] = shown[j][1] => shown[i][2] < shown[j][2]

OrderOK == overlaps = 0 => OnePoll /\ PageOK /\ InOrder(log)

\* The two parts of every event shown or carried are numbers.
LEMMA IdParts ==
    ASSUME NEW x \in Ids
    PROVE  \A k \in 1..Len(x) : x[k][1] \in Nat /\ x[k][2] \in Nat
<1> SUFFICES ASSUME NEW k \in 1..Len(x)
             PROVE  x[k][1] \in Nat /\ x[k][2] \in Nat
  OBVIOUS
<1>1. x[k] \in Nat \X Nat
  BY DEF Ids
<1> QED
  BY <1>1

\* Which bounds on what is shown or carried follow from which.
LEMMA UpToGrows ==
    ASSUME NEW shown \in Ids, NEW r \in Nat, NEW s \in Nat, NEW c \in Nat, NEW d \in Nat,
           UpTo(shown, r, c), r < s \/ (r = s /\ c <= d)
    PROVE  UpTo(shown, s, d)
<1>1. \A k \in 1..Len(shown) : shown[k][1] \in Nat /\ shown[k][2] \in Nat
  BY IdParts
<1> QED
  BY <1>1 DEF UpTo

LEMMA CarriesMore ==
    ASSUME NEW evs \in Ids, NEW a \in Nat, NEW r \in Nat, NEW c \in Nat, NEW d \in Nat,
           Carries(evs, a, r, c), c <= d
    PROVE  Carries(evs, a, r, d)
<1>1. \A k \in 1..Len(evs) : evs[k][2] \in Nat
  BY IdParts
<1> QED
  BY <1>1 DEF Carries

\* The answer arrives: what the page shows after it.
LEMMA LogGrows ==
    ASSUME TypeOK, InOrder(log), NEW s \in Ids, NEW r \in Nat, NEW c \in Nat,
           UpTo(log, r, afterId), UpTo(log, r, c), Carries(s, afterId, r, c), log' = log \o s
    PROVE  InOrder(log') /\ UpTo(log', r, c)
<1>1. log \in Ids /\ s \in Ids /\ afterId \in Nat /\ c \in Nat
  BY DEF TypeOK
<1>2. /\ \A k \in 1..Len(s) : s[k][1] = r /\ s[k][2] > afterId /\ s[k][2] <= c
      /\ \A k, l \in 1..Len(s) : k < l => s[k][2] < s[l][2]
  BY DEF Carries
<1>3. log' = log \o s
  OBVIOUS
<1>4. /\ Len(log) \in Nat /\ Len(s) \in Nat /\ Len(log') = Len(log) + Len(s)
      /\ \A k \in 1..Len(log) : log'[k] = log[k]
      /\ \A k \in 1..Len(log') : k \in 1..Len(log) \/ (k - Len(log) \in 1..Len(s)
                                                       /\ log'[k] = s[k - Len(log)])
  BY <1>1, <1>3, SMTT(30) DEF Ids
<1>5. /\ \A k \in 1..Len(log) : log[k][1] \in Nat /\ log[k][2] \in Nat
      /\ \A k \in 1..Len(s) : s[k][1] \in Nat /\ s[k][2] \in Nat
  BY <1>1, IdParts
<1>6. \A k \in 1..Len(log) : /\ log[k][1] <= r
                             /\ log[k][1] = r => log[k][2] <= afterId /\ log[k][2] <= c
  BY DEF UpTo
<1>7. UpTo(log', r, c)
  <2> SUFFICES ASSUME NEW k \in 1..Len(log')
               PROVE  log'[k][1] <= r /\ (log'[k][1] = r => log'[k][2] <= c)
    BY DEF UpTo
  <2>1. CASE k \in 1..Len(log)
    BY <1>4, <1>6, <2>1
  <2>2. CASE k \notin 1..Len(log)
    BY <1>2, <1>4, <2>2, SMTT(30)
  <2> QED
    BY <2>1, <2>2
<1>8. InOrder(log')
  <2> SUFFICES ASSUME NEW i \in 1..Len(log'), NEW j \in 1..Len(log'),
                      i < j, log'[i][1] = log'[j][1]
               PROVE  log'[i][2] < log'[j][2]
    BY DEF InOrder
  <2>1. CASE j \in 1..Len(log)
    <3>1. i \in 1..Len(log)
      BY <1>4, <2>1
    <3> QED
      BY <1>4, <2>1, <3>1 DEF InOrder
  <2>2. CASE j \notin 1..Len(log)
    <3>1. PICK l \in 1..Len(s) : l = j - Len(log) /\ log'[j] = s[l]
      BY <1>4, <2>2
    <3>2. CASE i \in 1..Len(log)
      <4>1. log'[i] = log[i] /\ s[l][1] = r /\ s[l][2] > afterId
        BY <1>2, <1>4, <3>1, <3>2
      <4>2. log[i][1] = r
        BY <3>1, <4>1
      <4>3. log[i][2] <= afterId /\ log[i][2] \in Nat /\ s[l][2] \in Nat
        BY <1>5, <1>6, <3>1, <3>2, <4>2
      <4>4. \A x, y \in Nat : x <= afterId /\ y > afterId => x < y
        BY <1>1
      <4>5. log[i][2] < s[l][2]
        BY <4>1, <4>3, <4>4, Zenon
      <4> QED
        BY <3>1, <4>1, <4>5
    <3>3. CASE i \notin 1..Len(log)
      <4>1. PICK k \in 1..Len(s) : k = i - Len(log) /\ log'[i] = s[k]
        BY <1>4, <3>3
      <4>2. k < l
        BY <1>4, <3>1, <4>1
      <4> QED
        BY <1>2, <3>1, <4>1, <4>2
    <3> QED
      BY <3>2, <3>3
  <2> QED
    BY <2>1, <2>2
<1> QED
  BY <1>7, <1>8

LEMMA OrderInit == Init => OrderOK
<1> SUFFICES ASSUME Init
             PROVE  OrderOK
  OBVIOUS
<1>1. log = << >> /\ \A p \in Polls : poll[p].pc = "idle"
  BY DEF Init, FreshPage, NoPoll
<1> QED
  BY <1>1 DEF OrderOK, OnePoll, PageOK, Reached, UpTo, InOrder

\* Whatever its poll is at, the page shows nothing above its cursor or the newest id.
LEMMA ReachedIdle ==
    ASSUME NEW v, v.lastId \in Nat, NEW shown \in Ids, NEW a \in Nat, NEW now \in Nat,
           NEW newest \in Nat, Reached(v, a, shown, now, newest)
    PROVE  UpTo(shown, now, a) /\ UpTo(shown, now, newest)
<1>1. CASE v.pc # "answered"
  BY <1>1 DEF Reached
<1>2. CASE v.pc = "answered"
  <2>1. PICK r \in 0..now :
              /\ UpTo(shown, r, a) /\ UpTo(shown, r, v.lastId)
              /\ r = now => v.lastId <= newest
    BY <1>2 DEF Reached
  <2>2. r \in Nat /\ (r < now \/ (r = now /\ v.lastId <= newest /\ a <= a))
    BY <2>1
  <2> QED
    BY <2>1, <2>2, UpToGrows
<1> QED
  BY <1>1, <1>2

LEMMA OrderNext ==
    ASSUME TypeOK, TypeOK', BufferIsTail, OrderOK, [Next]_vars
    PROVE  OrderOK'
<1> USE DEF bus, page
<1>a. CASE Reload
  <2>1. log' = << >> /\ \A p \in Polls : poll'[p].pc = "idle"
    BY <1>a, PollsReset DEF Reload, NoPoll
  <2> QED
    BY <2>1 DEF OrderOK, OnePoll, PageOK, Reached, UpTo, InOrder
<1> SUFFICES ASSUME ~ Reload, overlaps' = 0
             PROVE  (OnePoll /\ PageOK /\ InOrder(log))'
  BY <1>a DEF OrderOK
<1>b. overlaps = 0
  <2>1. overlaps \in Nat
    BY DEF TypeOK
  <2>2. ASSUME NEW p \in Polls,
               \/ pollEvents(p) \/ getEvents(p) \/ lastId(p)
               \/ showEvents(p) \/ pollFails(p) \/ pollRefused(p)
        PROVE  overlaps' = overlaps \/ overlaps' = overlaps + 1
    BY <2>2 DEF pollEvents, getEvents, lastId, showEvents, pollFails, pollRefused
  <2>3. push \/ Restart \/ UNCHANGED vars => overlaps' = overlaps
    BY DEF push, Restart, vars
  <2>4. overlaps' = overlaps \/ overlaps' = overlaps + 1
    BY <2>2, <2>3 DEF Next
  <2> QED
    BY <2>1, <2>4
<1>c. OnePoll /\ PageOK /\ InOrder(log)
  BY <1>b DEF OrderOK
<1>0. /\ run \in Nat /\ last \in Nat /\ afterId \in Nat /\ log \in Ids
      /\ \A q \in Polls : /\ poll[q].after \in Nat /\ poll[q].lastId \in Nat
                          /\ poll[q].evs \in Ids
  BY DEF TypeOK
<1>1. \A p \in Polls : Reached(poll[p], afterId, log, run, last)
  BY <1>c DEF PageOK
<1>2. /\ log' = log => InOrder(log')
      /\ (\A p \in Polls : poll'[p].pc # "idle" => poll[p].pc # "idle") => OnePoll'
  BY <1>c DEF OnePoll
<1>3. CASE push
  <2>1. /\ run' = run /\ afterId' = afterId /\ log' = log /\ poll' = poll
        /\ last' = last + 1 /\ last <= last' /\ last' \in Nat
    BY <1>0, <1>3 DEF push
  <2>2. ASSUME NEW p \in Polls
        PROVE  Reached(poll[p], afterId, log, run, last')
    <3>1. UpTo(log, run, last) => UpTo(log, run, last')
      BY <1>0, <2>1, UpToGrows
    <3>2. Carries(poll[p].evs, afterId, run, last) => Carries(poll[p].evs, afterId, run, last')
      BY <1>0, <2>1, CarriesMore
    <3>3. poll[p].lastId <= last => poll[p].lastId <= last'
      BY <1>0, <2>1
    <3> QED
      BY <1>1, <3>1, <3>2, <3>3 DEF Reached
  <2> QED
    BY <1>2, <2>1, <2>2 DEF PageOK
<1>4. CASE Restart
  <2>1. run' = run + 1 /\ last' = 0 /\ afterId' = afterId /\ log' = log
    BY <1>4 DEF Restart
  <2>2. ASSUME NEW p \in Polls
        PROVE  Reached(poll'[p], afterId, log, run', last')
    <3>1. CASE poll[p].pc = "answered"
      <4>1. poll'[p] = poll[p]
        BY <1>4, <3>1, PollsReset
      <4>2. PICK r \in 0..run :
              /\ UpTo(log, r, afterId) /\ UpTo(log, r, poll[p].lastId)
              /\ Carries(poll[p].evs, afterId, r, poll[p].lastId)
        BY <1>1, <3>1 DEF Reached
      <4>3. r \in 0..run' /\ r # run'
        BY <1>0, <2>1
      <4> QED
        BY <3>1, <4>1, <4>2, <4>3 DEF Reached
    <3>2. CASE poll[p].pc # "answered"
      <4>1. poll'[p].pc = "idle"
        BY <1>4, <3>2, PollsReset DEF NoPoll
      <4>2. UpTo(log, run, last)
        BY <1>1, <3>2 DEF Reached
      <4>3. run < run' /\ run' \in Nat /\ last' \in Nat
        BY <1>0, <2>1
      <4>4. UpTo(log, run', afterId) /\ UpTo(log, run', last')
        BY <1>0, <4>2, <4>3, UpToGrows
      <4> QED
        BY <4>1, <4>4 DEF Reached
    <3> QED
      BY <3>1, <3>2
  <2>3. \A p \in Polls : poll'[p].pc # "idle" => poll[p].pc # "idle"
    BY <1>4, PollsReset DEF NoPoll
  <2> QED
    BY <1>2, <2>1, <2>2, <2>3 DEF PageOK
<1>6. ASSUME NEW p \in Polls,
             \/ pollEvents(p) \/ getEvents(p) \/ lastId(p)
             \/ showEvents(p) \/ pollFails(p) \/ pollRefused(p)
      PROVE  OnePoll' /\ PageOK' /\ InOrder(log')
  <2>1. run' = run /\ last' = last
    BY <1>6 DEF pollEvents, getEvents, lastId, showEvents, pollFails, pollRefused
  <2>a. \A q \in Polls : q # p => poll'[q] = poll[q] /\ poll[q].pc = "idle"
    <3>1. \A q \in Polls : q # p => poll'[q] = poll[q]
      BY <1>6, PollSteps DEF Becomes
    <3>2. CASE pollEvents(p)
      <4>1. ~ \E q \in Polls : poll[q].pc # "idle"
        BY <1>b, <3>2 DEF pollEvents
      <4> QED
        BY <3>1, <4>1
    <3>3. CASE poll[p].pc # "idle"
      BY <1>c, <3>1, <3>3 DEF OnePoll
    <3> QED
      BY <1>6, <3>2, <3>3 DEF getEvents, lastId, showEvents, pollFails, pollRefused
  <2>b. OnePoll'
    BY <2>a DEF OnePoll
  <2>2. Reached(poll'[p], afterId', log', run, last) => PageOK'
    <3> SUFFICES ASSUME Reached(poll'[p], afterId', log', run, last), NEW q \in Polls, q # p
                 PROVE  Reached(poll'[q], afterId', log', run, last)
      BY <2>1 DEF PageOK
    <3>1. poll'[p].lastId \in Nat /\ log' \in Ids /\ afterId' \in Nat
      BY DEF TypeOK
    <3>2. UpTo(log', run, afterId') /\ UpTo(log', run, last)
      BY <1>0, <3>1, ReachedIdle
    <3>3. poll'[q].pc = "idle"
      BY <2>a
    <3> QED
      BY <3>2, <3>3 DEF Reached
  <2>3. Reached(poll[p], afterId, log, run, last)
    BY <1>1
  <2>4. UpTo(log, run, afterId) /\ UpTo(log, run, last)
    BY <1>0, <2>3, ReachedIdle
  <2>5. CASE pollEvents(p)
    <3>1. /\ afterId' = afterId /\ log' = log
          /\ poll'[p].pc = "sent" /\ poll'[p].after = afterId
      BY <2>5, PollSteps DEF pollEvents, Becomes
    <3> QED
      BY <1>2, <2>2, <2>b, <2>4, <3>1 DEF Reached
  <2>6. CASE getEvents(p)
    <3>1. /\ afterId' = afterId /\ log' = log /\ poll[p].pc = "sent"
          /\ poll'[p].pc = "events" /\ poll'[p].evs = Answer(p)
      BY <2>6, PollSteps DEF getEvents, Becomes
    <3>2. poll[p].after = afterId
      BY <2>3, <3>1 DEF Reached
    <3>3. Carries(Answer(p), afterId, run, last)
      BY <3>2, AnswerFacts DEF Carries
    <3> QED
      BY <1>2, <2>2, <2>b, <2>4, <3>1, <3>3 DEF Reached
  <2>7. CASE lastId(p)
    <3>1. /\ afterId' = afterId /\ log' = log /\ poll[p].pc = "events"
          /\ poll'[p].pc = "answered" /\ poll'[p].evs = poll[p].evs /\ poll'[p].lastId = last
      BY <2>7, PollSteps DEF lastId, Becomes
    <3>2. Carries(poll[p].evs, afterId, run, last)
      BY <2>3, <3>1 DEF Reached
    <3>3. run \in 0..run /\ last <= last
      BY <1>0
    <3> QED
      BY <1>2, <2>2, <2>b, <2>4, <3>1, <3>2, <3>3 DEF Reached
  <2>8. CASE showEvents(p)
    <3>1. /\ afterId' = poll[p].lastId /\ poll[p].pc = "answered" /\ log' = log \o poll[p].evs
          /\ poll'[p].pc = "idle"
      BY <2>8, PollSteps DEF showEvents, Becomes
    <3>2. PICK r \in 0..run :
              /\ UpTo(log, r, afterId) /\ UpTo(log, r, poll[p].lastId)
              /\ Carries(poll[p].evs, afterId, r, poll[p].lastId)
              /\ r = run => poll[p].lastId <= last
      BY <2>3, <3>1 DEF Reached
    <3>3. r \in Nat /\ (r < run \/ (r = run /\ poll[p].lastId <= last))
          /\ poll[p].lastId <= poll[p].lastId
      BY <1>0, <3>2
    <3>4. InOrder(log') /\ UpTo(log', r, poll[p].lastId)
      BY <1>0, <1>c, <3>1, <3>2, <3>3, LogGrows
    <3>5. log' \in Ids
      BY <1>0, <3>1 DEF Ids
    <3>6. UpTo(log', run, poll[p].lastId) /\ UpTo(log', run, last)
      BY <1>0, <3>3, <3>4, <3>5, UpToGrows
    <3> QED
      BY <2>2, <2>b, <3>1, <3>4, <3>6 DEF Reached
  <2>9. CASE pollFails(p) \/ pollRefused(p)
    <3>1. afterId' = afterId /\ log' = log /\ poll'[p].pc = "idle"
      BY <2>9, PollSteps DEF pollFails, pollRefused, Becomes
    <3> QED
      BY <1>2, <2>2, <2>b, <2>4, <3>1 DEF Reached
  <2> QED
    BY <1>6, <2>5, <2>6, <2>7, <2>8, <2>9
<1>7. CASE UNCHANGED vars
  BY <1>1, <1>2, <1>7 DEF vars, PageOK
<1> QED
  BY <1>3, <1>4, <1>6, <1>7 DEF Next

\* A page shows the events of each run of the server in the order they were pushed
\* and none twice until two of its polls overlap, whatever the capacity and the
\* limit, although polls fail, the server restarts and an answer of an ended run
\* arrives late (getEvents, events.js).
THEOREM ShownAlwaysInOrder == Spec => []ShownInOrder
<1>1. BusOK /\ BusOK' /\ OrderOK /\ [Next]_vars => OrderOK'
  BY OrderNext DEF BusOK
<1>2. OrderOK => ShownInOrder
  BY DEF OrderOK, InOrder, ShownInOrder
<1> QED
  BY <1>1, <1>2, OrderInit, BusAlways, PTL DEF Spec
=============================================================================
