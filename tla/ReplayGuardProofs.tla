------------------------- MODULE ReplayGuardProofs -------------------------
(***************************************************************************)
(* Theorems about ReplayGuard, for every capacity and every set of         *)
(* sequence numbers.                                                       *)
(***************************************************************************)
EXTENDS ReplayGuard, FiniteSetTheorems, SequenceTheorems, TLAPS

\* The inductive invariant: the types, and the window against the history.
IInv == TypeOK /\ WindowInv

\* What remember() leaves of a window that does not contain s.
LEMMA RememberUnfolds ==
    ASSUME NEW w, NEW s, ~ contains(w, s)
    PROVE  remember(w, s) =
             [maxSeen |-> IF s > w.maxSeen THEN s ELSE w.maxSeen,
              seen    |-> IF Len(Append(w.order, s)) > Window
                          THEN (w.seen \cup {s}) \ {Head(Append(w.order, s))}
                          ELSE w.seen \cup {s},
              order   |-> IF Len(Append(w.order, s)) > Window
                          THEN Tail(Append(w.order, s))
                          ELSE Append(w.order, s)]
  BY DEF remember, evictOldestIfFull

\* accept() preserves the types.
LEMMA AcceptTypeOK ==
    ASSUME TypeOK, NEW s \in Seqs, accept(s)
    PROVE  TypeOK'
  <1>1. CASE contains(win, s)
    <2>1. UNCHANGED <<win, log>> /\ answer' = <<s, FALSE>>
      BY <1>1 DEF accept
    <2> QED
      BY <2>1 DEF TypeOK
  <1>2. CASE ~ contains(win, s)
    <2>1. /\ win' = remember(win, s)
          /\ log' = Append(log, s)
          /\ answer' = <<s, TRUE>>
      BY <1>2 DEF accept
    <2> DEFINE q == Append(win.order, s)
               m == IF s > win.maxSeen THEN s ELSE win.maxSeen
    <2>2. q \in Seq(Seqs) /\ q # << >> /\ log' \in Seq(Seqs)
      BY <2>1, AppendProperties DEF TypeOK
    <2>3. Tail(q) \in Seq(Seqs)
      BY <2>2, HeadTailProperties
    <2>4. m \in Nat /\ win.seen \cup {s} \in SUBSET Seqs
      BY SeqsAssumption DEF TypeOK
    <2>5. win' = [maxSeen |-> m,
                  seen    |-> IF Len(q) > Window THEN (win.seen \cup {s}) \ {Head(q)}
                                                 ELSE win.seen \cup {s},
                  order   |-> IF Len(q) > Window THEN Tail(q) ELSE q]
      BY <1>2, <2>1, RememberUnfolds
    <2> HIDE DEF q, m
    <2>6. win' \in [maxSeen : Nat, seen : SUBSET Seqs, order : Seq(Seqs)]
      BY <2>2, <2>3, <2>4, <2>5
    <2> QED
      BY <2>1, <2>2, <2>6 DEF TypeOK
  <1> QED
    BY <1>1, <1>2

\* Types hold in every reachable state, whatever the order of arrival.
THEOREM TypeCorrect == Spec => []TypeOK
  <1>1. Init => TypeOK
    BY EmptySeq DEF Init, TypeOK, FreshWindow
  <1>2. TypeOK /\ [Next]_vars => TypeOK'
    <2> SUFFICES ASSUME TypeOK, [Next]_vars PROVE TypeOK'
      OBVIOUS
    <2>1. CASE Next
      BY <2>1, AcceptTypeOK DEF Next
    <2>2. CASE UNCHANGED vars
      BY <2>2 DEF vars, TypeOK
    <2> QED
      BY <2>1, <2>2
  <1> QED
    BY <1>1, <1>2, PTL DEF Spec
-----------------------------------------------------------------------------
\* accept() keeps the deque, the lookup set and the maximum in step with the
\* history.
LEMMA AcceptWindowInv ==
    ASSUME IInv, NEW s \in Seqs, accept(s)
    PROVE  WindowInv'
  <1>1. CASE contains(win, s)
    <2>1. UNCHANGED <<win, log>>
      BY <1>1 DEF accept
    <2> QED
      BY <2>1 DEF IInv, WindowInv, OrderIsLogSuffix, SeenIsOrder, MaxSeenIsMaximum
  <1>2. CASE ~ contains(win, s)
    <2> DEFINE q == Append(win.order, s)
               n == Len(log)
               k == Len(win.order)
    <2>1. win' = remember(win, s) /\ log' = Append(log, s)
      BY <1>2 DEF accept
    <2>0. win' = [maxSeen |-> IF s > win.maxSeen THEN s ELSE win.maxSeen,
                  seen    |-> IF Len(q) > Window THEN (win.seen \cup {s}) \ {Head(q)}
                                                 ELSE win.seen \cup {s},
                  order   |-> IF Len(q) > Window THEN Tail(q) ELSE q]
      BY <1>2, <2>1, RememberUnfolds
    <2> HIDE DEF q
    <2>2. /\ win'.maxSeen = IF s > win.maxSeen THEN s ELSE win.maxSeen
          /\ win'.seen = IF Len(q) > Window THEN (win.seen \cup {s}) \ {Head(q)}
                                            ELSE win.seen \cup {s}
          /\ win'.order = IF Len(q) > Window THEN Tail(q) ELSE q
      BY <2>0
    <2>3. /\ win.order \in Seq(Seqs) /\ log \in Seq(Seqs)
          /\ n \in Nat /\ k \in Nat /\ win.maxSeen \in Nat /\ s \in Nat
          /\ \A i \in 1..n : log[i] \in Nat
      BY SeqsAssumption, ElementOfSeq, LenProperties DEF IInv, TypeOK
    <2>4. /\ q \in Seq(Seqs) /\ q # << >> /\ Len(q) = k + 1
          /\ \A i \in 1..k : q[i] = win.order[i]
          /\ q[k + 1] = s
      BY <2>3, AppendProperties, SMTT(30) DEF q
    <2>5. /\ Len(log') = n + 1 /\ log' # << >>
          /\ \A i \in 1..n : log'[i] = log[i]
          /\ log'[n + 1] = s
      BY <2>1, <2>3, AppendProperties
    <2>6. /\ Head(q) = q[1]
          /\ Len(Tail(q)) = k
          /\ \A i \in 1..k : Tail(q)[i] = q[i + 1]
      <3>1. Head(q) = q[1]
        BY <2>4
      <3>2. Len(Tail(q)) = Len(q) - 1 /\ \A i \in 1..Len(Tail(q)) : Tail(q)[i] = q[i + 1]
        BY <2>4, HeadTailProperties
      <3>3. Len(Tail(q)) = k
        BY <3>2, <2>3, <2>4
      <3> QED
        BY <3>1, <3>2, <3>3
    <2>7. /\ k = IF n < Window THEN n ELSE Window
          /\ \A i \in 1..k : win.order[i] = log[n - k + i]
      BY DEF IInv, WindowInv, OrderIsLogSuffix
    <2>8. /\ win.seen = {win.order[i] : i \in 1..k}
          /\ \A i, j \in 1..k : win.order[i] = win.order[j] => i = j
          /\ s \notin win.seen
      BY <1>2 DEF IInv, WindowInv, SeenIsOrder, contains
    <2>9. MaxSeenIsMaximum'
      <3>1. \A i \in 1..n : log[i] <= win.maxSeen
        BY DEF IInv, WindowInv, MaxSeenIsMaximum
      <3>2. \A i \in 1..(n + 1) : log'[i] <= win'.maxSeen
        BY <2>2, <2>3, <2>5, <3>1, SMTT(30)
      <3>3. \E i \in 1..(n + 1) : log'[i] = win'.maxSeen
        <4>1. CASE s > win.maxSeen
          BY <4>1, <2>2, <2>3, <2>5
        <4>2. CASE ~ (s > win.maxSeen) /\ log # << >>
          BY <4>2, <2>2, <2>3, <2>5 DEF IInv, WindowInv, MaxSeenIsMaximum
        <4>3. CASE ~ (s > win.maxSeen) /\ log = << >>
          BY <4>3, <2>2, <2>3, <2>5 DEF IInv, WindowInv, MaxSeenIsMaximum
        <4> QED
          BY <4>1, <4>2, <4>3
      <3> QED
        BY <2>5, <3>2, <3>3 DEF MaxSeenIsMaximum
    <2> HIDE DEF q, n, k
    <2>10. CASE Len(q) > Window
      <3>1. /\ win'.order = Tail(q) /\ Len(win'.order) = k /\ k = Window /\ n >= Window
            /\ \A i \in 1..k : win'.order[i] = q[i + 1]
        BY <2>2, <2>3, <2>4, <2>6, <2>7, <2>10, WindowAssumption, SMTT(30)
      <3>2. OrderIsLogSuffix'
        <4>1. \A i \in 1..k : win'.order[i] = log'[(n + 1) - k + i]
          <5> TAKE i \in 1..k
          <5>1. CASE i = k
            BY <5>1, <3>1, <2>3, <2>4, <2>5
          <5>2. CASE i # k
            <6>1. i + 1 \in 1..k /\ n - k + (i + 1) \in 1..n
                  /\ n - k + (i + 1) = (n + 1) - k + i
              BY <5>2, <3>1, <2>3, SMTT(30)
            <6> QED
              BY <6>1, <3>1, <2>4, <2>5, <2>7, ZenonT(40)
          <5> QED
            BY <5>1, <5>2
        <4>2. k = IF n + 1 < Window THEN n + 1 ELSE Window
          BY <3>1, <2>3, WindowAssumption
        <4> QED
          BY <4>1, <4>2, <3>1, <2>5 DEF OrderIsLogSuffix
      <3>3. \A i, j \in 1..(k + 1) : q[i] = q[j] => i = j
        BY <2>3, <2>4, <2>8, SMTT(30)
      <3>4. \A i, j \in 1..k : win'.order[i] = win'.order[j] => i = j
        BY <3>1, <3>3, <2>3
      <3>5. win'.seen = {win'.order[i] : i \in 1..k}
        <4>1. win.seen \cup {s} = {q[i] : i \in 1..(k + 1)}
          BY <2>3, <2>4, <2>8, SMTT(30)
        <4>2. win'.seen = {q[i] : i \in 1..(k + 1)} \ {q[1]}
          BY <4>1, <2>2, <2>6, <2>10
        <4>3. {q[i] : i \in 1..(k + 1)} \ {q[1]} = {q[i + 1] : i \in 1..k}
          <5>1. ASSUME NEW x \in {q[i] : i \in 1..(k + 1)} \ {q[1]}
                PROVE  x \in {q[i + 1] : i \in 1..k}
            <6>1. PICK i \in 1..(k + 1) : x = q[i]
              BY <5>1
            <6>2. i - 1 \in 1..k /\ (i - 1) + 1 = i
              BY <6>1, <5>1, <2>3
            <6> QED
              BY <6>1, <6>2
          <5>2. ASSUME NEW i \in 1..k
                PROVE  q[i + 1] \in {q[j] : j \in 1..(k + 1)} \ {q[1]}
            <6>1. i + 1 \in 1..(k + 1) /\ 1 \in 1..(k + 1) /\ i + 1 # 1
              BY <2>3
            <6> QED
              BY <6>1, <3>3
          <5> QED
            BY <5>1, <5>2
        <4>4. {q[i + 1] : i \in 1..k} = {win'.order[i] : i \in 1..k}
          BY <3>1
        <4> QED
          BY <4>2, <4>3, <4>4
      <3> QED
        BY <2>9, <3>1, <3>2, <3>4, <3>5 DEF WindowInv, SeenIsOrder
    <2>11. CASE ~ (Len(q) > Window)
      <3>1. win'.order = q /\ win'.seen = win.seen \cup {s} /\ k = n /\ n + 1 <= Window
        BY <2>2, <2>3, <2>4, <2>7, <2>11, WindowAssumption
      <3>2. OrderIsLogSuffix'
        <4>1. \A i \in 1..(k + 1) : q[i] = log'[(n + 1) - (k + 1) + i]
          BY <3>1, <2>3, <2>4, <2>5, <2>7, SMTT(30)
        <4> QED
          BY <4>1, <3>1, <2>3, <2>4, <2>5, WindowAssumption DEF OrderIsLogSuffix
      <3>3. SeenIsOrder'
        <4>1. win.seen \cup {s} = {q[i] : i \in 1..(k + 1)}
          BY <2>3, <2>4, <2>8, SMTT(30)
        <4>2. \A i, j \in 1..(k + 1) : q[i] = q[j] => i = j
          BY <2>3, <2>4, <2>8, SMTT(30)
        <4> QED
          BY <4>1, <4>2, <3>1, <2>4 DEF SeenIsOrder
      <3> QED
        BY <2>9, <3>2, <3>3 DEF WindowInv
    <2> QED
      BY <2>10, <2>11
  <1> QED
    BY <1>1, <1>2

\* IInv is inductive for Next, hence for the in-order environment too.
LEMMA IInvInit == Init => IInv
  <1> SUFFICES ASSUME Init PROVE IInv
    OBVIOUS
  <1>1. TypeOK
    BY EmptySeq DEF Init, TypeOK, FreshWindow
  <1>2. log = << >> /\ Len(log) = 0 /\ win.order = << >> /\ Len(win.order) = 0
        /\ win.seen = {} /\ win.maxSeen = 0
    BY DEF Init, FreshWindow
  <1>3. WindowInv
    BY <1>2, WindowAssumption DEF WindowInv, OrderIsLogSuffix, SeenIsOrder, MaxSeenIsMaximum
  <1> QED
    BY <1>1, <1>3 DEF IInv

\* Every step of the guard keeps the inductive invariant.
LEMMA IInvStep == IInv /\ [Next]_vars => IInv'
  <1> SUFFICES ASSUME IInv, [Next]_vars PROVE IInv'
    OBVIOUS
  <1>1. CASE Next
    BY <1>1, AcceptTypeOK, AcceptWindowInv DEF Next, IInv
  <1>2. CASE UNCHANGED vars
    <2>1. win' = win /\ log' = log /\ answer' = answer
      BY <1>2 DEF vars
    <2>2. TypeOK'
      BY <2>1 DEF IInv, TypeOK
    <2>3. WindowInv'
      BY <2>1 DEF IInv, WindowInv, OrderIsLogSuffix, SeenIsOrder, MaxSeenIsMaximum
    <2> QED
      BY <2>2, <2>3 DEF IInv
  <1> QED
    BY <1>1, <1>2

\* The containers of the window stay consistent with the history.
THEOREM WindowConsistent == Spec => []WindowInv
  <1>1. IInv => WindowInv
    BY DEF IInv
  <1> QED
    BY <1>1, IInvInit, IInvStep, PTL DEF Spec
-----------------------------------------------------------------------------
\* A forgotten number that nothing smaller followed would leave Window distinct
\* numbers in a range of Window - 1: the pigeonhole argument behind the
\* eviction order.
LEMMA WindowForgets == IInv => ForgottenOnlyWhenOvertaken
  <1> SUFFICES ASSUME IInv, NEW i \in 1..Len(log), ~ contains(win, log[i]),
                      \A j \in (i + 1)..Len(log) : ~ (log[j] < log[i])
               PROVE  FALSE
    BY DEF ForgottenOnlyWhenOvertaken
  <1> DEFINE s == log[i]
             n == Len(log)
             k == Len(win.order)
  <1>1. /\ n \in Nat /\ k \in Nat /\ win.maxSeen \in Nat /\ Window \in Nat \ {0}
        /\ \A j \in 1..n : log[j] \in Nat
    BY SeqsAssumption, WindowAssumption, ElementOfSeq, LenProperties DEF IInv, TypeOK
  <1>2. /\ k = IF n < Window THEN n ELSE Window
        /\ \A j \in 1..k : win.order[j] = log[n - k + j]
    BY DEF IInv, WindowInv, OrderIsLogSuffix
  <1>3. s \notin {win.order[j] : j \in 1..k}
    BY DEF IInv, WindowInv, SeenIsOrder, contains
  <1>4. s \in Nat /\ win.maxSeen < s + Window
    BY <1>1 DEF contains, isTooOld
  <1> HIDE DEF s, n, k
  <1>5. i \in 1..n /\ s = log[i] /\ \A j \in (i + 1)..n : ~ (log[j] < s)
    BY DEF s, n
  <1>6. i <= n - k
    <2> SUFFICES ASSUME ~ (i <= n - k) PROVE FALSE
      OBVIOUS
    <2>1. i - (n - k) \in 1..k /\ n - k + (i - (n - k)) = i
      BY <1>1, <1>5
    <2> QED
      BY <2>1, <1>2, <1>3, <1>5
  <1>7. k = Window
    BY <1>1, <1>2, <1>5, <1>6
  <1>8. \A j \in 1..Window : win.order[j] \in (s + 1)..(s + Window - 1)
    <2> TAKE j \in 1..Window
    <2>1. n - k + j \in (i + 1)..n /\ n - k + j \in 1..n
      BY <1>1, <1>5, <1>6, <1>7
    <2>2. win.order[j] = log[n - k + j] /\ win.order[j] # s
      BY <1>2, <1>3, <1>7
    <2>3. log[n - k + j] <= win.maxSeen
      BY <2>1 DEF IInv, WindowInv, MaxSeenIsMaximum, n
    <2> QED
      BY <2>1, <2>2, <2>3, <1>1, <1>4, <1>5, SMTT(30)
  <1> DEFINE S == 1..Window
             T == (s + 1)..(s + Window - 1)
             f == [j \in S |-> win.order[j]]
  <1>9. IsFiniteSet(S) /\ Cardinality(S) = Window
    <2>0. 1 \in Int /\ Window \in Int
      BY <1>1
    <2>1. /\ IsFiniteSet(S)
          /\ Cardinality(S) = IF 1 > Window THEN 0 ELSE Window - 1 + 1
      BY <2>0, FS_Interval, Zenon
    <2> QED
      BY <2>1, <1>1
  <1>10. IsFiniteSet(T) /\ Cardinality(T) = Window - 1
    <2>1. s + 1 \in Int /\ s + Window - 1 \in Int
      BY <1>1, <1>4
    <2>2. /\ IsFiniteSet(T)
          /\ Cardinality(T) = IF s + 1 > s + Window - 1 THEN 0
                              ELSE (s + Window - 1) - (s + 1) + 1
      BY <2>1, FS_Interval
    <2> QED
      BY <2>2, <1>1, <1>4
  <1>11. f \in [S -> T]
    BY <1>8
  <1>12. \E x, y \in S : x # y /\ f[x] = f[y]
    <2> HIDE DEF S, T, f
    <2> QED
      BY <1>1, <1>9, <1>10, <1>11, FS_PigeonHole
  <1>13. \A x, y \in S : win.order[x] = win.order[y] => x = y
    BY <1>7 DEF IInv, WindowInv, SeenIsOrder, k
  <1> QED
    BY <1>12, <1>13

\* Whatever the order of arrival, an accepted number becomes acceptable again
\* only after a smaller one was accepted after it.
THEOREM ForgetsOnlyOvertaken == Spec => []ForgottenOnlyWhenOvertaken
  BY IInvInit, IInvStep, WindowForgets, PTL DEF Spec

\* A refusal always has a cause: a copy, or a number below the live range.
THEOREM RefusalHasCause == Spec => RefusedOnlyWithCause
  <1> DEFINE Cause == (answer' # answer /\ answer'[2] = FALSE)
          => \E i \in 1..Len(log) : \/ log[i] = answer'[1]
                                    \/ answer'[1] + Window <= log[i]
  <1>1. ASSUME IInv, NEW s \in Seqs, accept(s)
        PROVE  Cause
    <2>1. CASE ~ contains(win, s)
      <3>1. answer' = <<s, TRUE>>
        BY <1>1, <2>1 DEF accept
      <3>2. answer'[2] # FALSE
        BY <3>1
      <3> QED
        BY <3>2
    <2>2. CASE contains(win, s)
      <3>1. answer'[1] = s
        BY <1>1, <2>2 DEF accept
      <3>2. /\ Len(log) \in Nat /\ Len(win.order) \in Nat /\ win.maxSeen \in Nat
            /\ s \in Nat /\ Window \in Nat \ {0}
        BY <1>1, SeqsAssumption, WindowAssumption, LenProperties DEF IInv, TypeOK
      <3>3. CASE s \in win.seen
        <4>1. PICK j \in 1..Len(win.order) : win.order[j] = s
          BY <1>1, <3>3 DEF IInv, WindowInv, SeenIsOrder
        <4>2. Len(win.order) <= Len(log)
          BY <1>1, <3>2 DEF IInv, WindowInv, OrderIsLogSuffix
        <4>3. Len(log) - Len(win.order) + j \in 1..Len(log)
          BY <3>2, <4>2
        <4>4. log[Len(log) - Len(win.order) + j] = s
          BY <1>1, <4>1 DEF IInv, WindowInv, OrderIsLogSuffix
        <4> QED
          BY <3>1, <4>3, <4>4
      <3>4. CASE isTooOld(win, s)
        <4>1. s + Window <= win.maxSeen /\ win.maxSeen # 0
          BY <3>2, <3>4 DEF isTooOld
        <4>2. \E i \in 1..Len(log) : log[i] = win.maxSeen
          BY <1>1, <4>1 DEF IInv, WindowInv, MaxSeenIsMaximum
        <4> QED
          BY <3>1, <4>1, <4>2
      <3> QED
        BY <2>2, <3>3, <3>4 DEF contains
    <2> QED
      BY <2>1, <2>2
  <1>2. IInv /\ [Next]_vars => [Cause]_vars
    BY <1>1 DEF Next
  <1> QED
    BY <1>2, IInvInit, IInvStep, PTL DEF Spec, RefusedOnlyWithCause
-----------------------------------------------------------------------------
(* The in-order environment.                                               *)

\* Nothing is overtaken when frames arrive in order.
Increasing == \A i, j \in 1..Len(log) : i < j => log[i] < log[j]

InOrderInv == IInv /\ Increasing

\* Delivery in order is a special case of delivery in any order.
LEMMA InOrderIsNext == [NextInOrder]_vars => [Next]_vars
  BY DEF NextInOrder, Next

\* In order, the window contains everything that was ever accepted.
LEMMA InOrderRemembers ==
    ASSUME InOrderInv
    PROVE  \A i \in 1..Len(log) : contains(win, log[i])
  <1> SUFFICES ASSUME NEW i \in 1..Len(log), ~ contains(win, log[i]) PROVE FALSE
    OBVIOUS
  <1>1. PICK j \in (i + 1)..Len(log) : log[j] < log[i]
    BY WindowForgets DEF InOrderInv, ForgottenOnlyWhenOvertaken
  <1>2. Len(log) \in Nat /\ log[i] \in Nat
    BY SeqsAssumption, ElementOfSeq, LenProperties DEF InOrderInv, IInv, TypeOK
  <1>3. j \in 1..Len(log) /\ i < j
    BY <1>2
  <1>4. log[i] < log[j] /\ log[j] \in Nat
    BY <1>3, SeqsAssumption, ElementOfSeq DEF InOrderInv, Increasing, IInv, TypeOK
  <1> QED
    BY <1>1, <1>2, <1>4

\* Every step with numbers in order keeps the invariant of that case.
LEMMA InOrderStep == InOrderInv /\ [NextInOrder]_vars => InOrderInv'
  <1> SUFFICES ASSUME InOrderInv, [NextInOrder]_vars PROVE InOrderInv'
    OBVIOUS
  <1>1. IInv'
    BY IInvStep, InOrderIsNext DEF InOrderInv
  <1>2. CASE UNCHANGED log
    BY <1>1, <1>2 DEF InOrderInv, Increasing
  <1>3. CASE ~ UNCHANGED log
    <2>1. PICK s \in Seqs : Ordered(s) /\ ~ contains(win, s) /\ log' = Append(log, s)
      BY <1>3 DEF NextInOrder, accept, vars
    <2>2. \A i \in 1..Len(log) : log[i] <= s /\ log[i] # s
      BY <2>1, InOrderRemembers DEF Ordered
    <2>3. /\ Len(log) \in Nat /\ s \in Nat /\ \A i \in 1..Len(log) : log[i] \in Nat
          /\ Len(log') = Len(log) + 1 /\ log'[Len(log) + 1] = s
          /\ \A i \in 1..Len(log) : log'[i] = log[i]
      <3>1. log \in Seq(Seqs) /\ Len(log) \in Nat /\ s \in Nat
        BY SeqsAssumption, LenProperties DEF InOrderInv, IInv, TypeOK
      <3>2. \A i \in 1..Len(log) : log[i] \in Nat
        BY <3>1, SeqsAssumption, ElementOfSeq
      <3> QED
        BY <2>1, <3>1, <3>2, AppendProperties
    <2>4. Increasing'
      <3> SUFFICES ASSUME NEW i \in 1..(Len(log) + 1), NEW j \in 1..(Len(log) + 1), i < j
                   PROVE  log'[i] < log'[j]
        BY <2>3 DEF Increasing
      <3>1. CASE j = Len(log) + 1
        BY <3>1, <2>2, <2>3
      <3>2. CASE j # Len(log) + 1
        <4>1. i \in 1..Len(log) /\ j \in 1..Len(log)
          BY <3>2, <2>3
        <4> QED
          BY <4>1, <2>3 DEF InOrderInv, Increasing
      <3> QED
        BY <3>1, <3>2
    <2> QED
      BY <1>1, <2>4 DEF InOrderInv
  <1> QED
    BY <1>2, <1>3

\* The invariant of delivery in order holds at the start.
LEMMA InOrderInit == Init => InOrderInv
  <1> SUFFICES ASSUME Init PROVE Increasing
    BY IInvInit DEF InOrderInv
  <1>1. Len(log) = 0
    BY DEF Init
  <1> QED
    BY <1>1 DEF Increasing

\* While frames arrive in order, no sequence number is accepted twice.
THEOREM InOrderNoDuplicate == InOrderSpec => []NoDuplicateAccepted
  <1>1. InOrderInv => NoDuplicateAccepted
    <2> SUFFICES ASSUME InOrderInv, NEW i \in 1..Len(log), NEW j \in 1..Len(log),
                        log[i] = log[j], i # j
                 PROVE  FALSE
      BY DEF NoDuplicateAccepted
    <2>1. Len(log) \in Nat /\ log[i] \in Nat
      BY SeqsAssumption, ElementOfSeq, LenProperties DEF InOrderInv, IInv, TypeOK
    <2>2. i < j \/ j < i
      BY <2>1
    <2> QED
      BY <2>1, <2>2 DEF InOrderInv, Increasing
  <1> QED
    BY <1>1, InOrderInit, InOrderStep, PTL DEF InOrderSpec

\* While frames arrive in order, the window implements ReplayPromise: what it
\* accepts is new and in range, what it refuses is a copy or out of range.
THEOREM InOrderRefinement == InOrderSpec => PromiseKept
  <1> DEFINE A == {log[i] : i \in 1..Len(log)}
  <1>1. Init => Promise!Init
    <2> SUFFICES ASSUME Init PROVE A = {} /\ answer = << >>
      BY DEF Promise!Init
    <2>1. Len(log) = 0 /\ answer = << >>
      BY DEF Init
    <2> QED
      BY <2>1
  <1>2. InOrderInv /\ [NextInOrder]_vars => [Promise!Next]_(Promise!vars)
    <2> SUFFICES ASSUME InOrderInv, [NextInOrder]_vars
                 PROVE  [Promise!Next]_(Promise!vars)
      OBVIOUS
    <2>1. CASE UNCHANGED vars
      BY <2>1 DEF vars, Promise!vars
    <2>2. ASSUME NEW s \in Seqs, Ordered(s), accept(s)
          PROVE  Promise!Next
      <3>1. /\ Len(log) \in Nat /\ s \in Nat /\ Window \in Nat \ {0} /\ win.maxSeen \in Nat
            /\ \A i \in 1..Len(log) : log[i] \in Nat
        BY SeqsAssumption, WindowAssumption, ElementOfSeq, LenProperties
           DEF InOrderInv, IInv, TypeOK
      <3>2. /\ log = << >> => win.maxSeen = 0
            /\ log # << >> => \E i \in 1..Len(log) : log[i] = win.maxSeen
            /\ \A i \in 1..Len(log) : log[i] <= win.maxSeen
        BY DEF InOrderInv, IInv, WindowInv, MaxSeenIsMaximum
      <3>3. isTooOld(win, s) <=> \E i \in 1..Len(log) : s + Window <= log[i]
        <4>1. isTooOld(win, s) => \E i \in 1..Len(log) : s + Window <= log[i]
          BY <3>1, <3>2 DEF isTooOld
        <4>2. ASSUME NEW i \in 1..Len(log), s + Window <= log[i]
              PROVE  isTooOld(win, s)
          <5>1. log[i] \in Nat /\ log[i] <= win.maxSeen
            BY <3>1, <3>2
          <5> QED
            BY <4>2, <5>1, <3>1, SMTT(30) DEF isTooOld
        <4> QED
          BY <4>1, <4>2
      <3>4. Promise!Stale(s) <=> isTooOld(win, s)
        BY <3>3 DEF Promise!Stale
      <3>5. CASE contains(win, s)
        <4>1. UNCHANGED <<win, log>> /\ answer' = <<s, FALSE>>
          BY <2>2, <3>5 DEF accept
        <4>2. s \in win.seen => s \in A
          <5> SUFFICES ASSUME s \in win.seen PROVE s \in A
            OBVIOUS
          <5>1. PICK j \in 1..Len(win.order) : win.order[j] = s
            BY DEF InOrderInv, IInv, WindowInv, SeenIsOrder
          <5>2. Len(win.order) \in Nat /\ Len(win.order) <= Len(log)
            BY <3>1, LenProperties
               DEF InOrderInv, IInv, TypeOK, WindowInv, OrderIsLogSuffix
          <5>3. Len(log) - Len(win.order) + j \in 1..Len(log)
            BY <3>1, <5>2
          <5>4. log[Len(log) - Len(win.order) + j] = s
            BY <5>1 DEF InOrderInv, IInv, WindowInv, OrderIsLogSuffix
          <5> QED
            BY <5>3, <5>4
        <4>3. s \in A \/ Promise!Stale(s)
          BY <3>4, <3>5, <4>2 DEF contains
        <4>4. Promise!Refuse(s)
          BY <4>1, <4>3 DEF Promise!Refuse
        <4> QED
          BY <4>4 DEF Promise!Next
      <3>6. CASE ~ contains(win, s)
        <4>1. log' = Append(log, s) /\ answer' = <<s, TRUE>>
          BY <2>2, <3>6 DEF accept
        <4>2. s \notin A
          BY <3>6, InOrderRemembers
        <4>3. ~ Promise!Stale(s)
          BY <3>4, <3>6 DEF contains
        <4>4. A' = A \cup {s}
          <5>1. /\ Len(log') = Len(log) + 1 /\ log'[Len(log) + 1] = s
                /\ \A i \in 1..Len(log) : log'[i] = log[i]
            BY <4>1, AppendProperties DEF InOrderInv, IInv, TypeOK
          <5> QED
            BY <5>1, <3>1
        <4>5. Promise!Accept(s)
          BY <4>1, <4>2, <4>3, <4>4 DEF Promise!Accept
        <4> QED
          BY <4>5 DEF Promise!Next
      <3> QED
        BY <3>5, <3>6
    <2> QED
      BY <2>1, <2>2 DEF NextInOrder
  <1> QED
    BY <1>1, <1>2, InOrderInit, InOrderStep, PTL DEF InOrderSpec, PromiseKept, Promise!Spec
=============================================================================
