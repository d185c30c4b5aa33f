-------------------------- MODULE TwoHandlersProofs --------------------------
(***************************************************************************)
(* Theorems about TwoHandlers, for every capacity of the window, every     *)
(* threshold and limit of the detector, and any number of frames and       *)
(* quarantines lifted.                                                     *)
(***************************************************************************)
EXTENDS TwoHandlers, FiniteSetTheorems, TLAPS

WindowType == [maxSeen : Nat, seen : SUBSET Nat, order : Seq(Nat)]

Busy(v) == v.pc \in Stages
-----------------------------------------------------------------------------
(* The inductive invariants.                                               *)

\* A crash ends both handlers.
CrashOK == \A g, h \in Handlers : At(g, "crashed") => At(h, "crashed")

\* A lookup follows the creation of the window, and the reason is ok until one.
StageOK ==
    \A h \in Handlers :
        /\ Busy(job[h]) /\ ~ At(h, "lookup") => win # NoWindow
        /\ job[h].pc \in {"lookup", "contains", "remember", "remembering", "policy"}
               => job[h].reason = "ok"

\* A frame that came in a quarantine is stopped by it at the latest in
\* checkQuarantine, because nobody but the administrator lifts it.
HeldOK ==
    \A h \in Handlers :
        Busy(job[h]) /\ job[h].wasHeld =>
            /\ isQuarantined(det)
            /\ job[h].pc \in {"lookup", "contains", "remember", "remembering", "detector"}

\* The deque of a window filled in order: the numbers are as far apart as their
\* positions, at least, and the last one is the highest.
Spread(q) == \A i, j \in 1..Len(q) : i <= j => q[i] + (j - i) <= q[j]

InOrder(w) ==
    /\ Spread(w.order) /\ Len(w.order) <= Window
    /\ w.seen = {w.order[i] : i \in 1..Len(w.order)}
    /\ w.maxSeen = (IF w.order = << >> THEN 0 ELSE w.order[Len(w.order)])

\* Without a race and in order, the window contains what was granted and what the
\* handlers have accepted, and so a frame granted before is found in it.
RememberedOK ==
    ~ raced /\ ~ reordered =>
        /\ win # NoWindow => InOrder(win)
        /\ win = NoWindow => granted = {}
        /\ \A n \in granted : contains(win, n)
        /\ \A h \in Handlers :
              Busy(job[h]) =>
                /\ job[h].pc \in {"detector", "sequence", "mismatch", "report", "policy"}
                     /\ job[h].reason = "ok" => contains(win, job[h].frame.seq)
                /\ job[h].wasGranted =>
                     /\ job[h].frame.seq \in granted
                     /\ job[h].pc \notin {"remember", "remembering", "policy"}
                     /\ job[h].pc \notin {"lookup", "contains"} => job[h].reason # "ok"

\* The maxima come from frames received.
KnownOK ==
    /\ win # NoWindow /\ win.maxSeen # 0 => \E g \in Received : g.seq = win.maxSeen
    /\ det.maxSeenSeq # 0 => \E g \in Received : g.seq = det.maxSeenSeq

\* What a handler will report has its cause already.
FrameOK ==
    \A h \in Handlers :
        Busy(job[h]) =>
            /\ job[h].frame \in Received
            /\ job[h].reason = "replay" => ReuseCause
            /\ job[h].reason = "decrypt_failed" => ~ job[h].frame.tagOk
            /\ job[h].pc = "mismatch" => ~ job[h].frame.nonceOk

\* Every copy of a number is in the window or on its way to it at most once.
OnItsWay(v, n) ==
    IF v.pc \in {"lookup", "contains", "remember", "remembering"} /\ v.frame.seq = n
    THEN 1 ELSE 0
Inserted(w, n) == IF w # NoWindow /\ n \in w.seen THEN 1 ELSE 0
CopiesOK ==
    \A n \in Nat :
        Inserted(win, n) + OnItsWay(job["endpoint"], n) + OnItsWay(job["local"], n) <= Copies(n)

\* Every wrong tag is counted once: before its report, or by the detector.
Unreported(v) == IF Busy(v) /\ ~ v.frame.tagOk THEN 1 ELSE 0
TagsOK ==
    det.consecutiveTagFails + Unreported(job["endpoint"]) + Unreported(job["local"]) <= WrongTags
-----------------------------------------------------------------------------
(* What the operators return.                                              *)

LEMMA FreshWindowType == FreshWindow \in WindowType /\ InOrder(FreshWindow)
<1>1. FreshWindow \in WindowType /\ FreshWindow.order = << >> /\ Len(<< >>) = 0
      /\ FreshWindow.seen = {} /\ FreshWindow.maxSeen = 0
  BY DEF FreshWindow, WindowType
<1> QED
  BY <1>1, WindowAssumption DEF InOrder, Spread

\* What remember() leaves of a window that does not contain s.
LEMMA RememberUnfolds ==
    ASSUME NEW w, NEW s, ~ contains(w, s)
    PROVE  remember(w, s) =
             [maxSeen |-> IF s > w.maxSeen THEN s ELSE w.maxSeen,
              seen    |-> IF Len(Append(w.order, s)) > Window
                          THEN (w.seen \cup {s}) \ {Head(Append(w.order, s))}
                          ELSE w.seen \cup {s},
              order   |-> IF Len(Append(w.order, s)) > Window
                          THEN Tail(Append(w.order, s))
                          ELSE Append(w.order, s)]
BY DEF remember, evictOldestIfFull

\* The deque with one number more, before and after the eviction.
LEMMA DequeFacts ==
    ASSUME NEW o \in Seq(Nat), NEW s \in Nat
    PROVE  /\ Append(o, s) \in Seq(Nat) /\ Len(o) \in Nat
           /\ Len(Append(o, s)) = Len(o) + 1
           /\ \A i \in 1..Len(o) : Append(o, s)[i] = o[i]
           /\ Append(o, s)[Len(o) + 1] = s
           /\ Head(Append(o, s)) = Append(o, s)[1]
           /\ Tail(Append(o, s)) \in Seq(Nat)
           /\ Len(Tail(Append(o, s))) = Len(o)
           /\ \A i \in 1..Len(o) : Tail(Append(o, s))[i] = Append(o, s)[i + 1]
<1> DEFINE q == Append(o, s)
<1>1. q \in Seq(Nat) /\ Len(o) \in Nat /\ Len(q) = Len(o) + 1 /\ q[Len(o) + 1] = s
      /\ \A i \in 1..Len(o) : q[i] = o[i]
  OBVIOUS
<1> HIDE DEF q
<1>2. Len(q) # 0
  BY <1>1
<1>3. q # << >>
  BY <1>2
<1>4. Head(q) = q[1] /\ Tail(q) \in Seq(Nat) /\ Len(Tail(q)) = Len(q) - 1
      /\ \A i \in 1..(Len(q) - 1) : Tail(q)[i] = q[i + 1]
  BY <1>1, <1>3
<1>5. Len(q) - 1 = Len(o)
  BY <1>1
<1> QED
  BY <1>1, <1>4, <1>5 DEF q

LEMMA RememberType ==
    ASSUME NEW w \in WindowType, NEW s \in Nat
    PROVE  /\ remember(w, s) \in WindowType
           /\ remember(w, s).seen \subseteq w.seen \cup {s}
           /\ remember(w, s).maxSeen \in {w.maxSeen, s}
           /\ remember(w, s).maxSeen >= w.maxSeen
<1>1. w.maxSeen \in Nat /\ w.seen \in SUBSET Nat /\ w.order \in Seq(Nat)
  BY DEF WindowType
<1>2. CASE contains(w, s)
  <2>1. remember(w, s) = w
    BY <1>2 DEF remember
  <2> QED
    BY <1>1, <2>1
<1>3. CASE ~ contains(w, s)
  <2> DEFINE q == Append(w.order, s)
             m == IF s > w.maxSeen THEN s ELSE w.maxSeen
             k == IF Len(q) > Window THEN (w.seen \cup {s}) \ {Head(q)} ELSE w.seen \cup {s}
             o == IF Len(q) > Window THEN Tail(q) ELSE q
  <2>1. remember(w, s) = [maxSeen |-> m, seen |-> k, order |-> o]
    BY <1>3, RememberUnfolds
  <2>2. m \in Nat /\ m \in {w.maxSeen, s} /\ m >= w.maxSeen
    BY <1>1
  <2>3. o \in Seq(Nat)
    <3>1. q \in Seq(Nat) /\ Tail(q) \in Seq(Nat)
      BY <1>1, DequeFacts
    <3> HIDE DEF q
    <3> QED
      BY <3>1
  <2>4. k \subseteq w.seen \cup {s}
    <3> HIDE DEF q
    <3> QED
      OBVIOUS
  <2> HIDE DEF m, k, o
  <2> QED
    BY <1>1, <2>1, <2>2, <2>3, <2>4 DEF WindowType
<1> QED
  BY <1>2, <1>3

\* A number that comes in order leaves a window in order, which still contains
\* what it contained: an evicted number is too old by then.
LEMMA RememberInOrder ==
    ASSUME NEW w \in WindowType, NEW s \in Nat, InOrder(w),
           remember(w, s) = w \/ ~ (s < w.maxSeen)
    PROVE  /\ InOrder(remember(w, s)) /\ contains(remember(w, s), s)
           /\ \A n \in Nat : contains(w, n) => contains(remember(w, s), n)
<1>0. Window \in Nat /\ Window # 0 /\ Window >= 1
  BY WindowAssumption
<1>1. w.maxSeen \in Nat /\ w.seen \in SUBSET Nat /\ w.order \in Seq(Nat) /\ Len(w.order) \in Nat
  BY DEF WindowType
<1>2. CASE contains(w, s)
  <2>1. remember(w, s) = w
    BY <1>2 DEF remember
  <2> QED
    BY <1>2, <2>1
<1>3. CASE ~ contains(w, s)
  <2> DEFINE q == Append(w.order, s)
             m == IF s > w.maxSeen THEN s ELSE w.maxSeen
             k == IF Len(q) > Window THEN (w.seen \cup {s}) \ {Head(q)} ELSE w.seen \cup {s}
             o == IF Len(q) > Window THEN Tail(q) ELSE q
             v == [maxSeen |-> m, seen |-> k, order |-> o]
  <2>1. remember(w, s) = v
    BY <1>3, RememberUnfolds
  <2>2. /\ q \in Seq(Nat) /\ Len(q) = Len(w.order) + 1
        /\ \A i \in 1..Len(w.order) : q[i] = w.order[i]
        /\ q[Len(w.order) + 1] = s
        /\ Head(q) = q[1] /\ Tail(q) \in Seq(Nat) /\ Len(Tail(q)) = Len(w.order)
        /\ \A i \in 1..Len(w.order) : Tail(q)[i] = q[i + 1]
    BY <1>1, DequeFacts, ZenonT(40)
  <2> HIDE DEF q
  <2>3. s \notin w.seen /\ ~ isTooOld(w, s)
    BY <1>3 DEF contains
  <2>4. /\ \A i, j \in 1..Len(w.order) : i <= j => w.order[i] + (j - i) <= w.order[j]
        /\ Len(w.order) <= Window
        /\ w.seen = {w.order[i] : i \in 1..Len(w.order)}
        /\ w.maxSeen = (IF w.order = << >> THEN 0 ELSE w.order[Len(w.order)])
    BY DEF InOrder, Spread
  <2> DEFINE l == Len(w.order)
  <2>5. l \in Nat /\ (w.order = << >> <=> l = 0)
    BY <1>1
  <2> HIDE DEF l
  <2>6. ~ (s < w.maxSeen)
    <3> SUFFICES ASSUME remember(w, s) = w
                 PROVE  FALSE
      OBVIOUS
    <3>1. o = w.order
      BY <2>1
    <3>2. CASE Len(q) > Window
      <4>1. l \in 1..l /\ Tail(q)[l] = q[l + 1]
        BY <1>0, <2>2, <2>5, <3>2, SMTT(30) DEF l
      <4>2. w.order[l] = s
        BY <2>2, <3>1, <3>2, <4>1 DEF l
      <4> QED
        BY <2>3, <2>4, <4>1, <4>2 DEF l
    <3>3. CASE ~ (Len(q) > Window)
      <4>1. Len(q) = Len(w.order)
        BY <3>1, <3>3
      <4> QED
        BY <1>1, <2>2, <4>1
    <3> QED
      BY <3>2, <3>3
  <2>7. \A i \in 1..l : w.order[i] \in Nat /\ w.order[i] \in w.seen /\ w.order[i] + (l - i) <= w.maxSeen
    <3> SUFFICES ASSUME NEW i \in 1..l
                 PROVE  /\ w.order[i] \in Nat /\ w.order[i] \in w.seen
                        /\ w.order[i] + (l - i) <= w.maxSeen
      OBVIOUS
    <3>1. l \in 1..l /\ w.order # << >> /\ i <= l
      BY <2>5
    <3>2. w.maxSeen = w.order[l]
      BY <2>4, <3>1 DEF l
    <3>3. w.order[i] + (l - i) <= w.order[l]
      BY <2>4, <3>1 DEF l
    <3>4. w.order[i] \in Nat /\ w.order[i] \in w.seen
      BY <1>1, <2>4 DEF l
    <3> QED
      BY <3>2, <3>3, <3>4
  <2>8. \A i \in 1..l : q[i] \in Nat /\ q[i] + (l + 1 - i) <= s
    <3> SUFFICES ASSUME NEW i \in 1..l
                 PROVE  q[i] \in Nat /\ q[i] + (l + 1 - i) <= s
      OBVIOUS
    <3>1. l \in 1..l /\ w.order # << >>
      BY <2>5
    <3>2. w.order[l] = w.maxSeen /\ w.order[l] \in w.seen
      BY <2>4, <2>7, <3>1 DEF l
    <3>3. s # w.maxSeen
      BY <2>3, <3>2
    <3>4. w.maxSeen + 1 <= s
      BY <1>1, <2>6, <3>3
    <3>5. w.order[i] \in Nat /\ w.order[i] + (l - i) <= w.maxSeen
      BY <2>7
    <3>6. w.order[i] + (l + 1 - i) <= s
      BY <1>1, <2>5, <3>4, <3>5, SMTT(30)
    <3> QED
      BY <2>2, <3>5, <3>6 DEF l
  <2>9. q[l + 1] = s /\ Len(q) = l + 1 /\ m = s
    BY <1>1, <2>2, <2>6 DEF l
  <2>10. Spread(q)
    <3> SUFFICES ASSUME NEW i \in 1..(l + 1), NEW j \in 1..(l + 1), i <= j
                 PROVE  q[i] + (j - i) <= q[j]
      BY <2>9 DEF Spread
    <3>1. CASE j \in 1..l
      <4>1. i \in 1..l
        BY <2>5, <3>1
      <4> QED
        BY <2>2, <2>4, <3>1, <4>1 DEF l
    <3>2. CASE j = l + 1 /\ i \in 1..l
      <4>1. q[i] + (l + 1 - i) <= s
        BY <2>8, <3>2
      <4> QED
        <5>1. q[j] = s /\ j - i = l + 1 - i
          BY <2>5, <2>9, <3>2
        <5> QED
          BY <4>1, <5>1
    <3>3. CASE j = l + 1 /\ i = l + 1
      BY <2>5, <2>9, <3>3
    <3> QED
      BY <2>5, <3>1, <3>2, <3>3
  <2>11. w.seen \cup {s} = {q[i] : i \in 1..(l + 1)}
    <3>1. \A n \in w.seen : \E i \in 1..(l + 1) : n = q[i]
      <4> SUFFICES ASSUME NEW n \in w.seen
                   PROVE  \E i \in 1..(l + 1) : n = q[i]
        OBVIOUS
      <4>1. PICK i \in 1..l : n = w.order[i]
        BY <2>4 DEF l
      <4>2. i \in 1..(l + 1) /\ q[i] = w.order[i]
        BY <2>2, <2>5, SMTT(30) DEF l
      <4> QED
        BY <4>1, <4>2
    <3>2. \A i \in 1..(l + 1) : q[i] \in w.seen \/ q[i] = s
      <4>1. \A i \in 1..(l + 1) : i \in 1..l \/ i = l + 1
        BY <2>5
      <4>2. \A i \in 1..l : q[i] \in w.seen
        BY <2>2, <2>7 DEF l
      <4> QED
        BY <2>9, <4>1, <4>2
    <3>3. l + 1 \in 1..(l + 1)
      BY <2>5
    <3> QED
      BY <2>9, <3>1, <3>2, <3>3
  <2>12. CASE ~ (Len(q) > Window)
    <3>1. o = q /\ k = w.seen \cup {s}
      BY <2>12
    <3>2. v.order = q /\ v.seen = w.seen \cup {s} /\ v.maxSeen = s
      BY <2>9, <3>1
    <3>3. q # << >> /\ Len(q) <= Window
      BY <1>0, <2>5, <2>9, <2>12
    <3>4. InOrder(v)
      <4> HIDE DEF v
      <4>1. v.seen = {v.order[i] : i \in 1..Len(v.order)}
        BY <2>9, <2>11, <3>2
      <4>2. v.maxSeen = v.order[Len(v.order)] /\ v.order # << >>
        BY <2>9, <3>2, <3>3
      <4>3. Spread(v.order) /\ Len(v.order) <= Window
        BY <2>10, <3>2, <3>3
      <4> QED
        BY <4>1, <4>2, <4>3 DEF InOrder
    <3>5. contains(v, s)
      BY <3>2 DEF contains
    <3>6. ASSUME NEW n \in Nat, contains(w, n)
          PROVE  contains(v, n)
      <4>1. CASE n \in w.seen
        BY <3>2, <4>1 DEF contains
      <4>2. CASE isTooOld(w, n)
        BY <1>0, <1>1, <2>6, <3>2, <4>2 DEF isTooOld, contains
      <4> QED
        BY <3>6, <4>1, <4>2 DEF contains
    <3> HIDE DEF v
    <3> QED
      BY <2>1, <3>4, <3>5, <3>6
  <2>13. CASE Len(q) > Window
    <3>1. o = Tail(q) /\ k = (w.seen \cup {s}) \ {q[1]}
      BY <2>2, <2>13
    <3>2. v.order = Tail(q) /\ v.seen = (w.seen \cup {s}) \ {q[1]} /\ v.maxSeen = s
      BY <2>9, <3>1
    <3> DEFINE t == Tail(q)
    <3>3. l = Window /\ Len(t) = l /\ \A i \in 1..l : t[i] = q[i + 1]
      BY <1>0, <2>2, <2>4, <2>5, <2>9, <2>13 DEF l
    <3> HIDE DEF t
    <3>4. Spread(t)
      <4> SUFFICES ASSUME NEW i \in 1..l, NEW j \in 1..l, i <= j
                   PROVE  t[i] + (j - i) <= t[j]
        BY <3>3 DEF Spread
      <4>1. i + 1 \in 1..(l + 1) /\ j + 1 \in 1..(l + 1) /\ i + 1 <= j + 1
            /\ (j + 1) - (i + 1) = j - i
        BY <2>5
      <4>2. q[i + 1] + ((j + 1) - (i + 1)) <= q[j + 1]
        BY <2>9, <2>10, <4>1 DEF Spread
      <4> QED
        BY <3>3, <4>1, <4>2
    <3>5. \A i \in 1..l : q[i + 1] # q[1]
      <4> SUFFICES ASSUME NEW i \in 1..l
                   PROVE  q[i + 1] # q[1]
        OBVIOUS
      <4>1. 1 \in 1..(l + 1) /\ i + 1 \in 1..(l + 1) /\ 1 <= i + 1
        BY <2>5
      <4>2. q[1] \in Nat /\ q[i + 1] \in Nat
        BY <2>2, <2>9, <4>1, SMTT(30)
      <4>3. q[1] + ((i + 1) - 1) <= q[i + 1]
        BY <2>9, <2>10, <4>1 DEF Spread
      <4> QED
        BY <2>5, <4>2, <4>3
    <3>6. {q[i] : i \in 1..(l + 1)} \ {q[1]} = {t[i] : i \in 1..l}
      <4>1. \A i \in 1..(l + 1) : i = 1 \/ (i - 1 \in 1..l /\ t[i - 1] = q[i])
        BY <2>5, <3>3
      <4>2. \A i \in 1..l : i + 1 \in 1..(l + 1) /\ t[i] = q[i + 1] /\ q[i + 1] # q[1]
        BY <2>5, <3>3, <3>5
      <4> QED
        BY <4>1, <4>2
    <3>7. l \in 1..l /\ t[l] = s /\ t # << >>
      BY <1>0, <2>5, <2>9, <3>3
    <3>8. InOrder(v)
      <4>0. v.order = t
        BY <3>2 DEF t
      <4> HIDE DEF v
      <4>1. v.seen = {v.order[i] : i \in 1..Len(v.order)}
        <5>1. v.seen = {t[i] : i \in 1..l}
          BY <2>11, <3>2, <3>6
        <5> QED
          BY <3>3, <4>0, <5>1
      <4>2. v.maxSeen = v.order[Len(v.order)] /\ v.order # << >>
        BY <3>2, <3>3, <3>7, <4>0
      <4>3. Spread(v.order) /\ Len(v.order) <= Window
        BY <1>0, <3>3, <3>4, <4>0
      <4> QED
        BY <4>1, <4>2, <4>3 DEF InOrder
    <3>9. s # q[1]
      BY <2>9, <3>5, <3>7
    <3>10. contains(v, s)
      BY <3>2, <3>9 DEF contains
    <3>11. isTooOld(v, q[1])
      <4>1. 1 \in 1..l /\ q[1] \in Nat /\ q[1] + (l + 1 - 1) <= s
        BY <1>0, <2>5, <2>8, <3>3
      <4> QED
        BY <1>0, <3>2, <3>3, <4>1, SMTT(30) DEF isTooOld
    <3>12. ASSUME NEW n \in Nat, contains(w, n)
           PROVE  contains(v, n)
      <4>1. CASE n \in w.seen
        BY <3>2, <3>11, <4>1 DEF contains
      <4>2. CASE isTooOld(w, n)
        BY <1>0, <1>1, <2>6, <3>2, <4>2 DEF isTooOld, contains
      <4> QED
        BY <3>12, <4>1, <4>2 DEF contains
    <3> HIDE DEF v
    <3> QED
      BY <2>1, <3>8, <3>10, <3>12
  <2> QED
    BY <2>12, <2>13
<1> QED
  BY <1>2, <1>3

\* What each report does to the state of the reader.
LEMMA DetectorFacts ==
    ASSUME NEW d \in ReaderState, NEW s \in Nat
    PROVE  /\ FreshReader \in ReaderState
           /\ reportSeq(d, s) \in ReaderState
           /\ reportSeq(d, s).maxSeenSeq \in {d.maxSeenSeq, s}
           /\ reportSeq(d, s).consecutiveTagFails = d.consecutiveTagFails
           /\ reportSeq(d, s).quarantine = (IF RollsBack(d, s) THEN "seq_rollback"
                                                               ELSE d.quarantine)
           /\ reportReplay(d) \in ReaderState
           /\ reportReplay(d).maxSeenSeq = d.maxSeenSeq
           /\ reportReplay(d).consecutiveTagFails = d.consecutiveTagFails
           /\ reportReplay(d).quarantine = "seq_reuse"
           /\ reportNonceMismatch(d) \in ReaderState
           /\ reportNonceMismatch(d).maxSeenSeq = d.maxSeenSeq
           /\ reportNonceMismatch(d).consecutiveTagFails = d.consecutiveTagFails
           /\ reportNonceMismatch(d).quarantine = "nonce_mismatch"
           /\ reportTagFailure(d) \in ReaderState
           /\ reportTagFailure(d).maxSeenSeq = d.maxSeenSeq
           /\ reportTagFailure(d).consecutiveTagFails = d.consecutiveTagFails + 1
           /\ reportTagFailure(d).quarantine =
                 (IF d.consecutiveTagFails + 1 >= TagFailStreakLimit THEN "tag_fail_streak"
                                                                     ELSE d.quarantine)
           /\ reportSuccess(d, s) \in ReaderState
           /\ reportSuccess(d, s).maxSeenSeq \in {d.maxSeenSeq, s}
           /\ reportSuccess(d, s).consecutiveTagFails = 0
           /\ reportSuccess(d, s).quarantine = d.quarantine
           /\ unquarantine(d) \in ReaderState
           /\ unquarantine(d).maxSeenSeq = d.maxSeenSeq
           /\ unquarantine(d).consecutiveTagFails \in {d.consecutiveTagFails, 0}
           /\ unquarantine(d).quarantine = NotQuarantined
<1> USE DEF ReaderState, AnomalyType, NotQuarantined, doQuarantine
<1>1. FreshReader \in ReaderState
  BY DEF FreshReader
<1>2. /\ RaiseMaxSeen(d, s) \in ReaderState
      /\ RaiseMaxSeen(d, s).maxSeenSeq \in {d.maxSeenSeq, s}
      /\ RaiseMaxSeen(d, s).consecutiveTagFails = d.consecutiveTagFails
      /\ RaiseMaxSeen(d, s).quarantine = d.quarantine
  BY DEF RaiseMaxSeen
<1>3. \A why \in AnomalyType :
        /\ doQuarantine(d, why) \in ReaderState
        /\ doQuarantine(d, why).maxSeenSeq = d.maxSeenSeq
        /\ doQuarantine(d, why).consecutiveTagFails = d.consecutiveTagFails
        /\ doQuarantine(d, why).quarantine = why
  OBVIOUS
<1>4. /\ reportSeq(d, s) \in ReaderState
      /\ reportSeq(d, s).maxSeenSeq \in {d.maxSeenSeq, s}
      /\ reportSeq(d, s).consecutiveTagFails = d.consecutiveTagFails
      /\ reportSeq(d, s).quarantine = (IF RollsBack(d, s) THEN "seq_rollback"
                                                          ELSE d.quarantine)
  BY <1>2, <1>3 DEF reportSeq
<1>5. /\ reportReplay(d) \in ReaderState
      /\ reportReplay(d).maxSeenSeq = d.maxSeenSeq
      /\ reportReplay(d).consecutiveTagFails = d.consecutiveTagFails
      /\ reportReplay(d).quarantine = "seq_reuse"
      /\ reportNonceMismatch(d) \in ReaderState
      /\ reportNonceMismatch(d).maxSeenSeq = d.maxSeenSeq
      /\ reportNonceMismatch(d).consecutiveTagFails = d.consecutiveTagFails
      /\ reportNonceMismatch(d).quarantine = "nonce_mismatch"
  BY <1>3 DEF reportReplay, reportNonceMismatch
<1>6. /\ reportTagFailure(d) \in ReaderState
      /\ reportTagFailure(d).maxSeenSeq = d.maxSeenSeq
      /\ reportTagFailure(d).consecutiveTagFails = d.consecutiveTagFails + 1
      /\ reportTagFailure(d).quarantine =
            (IF d.consecutiveTagFails + 1 >= TagFailStreakLimit THEN "tag_fail_streak"
                                                                ELSE d.quarantine)
  <2> DEFINE n == [d EXCEPT !.consecutiveTagFails = @ + 1]
  <2>1. /\ n \in ReaderState /\ n.maxSeenSeq = d.maxSeenSeq
        /\ n.consecutiveTagFails = d.consecutiveTagFails + 1 /\ n.quarantine = d.quarantine
    OBVIOUS
  <2>2. reportTagFailure(d) = (IF n.consecutiveTagFails >= TagFailStreakLimit
                               THEN doQuarantine(n, "tag_fail_streak") ELSE n)
    BY DEF reportTagFailure
  <2> HIDE DEF n
  <2>3. /\ doQuarantine(n, "tag_fail_streak") \in ReaderState
        /\ doQuarantine(n, "tag_fail_streak").maxSeenSeq = n.maxSeenSeq
        /\ doQuarantine(n, "tag_fail_streak").consecutiveTagFails = n.consecutiveTagFails
        /\ doQuarantine(n, "tag_fail_streak").quarantine = "tag_fail_streak"
    BY <2>1
  <2> HIDE DEF doQuarantine
  <2> QED
    BY <2>1, <2>2, <2>3
<1>7. /\ reportSuccess(d, s) \in ReaderState
      /\ reportSuccess(d, s).maxSeenSeq \in {d.maxSeenSeq, s}
      /\ reportSuccess(d, s).consecutiveTagFails = 0
      /\ reportSuccess(d, s).quarantine = d.quarantine
  BY DEF reportSuccess, RaiseMaxSeen
<1>8. /\ unquarantine(d) \in ReaderState
      /\ unquarantine(d).maxSeenSeq = d.maxSeenSeq
      /\ unquarantine(d).consecutiveTagFails \in {d.consecutiveTagFails, 0}
      /\ unquarantine(d).quarantine = NotQuarantined
  BY DEF unquarantine, isQuarantined
<1> QED
  BY <1>1, <1>4, <1>5, <1>6, <1>7, <1>8
-----------------------------------------------------------------------------
(* What the steps do to the jobs.                                          *)

JobsType == [Handlers -> {Idle, Crashed} \cup JobType]

Others(h) == \A o \in Handlers : o # h => job'[o] = job[o]

\* h goes on, or returns.
Moves(h, to) ==
    /\ job[h] \in JobType /\ job' \in JobsType /\ Others(h)
    /\ job'[h] \in JobType /\ job'[h].pc = to
    /\ job'[h].frame = job[h].frame /\ job'[h].reason = job[h].reason
    /\ job'[h].wasGranted = job[h].wasGranted /\ job'[h].wasHeld = job[h].wasHeld

Leaves(h) == job[h] \in JobType /\ job' \in JobsType /\ Others(h) /\ job'[h] = Idle

LEMMA BusyJobs ==
    ASSUME TypeOK, NEW h \in Handlers
    PROVE  /\ job \in JobsType
           /\ Busy(job[h]) <=> job[h] \in JobType
           /\ Idle.pc = "idle" /\ ~ Busy(Idle) /\ ~ Busy(Crashed)
<1>1. job[h] \in {Idle, Crashed} \cup JobType /\ job \in JobsType
  BY DEF TypeOK, JobsType
<1>2. ~ Busy(Idle) /\ ~ Busy(Crashed) /\ Idle.pc = "idle"
  BY DEF Busy, Stages, Idle, Crashed
<1>3. \A v \in JobType : Busy(v)
  BY DEF Busy, JobType
<1> QED
  BY <1>1, <1>2, <1>3

LEMMA GotoMoves ==
    ASSUME TypeOK, NEW h \in Handlers, job[h] \in JobType, NEW to \in Stages, Goto(h, to)
    PROVE  Moves(h, to)
<1>1. job \in JobsType
  BY BusyJobs
<1>2. to # "idle"
  BY DEF Stages
<1> DEFINE v == [job[h] EXCEPT !.pc = to]
<1>3. job' = [job EXCEPT ![h] = v]
  BY <1>2 DEF Goto
<1>4. /\ v \in JobType /\ v.pc = to /\ v.frame = job[h].frame /\ v.reason = job[h].reason
      /\ v.wasGranted = job[h].wasGranted /\ v.wasHeld = job[h].wasHeld
  BY DEF JobType
<1> HIDE DEF v
<1>5. job'[h] = v /\ job' \in JobsType /\ Others(h)
  BY <1>1, <1>3, <1>4 DEF JobsType, Others
<1> QED
  BY <1>4, <1>5 DEF Moves

LEMMA GotoLeaves ==
    ASSUME TypeOK, NEW h \in Handlers, job[h] \in JobType, Goto(h, "idle")
    PROVE  Leaves(h)
<1>1. job \in JobsType
  BY BusyJobs
<1>2. job' = [job EXCEPT ![h] = Idle]
  BY DEF Goto
<1> QED
  BY <1>1, <1>2 DEF JobsType, Others, Leaves

\* A request begins.
Begins(h, f) ==
    /\ job' \in JobsType /\ Others(h)
    /\ job'[h] \in JobType /\ job'[h].pc = "lookup"
    /\ job'[h].frame = f /\ job'[h].reason = "ok"
    /\ job'[h].wasGranted = (f.seq \in granted) /\ job'[h].wasHeld = isQuarantined(det)

LEMMA ReceiveBegins ==
    ASSUME TypeOK, NEW h \in Handlers, NEW f \in Frames, Receive(h, f)
    PROVE  Begins(h, f)
<1>1. job \in JobsType
  BY BusyJobs
<1> DEFINE v == [pc |-> "lookup", frame |-> f, reason |-> "ok",
                 wasGranted |-> f.seq \in granted, wasHeld |-> isQuarantined(det)]
<1>2. job' = [job EXCEPT ![h] = v]
  BY DEF Receive
<1>3. (f.seq \in granted) \in BOOLEAN /\ isQuarantined(det) \in BOOLEAN
  BY DEF isQuarantined
<1>4. "lookup" \in Stages
  BY DEF Stages
<1>5. v \in JobType
  BY <1>3, <1>4 DEF JobType
<1>6. v.pc = "lookup" /\ v.frame = f /\ v.reason = "ok"
  OBVIOUS
<1>7. v.wasGranted = (f.seq \in granted) /\ v.wasHeld = isQuarantined(det)
  BY Zenon
<1> HIDE DEF v
<1>8. job'[h] = v /\ job' \in JobsType /\ Others(h)
  BY <1>1, <1>2, <1>5 DEF JobsType, Others
<1> QED
  BY <1>5, <1>6, <1>7, <1>8 DEF Begins

\* A frame is looked up and decrypted.
Judged(h, why) ==
    /\ job[h] \in JobType /\ job' \in JobsType /\ Others(h)
    /\ job'[h] \in JobType /\ job'[h].pc = (IF why = "ok" THEN "remember" ELSE "detector")
    /\ job'[h].frame = job[h].frame /\ job'[h].reason = why
    /\ job'[h].wasGranted = job[h].wasGranted /\ job'[h].wasHeld = job[h].wasHeld

LEMMA ReplayJudged ==
    ASSUME TypeOK, NEW h \in Handlers, job[h] \in JobType, checkReplay(h)
    PROVE  \E found \in LookupResults(job[h].frame.seq) :
               Judged(h, IF found THEN "replay"
                         ELSE IF ~ job[h].frame.tagOk THEN "decrypt_failed" ELSE "ok")
<1>1. job \in JobsType
  BY BusyJobs
<1>2. PICK found \in LookupResults(job[h].frame.seq) :
         LET why == IF found THEN "replay"
                    ELSE IF ~ job[h].frame.tagOk THEN "decrypt_failed"
                    ELSE "ok"
         IN  job' = [job EXCEPT ![h].reason = why,
                                ![h].pc = IF why = "ok" THEN "remember" ELSE "detector"]
  BY DEF checkReplay
<1> DEFINE why == IF found THEN "replay"
                  ELSE IF ~ job[h].frame.tagOk THEN "decrypt_failed" ELSE "ok"
           to == IF why = "ok" THEN "remember" ELSE "detector"
<1>3. why \in {"ok", "replay", "decrypt_failed"} /\ to \in Stages
  BY DEF Stages
<1>4. job' = [job EXCEPT ![h].reason = why, ![h].pc = to]
  BY <1>2
<1>5. to = (IF why = "ok" THEN "remember" ELSE "detector")
  OBVIOUS
<1> HIDE DEF why, to
<1> DEFINE v == [job[h] EXCEPT !.reason = why, !.pc = to]
<1>6. /\ v \in JobType /\ v.pc = to /\ v.frame = job[h].frame /\ v.reason = why
      /\ v.wasGranted = job[h].wasGranted /\ v.wasHeld = job[h].wasHeld
  BY <1>3 DEF JobType
<1>7. job' = [job EXCEPT ![h] = v]
  BY <1>1, <1>4 DEF JobsType
<1> HIDE DEF v
<1>8. job'[h] = v /\ job' \in JobsType /\ Others(h)
  BY <1>1, <1>6, <1>7 DEF JobsType, Others
<1>9. Judged(h, why)
  BY <1>5, <1>6, <1>8 DEF Judged
<1> QED
  BY <1>9 DEF why
-----------------------------------------------------------------------------
(* The steps of a handler, with what they do to its job.                   *)

Verdict(found, f) == IF found THEN "replay" ELSE IF ~ f.tagOk THEN "decrypt_failed" ELSE "ok"

Looks(h, found) ==
    checkReplay(h) /\ found \in LookupResults(job[h].frame.seq)
    /\ Judged(h, Verdict(found, job[h].frame))

Stops(h)   == checkQuarantine(h) /\ isQuarantined(det) /\ Leaves(h)
Passes(h)  == checkQuarantine(h) /\ ~ isQuarantined(det) /\ Moves(h, "sequence")

DropsBack(h)  == checkSequence(h) /\ job[h].frame.seq > 0 /\ RollsBack(det, job[h].frame.seq)
                 /\ Leaves(h)
FollowsOn(h)  == checkSequence(h) /\ ~ (job[h].frame.seq > 0 /\ RollsBack(det, job[h].frame.seq))
                 /\ Moves(h, IF ~ job[h].frame.nonceOk THEN "mismatch" ELSE "report")

TellsSuccess(h) == reportVerdict(h) /\ job[h].reason = "ok" /\ Moves(h, "policy")
                   /\ det' = reportSuccess(det, job[h].frame.seq)
TellsReplay(h)  == reportVerdict(h) /\ job[h].reason = "replay" /\ Leaves(h)
                   /\ det' = reportReplay(det)
TellsTag(h)     == reportVerdict(h) /\ job[h].reason = "decrypt_failed" /\ Leaves(h)
                   /\ det' = reportTagFailure(det)

Shape(h) ==
    \/ \E f \in Frames : Receive(h, f) /\ Begins(h, f)
    \/ getOrCreateWindow(h) /\ Moves(h, "contains")
    \/ \E found \in BOOLEAN : Looks(h, found)
    \/ BeginRemember(h) /\ Moves(h, "remembering")
    \/ EndRemember(h) /\ Moves(h, "detector")
    \/ Stops(h) \/ Passes(h)
    \/ DropsBack(h) \/ FollowsOn(h)
    \/ denyNonce(h) /\ Leaves(h)
    \/ TellsSuccess(h) \/ TellsReplay(h) \/ TellsTag(h)
    \/ checkAccessPolicy(h) /\ Leaves(h)

LEMMA StepShape ==
    ASSUME TypeOK, NEW h \in Handlers, Step(h)
    PROVE  Shape(h)
<1>0. \A to \in Stages : At(h, to) => job[h] \in JobType
  BY BusyJobs DEF Busy, At
<1>s. {"lookup", "contains", "remember", "remembering", "detector", "sequence",
       "mismatch", "report", "policy"} \subseteq Stages
  BY DEF Stages
<1>1. CASE \E f \in Frames : Receive(h, f)
  BY <1>1, ReceiveBegins DEF Shape
<1>2. CASE getOrCreateWindow(h)
  <2>1. At(h, "lookup") /\ Goto(h, "contains")
    BY <1>2 DEF getOrCreateWindow
  <2>2. Moves(h, "contains")
    BY <1>0, <1>s, <2>1, GotoMoves
  <2> QED
    BY <1>2, <2>2 DEF Shape
<1>3. CASE checkReplay(h)
  <2>1. job[h] \in JobType
    BY <1>0, <1>s, <1>3 DEF checkReplay
  <2>2. PICK found \in LookupResults(job[h].frame.seq) : Judged(h, Verdict(found, job[h].frame))
    BY <1>3, <2>1, ReplayJudged DEF Verdict
  <2>3. found \in BOOLEAN
    BY <2>2 DEF LookupResults, contains, isTooOld
  <2> QED
    BY <1>3, <2>2, <2>3 DEF Shape, Looks
<1>4. CASE BeginRemember(h)
  <2>1. At(h, "remember") /\ Goto(h, "remembering")
    BY <1>4 DEF BeginRemember
  <2>2. Moves(h, "remembering")
    BY <1>0, <1>s, <2>1, GotoMoves
  <2> QED
    BY <1>4, <2>2 DEF Shape
<1>5. CASE EndRemember(h)
  <2>1. At(h, "remembering") /\ Goto(h, "detector")
    BY <1>5 DEF EndRemember
  <2>2. Moves(h, "detector")
    BY <1>0, <1>s, <2>1, GotoMoves
  <2> QED
    BY <1>5, <2>2 DEF Shape
<1>6. CASE checkQuarantine(h)
  <2>1. At(h, "detector") /\ Goto(h, IF isQuarantined(det) THEN "idle" ELSE "sequence")
    BY <1>6 DEF checkQuarantine
  <2>2. CASE isQuarantined(det)
    <3>1. Goto(h, "idle")
      BY <2>1, <2>2
    <3>2. Leaves(h)
      BY <1>0, <1>s, <2>1, <3>1, GotoLeaves
    <3> QED
      BY <1>6, <2>2, <3>2 DEF Shape, Stops
  <2>3. CASE ~ isQuarantined(det)
    <3>1. Goto(h, "sequence")
      BY <2>1, <2>3
    <3>2. Moves(h, "sequence")
      BY <1>0, <1>s, <2>1, <3>1, GotoMoves
    <3> QED
      BY <1>6, <2>3, <3>2 DEF Shape, Passes
  <2> QED
    BY <2>2, <2>3
<1>7. CASE checkSequence(h)
  <2> DEFINE back == job[h].frame.seq > 0 /\ RollsBack(det, job[h].frame.seq)
             to == IF ~ job[h].frame.nonceOk THEN "mismatch" ELSE "report"
  <2>1. At(h, "sequence") /\ Goto(h, IF back THEN "idle" ELSE to)
    BY <1>7 DEF checkSequence
  <2>2. to \in Stages
    BY <1>s
  <2>3. CASE back
    <3>1. Goto(h, "idle")
      BY <2>1, <2>3
    <3>2. Leaves(h)
      BY <1>0, <1>s, <2>1, <3>1, GotoLeaves
    <3> QED
      BY <1>7, <2>3, <3>2 DEF Shape, DropsBack
  <2>4. CASE ~ back
    <3>1. Goto(h, to)
      BY <2>1, <2>4
    <3>2. Moves(h, to)
      BY <1>0, <1>s, <2>1, <2>2, <3>1, GotoMoves
    <3> QED
      BY <1>7, <2>4, <3>2 DEF Shape, FollowsOn
  <2> QED
    BY <2>3, <2>4
<1>8. CASE denyNonce(h)
  <2>1. At(h, "mismatch") /\ Goto(h, "idle")
    BY <1>8 DEF denyNonce
  <2>2. Leaves(h)
    BY <1>0, <1>s, <2>1, GotoLeaves
  <2> QED
    BY <1>8, <2>2 DEF Shape
<1>9. CASE reportVerdict(h)
  <2>1. At(h, "report") /\ Goto(h, IF job[h].reason = "ok" THEN "policy" ELSE "idle")
    BY <1>9 DEF reportVerdict
  <2>2. job[h] \in JobType
    BY <1>0, <1>s, <2>1
  <2>3. job[h].reason \in {"ok", "replay", "decrypt_failed"}
    BY <2>2 DEF JobType
  <2>4. CASE job[h].reason = "ok"
    <3>1. Goto(h, "policy") /\ det' = reportSuccess(det, job[h].frame.seq)
      BY <1>9, <2>1, <2>4 DEF reportVerdict
    <3>2. Moves(h, "policy")
      BY <1>s, <2>2, <3>1, GotoMoves
    <3> QED
      BY <1>9, <2>4, <3>1, <3>2 DEF Shape, TellsSuccess
  <2>5. CASE job[h].reason = "replay"
    <3>1. Goto(h, "idle") /\ det' = reportReplay(det)
      BY <1>9, <2>1, <2>5 DEF reportVerdict
    <3>2. Leaves(h)
      BY <2>2, <3>1, GotoLeaves
    <3> QED
      BY <1>9, <2>5, <3>1, <3>2 DEF Shape, TellsReplay
  <2>6. CASE job[h].reason = "decrypt_failed"
    <3>1. Goto(h, "idle") /\ det' = reportTagFailure(det)
      BY <1>9, <2>1, <2>6 DEF reportVerdict
    <3>2. Leaves(h)
      BY <2>2, <3>1, GotoLeaves
    <3> QED
      BY <1>9, <2>6, <3>1, <3>2 DEF Shape, TellsTag
  <2> QED
    BY <2>3, <2>4, <2>5, <2>6
<1>10. CASE checkAccessPolicy(h)
  <2>1. At(h, "policy") /\ Goto(h, "idle")
    BY <1>10 DEF checkAccessPolicy
  <2>2. Leaves(h)
    BY <1>0, <1>s, <2>1, GotoLeaves
  <2> QED
    BY <1>10, <2>2 DEF Shape
<1> QED
  BY <1>1, <1>2, <1>3, <1>4, <1>5, <1>6, <1>7, <1>8, <1>9, <1>10 DEF Step
-----------------------------------------------------------------------------
(* Types, crashes and stages.                                              *)

BaseOK == TypeOK /\ CrashOK /\ StageOK

\* What a frame in hand is.
LEMMA FrameFacts ==
    ASSUME TypeOK, NEW h \in Handlers, job[h] \in JobType
    PROVE  /\ job[h].frame \in Frames /\ job[h].frame.seq \in Nat
           /\ job[h].frame.seq \in 0..(SeqModulus - 1)
           /\ job[h].frame.tagOk \in BOOLEAN /\ job[h].frame.nonceOk \in BOOLEAN
           /\ job[h].reason \in {"ok", "replay", "decrypt_failed"}
           /\ job[h].pc \in Stages /\ Busy(job[h])
           /\ job[h].wasHeld \in BOOLEAN /\ job[h].wasGranted \in BOOLEAN
<1>1. job[h].frame \in FrameType
  BY HandlersAssumption DEF JobType
<1>2. job[h].frame.seq \in 0..(SeqModulus - 1)
      /\ job[h].frame.tagOk \in BOOLEAN /\ job[h].frame.nonceOk \in BOOLEAN
  BY <1>1 DEF FrameType
<1>3. job[h].frame.seq \in Nat
  BY <1>2
<1>4. job[h].frame \in Frames /\ job[h].reason \in {"ok", "replay", "decrypt_failed"}
      /\ job[h].pc \in Stages /\ job[h].wasHeld \in BOOLEAN /\ job[h].wasGranted \in BOOLEAN
  BY DEF JobType
<1> QED
  BY <1>2, <1>3, <1>4 DEF Busy

\* The shared variables a step may change, one by one.
LEMMA StepTypes ==
    ASSUME BaseOK, NEW h \in Handlers, Shape(h)
    PROVE  TypeOK'
<1>1. TypeOK /\ StageOK
  BY DEF BaseOK
<1>2. /\ win \in {NoWindow} \cup WindowType /\ det \in ReaderState /\ job \in JobsType
      /\ use \in [Handlers -> {"none", "read", "write"}]
      /\ raced \in BOOLEAN /\ reordered \in BOOLEAN
      /\ received \in Seq(Frames) /\ granted \subseteq Nat /\ releases \in Nat
  BY <1>1 DEF TypeOK, WindowType, JobsType
<1> SUFFICES /\ win' \in {NoWindow} \cup WindowType /\ det' \in ReaderState /\ job' \in JobsType
             /\ use' \in [Handlers -> {"none", "read", "write"}]
             /\ raced' \in BOOLEAN /\ reordered' \in BOOLEAN
             /\ received' \in Seq(Frames) /\ granted' \subseteq Nat /\ releases' \in Nat
  BY DEF TypeOK, WindowType, JobsType
<1>3. CASE \E f \in Frames : Receive(h, f) /\ Begins(h, f)
  <2>1. PICK f \in Frames : Receive(h, f) /\ Begins(h, f)
    BY <1>3
  <2>2. job' \in JobsType
    BY <2>1 DEF Begins
  <2>3. received' = Append(received, f) /\ UNCHANGED <<win, det, use, raced, granted, reordered, releases>>
    BY <2>1 DEF Receive, shared
  <2> QED
    BY <1>2, <2>2, <2>3
<1>4. CASE getOrCreateWindow(h) /\ Moves(h, "contains")
  <2>1. job' \in JobsType
    BY <1>4 DEF Moves
  <2>2. /\ win' = IF win = NoWindow THEN FreshWindow ELSE win
        /\ UNCHANGED <<det, received, granted, reordered, releases>>
        /\ Begin(h, IF win = NoWindow THEN "write" ELSE "read")
    BY <1>4 DEF getOrCreateWindow
  <2>3. win' \in {NoWindow} \cup WindowType
    BY <1>2, <2>2, FreshWindowType
  <2>4. use' \in [Handlers -> {"none", "read", "write"}] /\ raced' \in BOOLEAN
    BY <1>2, <2>2 DEF Begin
  <2> QED
    BY <1>2, <2>1, <2>2, <2>3, <2>4
<1>5. CASE \E found \in BOOLEAN : Looks(h, found)
  <2>1. job' \in JobsType /\ checkReplay(h)
    BY <1>5 DEF Looks, Judged
  <2>2. use' = [use EXCEPT ![h] = "none"]
        /\ UNCHANGED <<win, det, raced, received, granted, reordered, releases>>
    BY <2>1 DEF checkReplay, shared, history, End
  <2> QED
    BY <1>2, <2>1, <2>2
<1>6. CASE BeginRemember(h) /\ Moves(h, "remembering")
  <2>1. job' \in JobsType
    BY <1>6 DEF Moves
  <2>2. Begin(h, "write") /\ UNCHANGED <<win, det, received, granted, reordered, releases>>
    BY <1>6 DEF BeginRemember, shared
  <2>3. use' \in [Handlers -> {"none", "read", "write"}] /\ raced' \in BOOLEAN
    BY <1>2, <2>2 DEF Begin
  <2> QED
    BY <1>2, <2>1, <2>2, <2>3
<1>7. CASE EndRemember(h) /\ Moves(h, "detector")
  <2>1. job' \in JobsType /\ job[h] \in JobType
    BY <1>7 DEF Moves
  <2>2. /\ At(h, "remembering")
        /\ use' = [use EXCEPT ![h] = "none"]
        /\ win' = remember(win, job[h].frame.seq) \/ win' = win
        /\ reordered' = (reordered \/ (win' # win /\ job[h].frame.seq < win.maxSeen))
        /\ UNCHANGED <<det, raced, received, granted, releases>>
    BY <1>7 DEF EndRemember, End
  <2>3. win \in WindowType
    BY <1>1, <1>2, <2>1, <2>2, FrameFacts DEF StageOK, At
  <2>4. win' \in WindowType
    BY <1>1, <2>1, <2>2, <2>3, FrameFacts, RememberType
  <2>5. reordered' \in BOOLEAN
    BY <1>2, <2>2
  <2> QED
    BY <1>2, <2>1, <2>2, <2>4, <2>5
<1>8. CASE Stops(h) \/ Passes(h)
  <2>1. job' \in JobsType /\ checkQuarantine(h)
    BY <1>8 DEF Stops, Passes, Leaves, Moves
  <2>2. UNCHANGED <<win, det, use, raced, received, granted, reordered, releases>>
    BY <2>1 DEF checkQuarantine, shared, history
  <2> QED
    BY <1>2, <2>1, <2>2
<1>9. CASE DropsBack(h) \/ FollowsOn(h)
  <2>1. job' \in JobsType /\ job[h] \in JobType /\ checkSequence(h)
    BY <1>9 DEF DropsBack, FollowsOn, Leaves, Moves
  <2>2. /\ UNCHANGED <<win, use, raced, received, granted, reordered, releases>>
        /\ det' = IF job[h].frame.seq > 0 THEN reportSeq(det, job[h].frame.seq) ELSE det
    BY <2>1 DEF checkSequence, history
  <2>3. det' \in ReaderState
    BY <1>1, <1>2, <2>1, <2>2, FrameFacts, DetectorFacts
  <2> QED
    BY <1>2, <2>1, <2>2, <2>3
<1>10. CASE denyNonce(h) /\ Leaves(h)
  <2>1. job' \in JobsType /\ job[h] \in JobType
    BY <1>10 DEF Leaves
  <2>2. UNCHANGED <<win, use, raced, received, granted, reordered, releases>>
        /\ det' = reportNonceMismatch(det)
    BY <1>10 DEF denyNonce, history
  <2>3. det' \in ReaderState
    BY <1>1, <1>2, <2>1, <2>2, FrameFacts, DetectorFacts
  <2> QED
    BY <1>2, <2>1, <2>2, <2>3
<1>11. CASE TellsSuccess(h) \/ TellsReplay(h) \/ TellsTag(h)
  <2>1. /\ job' \in JobsType /\ job[h] \in JobType /\ reportVerdict(h)
        /\ det' \in {reportSuccess(det, job[h].frame.seq), reportReplay(det), reportTagFailure(det)}
    BY <1>11 DEF TellsSuccess, TellsReplay, TellsTag, Leaves, Moves
  <2>2. UNCHANGED <<win, use, raced, received, granted, reordered, releases>>
    BY <2>1 DEF reportVerdict, history
  <2>3. det' \in ReaderState
    BY <1>1, <1>2, <2>1, FrameFacts, DetectorFacts
  <2> QED
    BY <1>2, <2>1, <2>2, <2>3
<1>12. CASE checkAccessPolicy(h) /\ Leaves(h)
  <2>1. job' \in JobsType /\ job[h] \in JobType
    BY <1>12 DEF Leaves
  <2>2. /\ UNCHANGED <<win, det, use, raced, received, reordered, releases>>
        /\ granted' \in {granted, granted \cup {job[h].frame.seq}}
    BY <1>12 DEF checkAccessPolicy, shared
  <2>3. granted' \subseteq Nat
    BY <1>1, <1>2, <2>1, <2>2, FrameFacts
  <2> QED
    BY <1>2, <2>1, <2>2, <2>3
<1> QED
  BY <1>3, <1>4, <1>5, <1>6, <1>7, <1>8, <1>9, <1>10, <1>11, <1>12 DEF Shape

\* An administrator's step, and a crash.
Released ==
    /\ job' \in JobsType /\ job'["local"] = job["local"]
    /\ IF job["endpoint"] \in JobType
       THEN /\ job'["endpoint"] \in JobType /\ job'["endpoint"].pc = job["endpoint"].pc
            /\ job'["endpoint"].frame = job["endpoint"].frame
            /\ job'["endpoint"].reason = job["endpoint"].reason
            /\ job'["endpoint"].wasGranted = job["endpoint"].wasGranted
            /\ job'["endpoint"].wasHeld = FALSE
       ELSE job'["endpoint"] = job["endpoint"]

LEMMA ReleaseShape ==
    ASSUME BaseOK, UnquarantineReader
    PROVE  Released
<1> DEFINE e == "endpoint"
<1>1. job \in JobsType /\ e \in Handlers /\ "local" \in Handlers /\ e # "local"
      /\ (Busy(job[e]) <=> job[e] \in JobType)
  BY BusyJobs DEF BaseOK, Handlers
<1>2. job[e] \in {Idle, Crashed} \cup JobType
  BY <1>1 DEF JobsType
<1>3. job[e] # Crashed
  <2>1. At("local", "idle") /\ Crashed.pc = "crashed"
    BY DEF UnquarantineReader, Crashed
  <2> QED
    BY <1>1, <2>1 DEF BaseOK, CrashOK, At
<1>4. job' = IF At(e, "idle") THEN job ELSE [job EXCEPT ![e].wasHeld = FALSE]
  BY DEF UnquarantineReader
<1>5. Idle.pc = "idle" /\ Idle \notin JobType
  BY BusyJobs, <1>1 DEF BaseOK, Busy, JobType, Idle, Stages
<1>6. CASE job[e] = Idle
  BY <1>1, <1>2, <1>4, <1>5, <1>6 DEF At, Released
<1>7. CASE job[e] \in JobType
  <2> DEFINE v == [job[e] EXCEPT !.wasHeld = FALSE]
  <2>1. ~ At(e, "idle")
    BY <1>1, <1>7 DEF Busy, Stages, At
  <2>2. job' = [job EXCEPT ![e] = v]
    BY <1>1, <1>4, <2>1 DEF JobsType
  <2>3. /\ v \in JobType /\ v.pc = job[e].pc /\ v.frame = job[e].frame
        /\ v.reason = job[e].reason /\ v.wasGranted = job[e].wasGranted /\ v.wasHeld = FALSE
    BY <1>7 DEF JobType
  <2> HIDE DEF v
  <2>4. job'[e] = v /\ job' \in JobsType /\ job'["local"] = job["local"]
    BY <1>1, <2>2, <2>3 DEF JobsType
  <2> QED
    BY <1>7, <2>3, <2>4 DEF Released
<1> QED
  BY <1>2, <1>3, <1>6, <1>7

\* A running handler has not crashed, and neither has the other.
LEMMA StepCrash ==
    ASSUME BaseOK, NEW h \in Handlers, Shape(h)
    PROVE  CrashOK'
<1>1. TypeOK /\ CrashOK
  BY DEF BaseOK
<1>2. "crashed" \notin Stages /\ Idle.pc # "crashed"
  BY DEF Stages, Idle
<1>3. \/ At(h, "idle")
      \/ job[h] \in JobType
  BY DEF Shape, Receive, Moves, Leaves, Looks, Judged, Stops, Passes, DropsBack, FollowsOn,
         TellsSuccess, TellsReplay, TellsTag
<1>4. ~ At(h, "crashed")
  BY <1>1, <1>2, <1>3, FrameFacts DEF At
<1>5. \A g \in Handlers : ~ At(g, "crashed")
  BY <1>1, <1>4 DEF CrashOK
<1>6. Others(h) /\ (job'[h] \in JobType \/ job'[h] = Idle)
  BY DEF Shape, Begins, Moves, Leaves, Looks, Judged, Stops, Passes, DropsBack, FollowsOn,
         TellsSuccess, TellsReplay, TellsTag
<1>7. job'[h].pc # "crashed"
  BY <1>2, <1>6 DEF JobType
<1>8. \A g \in Handlers : job'[g].pc # "crashed"
  BY <1>5, <1>6, <1>7 DEF Others, At
<1> QED
  BY <1>8 DEF CrashOK, At

LEMMA StepStages ==
    ASSUME BaseOK, NEW h \in Handlers, Shape(h)
    PROVE  StageOK'
<1> DEFINE early == {"lookup", "contains", "remember", "remembering", "policy"}
           OK(v, w) == /\ Busy(v) /\ v.pc # "lookup" => w # NoWindow
                       /\ v.pc \in early => v.reason = "ok"
<1>1. TypeOK /\ \A g \in Handlers : OK(job[g], win)
  BY DEF BaseOK, StageOK, At
<1>2. FreshWindow # NoWindow
  BY FreshWindowType, HandlersAssumption DEF WindowType
<1>3. Idle.pc = "idle" /\ ~ Busy(Idle) /\ "idle" \notin early
  BY <1>1, BusyJobs
<1>4. OK(Idle, win')
  BY <1>3
<1>5. \A v \in JobType : Busy(v)
  BY DEF Busy, JobType
<1>6. SUFFICES Others(h) /\ (win # NoWindow => win' # NoWindow) /\ OK(job'[h], win')
  <2>1. \A g \in Handlers : OK(job'[g], win')
    BY <1>1, <1>6 DEF Others
  <2> QED
    BY <2>1 DEF StageOK, At
<1>7. CASE \E f \in Frames : Receive(h, f) /\ Begins(h, f)
  BY <1>7 DEF Receive, Begins, shared
<1>8. CASE getOrCreateWindow(h) /\ Moves(h, "contains")
  <2>1. win' # NoWindow
    BY <1>2, <1>8 DEF getOrCreateWindow
  <2>2. job[h].pc = "lookup"
    BY <1>8 DEF getOrCreateWindow, At
  <2> QED
    BY <1>1, <1>8, <2>1, <2>2 DEF Moves
<1>9. CASE \E found \in BOOLEAN : Looks(h, found)
  <2>1. PICK found \in BOOLEAN : Looks(h, found)
    BY <1>9
  <2>2. win' = win /\ job[h].pc = "contains"
    BY <2>1 DEF Looks, checkReplay, shared, At
  <2>3. Judged(h, Verdict(found, job[h].frame))
    BY <2>1 DEF Looks
  <2>4. job'[h].pc \in early => job'[h].reason = "ok"
    BY <2>3 DEF Judged
  <2> QED
    BY <1>1, <1>5, <2>2, <2>3, <2>4 DEF Judged
<1>10. CASE BeginRemember(h) /\ Moves(h, "remembering")
  <2>1. win' = win /\ job[h].pc = "remember"
    BY <1>10 DEF BeginRemember, shared, At
  <2> QED
    BY <1>1, <1>5, <1>10, <2>1 DEF Moves
<1>11. CASE EndRemember(h) /\ Moves(h, "detector")
  <2>1. /\ job[h].pc = "remembering" /\ job[h] \in JobType
        /\ win' = remember(win, job[h].frame.seq) \/ win' = win
    BY <1>11 DEF EndRemember, At, Moves
  <2>2. win # NoWindow /\ win \in WindowType
    BY <1>1, <1>5, <2>1 DEF TypeOK, WindowType
  <2>3. win' \in WindowType
    BY <1>1, <2>1, <2>2, FrameFacts, RememberType
  <2>4. win' # NoWindow
    BY <2>3, HandlersAssumption DEF WindowType
  <2> QED
    BY <1>11, <2>4 DEF Moves
<1>12. CASE Stops(h) \/ Passes(h)
  <2>1. win' = win /\ job[h].pc = "detector" /\ job[h] \in JobType
    BY <1>12 DEF Stops, Passes, checkQuarantine, shared, At, Moves, Leaves
  <2> QED
    BY <1>1, <1>4, <1>5, <1>12, <2>1 DEF Stops, Passes, Leaves, Moves
<1>13. CASE DropsBack(h) \/ FollowsOn(h)
  <2>1. win' = win /\ job[h].pc = "sequence" /\ job[h] \in JobType
    BY <1>13 DEF DropsBack, FollowsOn, checkSequence, At, Moves, Leaves
  <2> QED
    BY <1>1, <1>4, <1>5, <1>13, <2>1 DEF DropsBack, FollowsOn, Leaves, Moves
<1>14. CASE denyNonce(h) /\ Leaves(h)
  BY <1>4, <1>14 DEF denyNonce, Leaves
<1>15. CASE TellsSuccess(h) \/ TellsReplay(h) \/ TellsTag(h)
  <2>1. win' = win /\ job[h].pc = "report" /\ job[h] \in JobType
    BY <1>15 DEF TellsSuccess, TellsReplay, TellsTag, reportVerdict, At, Moves, Leaves
  <2> QED
    BY <1>1, <1>4, <1>5, <1>15, <2>1 DEF TellsSuccess, TellsReplay, TellsTag, Leaves, Moves
<1>16. CASE checkAccessPolicy(h) /\ Leaves(h)
  BY <1>4, <1>16 DEF checkAccessPolicy, shared, Leaves
<1> QED
  BY <1>7, <1>8, <1>9, <1>10, <1>11, <1>12, <1>13, <1>14, <1>15, <1>16 DEF Shape

\* The jobs after a crash.
LEMMA CrashJobs ==
    ASSUME Crash, NEW h \in Handlers
    PROVE  /\ job' \in JobsType /\ job'[h] = Crashed /\ ~ Busy(job'[h])
           /\ job'[h].pc = "crashed"
BY DEF Crash, JobsType, Busy, Stages, Crashed

LEMMA BaseInit == Init => BaseOK
<1> SUFFICES ASSUME Init
             PROVE  BaseOK
  OBVIOUS
<1>1. \A h \in Handlers : job[h] = Idle /\ Idle.pc = "idle" /\ ~ Busy(Idle)
  BY DEF Init, Idle, Busy, Stages
<1>2. FreshReader \in ReaderState
  BY DEF FreshReader, ReaderState, NotQuarantined, AnomalyType
<1>3. TypeOK
  <2>1. received \in Seq(Frames)
    BY DEF Init
  <2>2. job \in [Handlers -> {Idle, Crashed} \cup JobType]
    BY DEF Init
  <2>3. use \in [Handlers -> {"none", "read", "write"}]
    BY DEF Init
  <2> QED
    BY <1>2, <2>1, <2>2, <2>3 DEF Init, TypeOK
<1>4. CrashOK
  BY <1>1 DEF CrashOK, At
<1>5. StageOK
  BY <1>1 DEF StageOK, At
<1> QED
  BY <1>3, <1>4, <1>5 DEF BaseOK

LEMMA BaseStep == BaseOK /\ [Next]_vars => BaseOK'
<1> SUFFICES ASSUME BaseOK, [Next]_vars
             PROVE  BaseOK'
  OBVIOUS
<1>0. TypeOK /\ CrashOK /\ StageOK
  BY DEF BaseOK
<1>1. CASE \E h \in Handlers : Step(h)
  <2>1. PICK h \in Handlers : Step(h)
    BY <1>1
  <2>2. Shape(h)
    BY <1>0, <2>1, StepShape
  <2> QED
    BY <2>2, StepTypes, StepCrash, StepStages DEF BaseOK
<1>2. CASE UnquarantineReader
  <2>1. Released
    BY <1>2, ReleaseShape
  <2>2. /\ UNCHANGED <<win, use, raced, received, granted, reordered>>
        /\ det' = unquarantine(det) /\ releases' = releases + 1
    BY <1>2 DEF UnquarantineReader, history
  <2>3. TypeOK'
    <3>1. det' \in ReaderState
      BY <1>0, <2>2, DetectorFacts DEF TypeOK
    <3>2. job' \in [Handlers -> {Idle, Crashed} \cup JobType]
      BY <2>1 DEF Released, JobsType
    <3> QED
      BY <1>0, <2>2, <3>1, <3>2 DEF TypeOK
  <2>4. \A g \in Handlers : job'[g].pc = job[g].pc /\ (Busy(job'[g]) <=> Busy(job[g]))
    BY <2>1 DEF Released, Handlers, Busy
  <2>5. \A g \in Handlers : job[g].pc \in Stages => job'[g].reason = job[g].reason
    BY <1>0, <2>1, BusyJobs DEF Released, Handlers, Busy
  <2>6. CrashOK'
    BY <1>0, <2>4 DEF CrashOK, At
  <2>7. StageOK'
    BY <1>0, <2>2, <2>4, <2>5 DEF StageOK, At, Stages
  <2> QED
    BY <2>3, <2>6, <2>7 DEF BaseOK
<1>3. CASE Crash
  <2>1. /\ UNCHANGED <<win, det, raced, received, granted, reordered, releases>>
        /\ use' \in [Handlers -> {"none", "read", "write"}]
    BY <1>3 DEF Crash, shared, history
  <2>2. job' \in [Handlers -> {Idle, Crashed} \cup JobType]
    BY <1>3 DEF Crash
  <2>3. TypeOK'
    BY <1>0, <2>1, <2>2 DEF TypeOK
  <2>4. CrashOK'
    BY <1>3, CrashJobs DEF CrashOK, At
  <2>5. StageOK'
    BY <1>3, CrashJobs DEF StageOK, At
  <2> QED
    BY <2>3, <2>4, <2>5 DEF BaseOK
<1>4. CASE Rest \/ UNCHANGED vars
  <2>1. UNCHANGED <<win, det, job, use, raced, received, granted, reordered, releases>>
    BY <1>4 DEF Rest, vars, shared, history
  <2> QED
    BY <1>0, <2>1 DEF BaseOK, TypeOK, CrashOK, StageOK, At
<1> QED
  BY <1>1, <1>2, <1>3, <1>4 DEF Next

\* Every variable has its type in every reachable state, whatever the two
\* threads do to the window.
THEOREM TypeAlways == Spec => []TypeOK
<1>1. BaseOK => TypeOK
  BY DEF BaseOK
<1> QED
  BY <1>1, BaseInit, BaseStep, PTL DEF Spec
-----------------------------------------------------------------------------
(* Quarantine.                                                             *)

\* No step of a handler lifts a quarantine.
LEMMA StepHolds ==
    ASSUME BaseOK, NEW h \in Handlers, Shape(h), isQuarantined(det)
    PROVE  isQuarantined(det')
<1>1. TypeOK /\ det \in ReaderState
  BY DEF BaseOK, TypeOK
<1>2. \A s \in Nat :
        /\ isQuarantined(reportSeq(det, s)) /\ isQuarantined(reportReplay(det))
        /\ isQuarantined(reportNonceMismatch(det)) /\ isQuarantined(reportTagFailure(det))
        /\ isQuarantined(reportSuccess(det, s))
  <2> SUFFICES ASSUME NEW s \in Nat
               PROVE  /\ isQuarantined(reportSeq(det, s)) /\ isQuarantined(reportReplay(det))
                      /\ isQuarantined(reportNonceMismatch(det))
                      /\ isQuarantined(reportTagFailure(det))
                      /\ isQuarantined(reportSuccess(det, s))
    OBVIOUS
  <2>1. det.quarantine # NotQuarantined
    BY DEF isQuarantined
  <2> QED
    BY <1>1, <2>1, DetectorFacts DEF isQuarantined, NotQuarantined
<1>3. CASE \/ \E f \in Frames : Receive(h, f) /\ Begins(h, f)
           \/ getOrCreateWindow(h) /\ Moves(h, "contains")
           \/ \E found \in BOOLEAN : Looks(h, found)
           \/ BeginRemember(h) /\ Moves(h, "remembering")
           \/ EndRemember(h) /\ Moves(h, "detector")
           \/ Stops(h) \/ Passes(h)
           \/ checkAccessPolicy(h) /\ Leaves(h)
  <2>1. det' = det
    BY <1>3 DEF Receive, getOrCreateWindow, Looks, checkReplay, BeginRemember, EndRemember,
                Stops, Passes, checkQuarantine, checkAccessPolicy, shared
  <2> QED
    BY <2>1
<1>4. CASE DropsBack(h) \/ FollowsOn(h)
  <2>1. /\ job[h] \in JobType
        /\ det' = IF job[h].frame.seq > 0 THEN reportSeq(det, job[h].frame.seq) ELSE det
    BY <1>4 DEF DropsBack, FollowsOn, checkSequence, Leaves, Moves
  <2> QED
    BY <1>1, <1>2, <2>1, FrameFacts
<1>5. CASE denyNonce(h) /\ Leaves(h)
  BY <1>2, <1>5 DEF denyNonce
<1>6. CASE TellsSuccess(h) \/ TellsReplay(h) \/ TellsTag(h)
  <2>1. /\ job[h] \in JobType
        /\ det' \in {reportSuccess(det, job[h].frame.seq), reportReplay(det), reportTagFailure(det)}
    BY <1>6 DEF TellsSuccess, TellsReplay, TellsTag, Leaves, Moves
  <2> QED
    BY <1>1, <1>2, <2>1, FrameFacts
<1> QED
  BY <1>3, <1>4, <1>5, <1>6 DEF Shape

Before == {"lookup", "contains", "remember", "remembering", "detector"}

\* The part of HeldOK about one handler.
Holds(v, d) == Busy(v) /\ v.wasHeld => isQuarantined(d) /\ v.pc \in Before

LEMMA HeldStep == BaseOK /\ HeldOK /\ [Next]_vars => HeldOK'
<1> SUFFICES ASSUME BaseOK, HeldOK, [Next]_vars
             PROVE  HeldOK'
  OBVIOUS
<1>0. TypeOK /\ \A g \in Handlers : Holds(job[g], det)
  BY DEF BaseOK, HeldOK, Holds, Before
<1>i. \A d : Holds(Idle, d) /\ Holds(Crashed, d)
  BY DEF Holds, Busy, Stages, Idle, Crashed
<1> SUFFICES \A g \in Handlers : Holds(job'[g], det')
  BY DEF HeldOK, Holds, Before
<1>1. CASE \E h \in Handlers : Step(h)
  <2>1. PICK h \in Handlers : Step(h)
    BY <1>1
  <2>2. Shape(h)
    BY <1>0, <2>1, StepShape
  <2>3. isQuarantined(det) => isQuarantined(det')
    BY <2>2, StepHolds
  <2>4. Others(h)
    BY <2>2 DEF Shape, Begins, Moves, Leaves, Looks, Judged, Stops, Passes, DropsBack, FollowsOn,
                TellsSuccess, TellsReplay, TellsTag
  <2>5. Holds(job'[h], det')
    <3>1. CASE \E f \in Frames : Receive(h, f) /\ Begins(h, f)
      BY <2>3, <3>1 DEF Begins, Holds, Before
    <3>2. ASSUME NEW to \in Before, Moves(h, to)
          PROVE  Holds(job'[h], det')
      BY <1>0, <2>3, <3>2, BusyJobs DEF Moves, Holds
    <3>3. CASE getOrCreateWindow(h) /\ Moves(h, "contains")
      BY <3>2, <3>3 DEF Before
    <3>4. CASE BeginRemember(h) /\ Moves(h, "remembering")
      BY <3>2, <3>4 DEF Before
    <3>5. CASE EndRemember(h) /\ Moves(h, "detector")
      BY <3>2, <3>5 DEF Before
    <3>6. CASE \E found \in BOOLEAN : Looks(h, found)
      <4>1. /\ job[h] \in JobType /\ job'[h].pc \in Before
            /\ job'[h].wasHeld = job[h].wasHeld
        BY <3>6 DEF Looks, Judged, Before
      <4> QED
        BY <1>0, <2>3, <4>1, BusyJobs DEF Holds
    <3>7. CASE Passes(h)
      <4>1. ~ isQuarantined(det) /\ job[h] \in JobType /\ job'[h].wasHeld = job[h].wasHeld
        BY <3>7 DEF Passes, Moves
      <4>2. ~ job[h].wasHeld
        BY <1>0, <4>1, BusyJobs DEF Holds
      <4> QED
        BY <4>1, <4>2 DEF Holds
    <3>8. CASE FollowsOn(h) \/ TellsSuccess(h)
      <4>1. /\ job[h] \in JobType /\ job'[h].wasHeld = job[h].wasHeld
            /\ job[h].pc \in {"sequence", "report"}
        BY <3>8 DEF FollowsOn, TellsSuccess, Moves, checkSequence, reportVerdict, At
      <4>2. ~ job[h].wasHeld
        BY <1>0, <4>1, BusyJobs DEF Holds, Before
      <4> QED
        BY <4>1, <4>2 DEF Holds
    <3>9. CASE Leaves(h)
      BY <1>i, <3>9 DEF Leaves
    <3>10. Stops(h) \/ DropsBack(h) \/ TellsReplay(h) \/ TellsTag(h) => Leaves(h)
      BY DEF Stops, DropsBack, TellsReplay, TellsTag
    <3> QED
      BY <2>2, <3>1, <3>3, <3>4, <3>5, <3>6, <3>7, <3>8, <3>9, <3>10 DEF Shape
  <2>6. ASSUME NEW g \in Handlers, g # h
        PROVE  Holds(job'[g], det')
    BY <1>0, <2>3, <2>4, <2>6 DEF Others, Holds
  <2> QED
    BY <2>5, <2>6
<1>2. CASE UnquarantineReader
  <2>1. Released
    BY <1>2, ReleaseShape
  <2>2. Holds(job'["local"], det')
    <3>1. job'["local"].pc = "idle"
      BY <1>2, <2>1 DEF Released, UnquarantineReader, At
    <3> QED
      BY <3>1 DEF Holds, Busy, Stages
  <2>3. Holds(job'["endpoint"], det')
    <3>1. CASE job["endpoint"] \in JobType
      BY <2>1, <3>1 DEF Released, Holds
    <3>2. CASE job["endpoint"] \notin JobType
      <4>1. job'["endpoint"] = job["endpoint"] /\ ~ Busy(job["endpoint"])
        BY <1>0, <2>1, <3>2, BusyJobs DEF Released, Handlers
      <4> QED
        BY <4>1 DEF Holds
    <3> QED
      BY <3>1, <3>2
  <2> QED
    BY <2>2, <2>3 DEF Handlers
<1>3. CASE Crash
  BY <1>i, <1>3, CrashJobs
<1>4. CASE Rest \/ UNCHANGED vars
  <2>1. job' = job /\ det' = det
    BY <1>4 DEF Rest, vars, shared
  <2> QED
    BY <1>0, <2>1
<1> QED
  BY <1>1, <1>2, <1>3, <1>4 DEF Next

\* The frame of a reader that was quarantined when it arrived never reaches
\* the policy unless an administrator lifted the quarantine meanwhile, however
\* the reports of the two threads interleave and even after a race.
THEOREM QuarantineAlwaysHolds == Spec => []QuarantineHolds
<1>1. Init => HeldOK
  BY DEF Init, HeldOK, Busy, Stages, Idle
<1>2. HeldOK => QuarantineHolds
  BY DEF HeldOK, QuarantineHolds, At, Busy, Stages
<1> QED
  BY <1>1, <1>2, BaseInit, BaseStep, HeldStep, PTL DEF Spec
-----------------------------------------------------------------------------
(* Numbers granted.                                                        *)

After == {"detector", "sequence", "mismatch", "report", "policy"}

\* The parts of RememberedOK about the window and about one handler.
Kept(w, g) ==
    /\ w # NoWindow => InOrder(w)
    /\ w = NoWindow => g = {}
    /\ \A n \in g : contains(w, n)

Recalls(v, w, g) ==
    Busy(v) =>
        /\ v.pc \in After /\ v.reason = "ok" => contains(w, v.frame.seq)
        /\ v.wasGranted =>
             /\ v.frame.seq \in g
             /\ v.pc \notin {"remember", "remembering", "policy"}
             /\ v.pc \notin {"lookup", "contains"} => v.reason # "ok"

LEMMA RememberedParts ==
    /\ RememberedOK <=> (~ raced /\ ~ reordered =>
                            Kept(win, granted)
                            /\ \A h \in Handlers : Recalls(job[h], win, granted))
    /\ RememberedOK' <=> (~ raced' /\ ~ reordered' =>
                            Kept(win', granted')
                            /\ \A h \in Handlers : Recalls(job'[h], win', granted'))
<1>1. RememberedOK <=> (~ raced /\ ~ reordered =>
                            Kept(win, granted)
                            /\ \A h \in Handlers : Recalls(job[h], win, granted))
  BY Zenon DEF RememberedOK, Kept, Recalls, After
<1>2. RememberedOK' <=> (~ raced' /\ ~ reordered' =>
                            Kept(win', granted')
                            /\ \A h \in Handlers : Recalls(job'[h], win', granted'))
  BY Zenon DEF RememberedOK, Kept, Recalls, After
<1> QED
  BY <1>1, <1>2

\* What a step of h leaves to the other handler.
LEMMA OtherRecalls ==
    ASSUME BaseOK, NEW g \in Handlers, job'[g] = job[g], Recalls(job[g], win, granted),
           granted \subseteq granted',
           win # NoWindow => \A n \in Nat : contains(win, n) => contains(win', n)
    PROVE  Recalls(job'[g], win', granted')
<1> SUFFICES ASSUME Busy(job[g])
             PROVE  Recalls(job[g], win', granted')
  BY DEF Recalls
<1>1. job[g] \in JobType /\ TypeOK
  BY BusyJobs DEF BaseOK
<1>2. job[g].frame.seq \in Nat
  BY <1>1, FrameFacts
<1>3. job[g].pc \in After => win # NoWindow
  BY DEF BaseOK, StageOK, At, After
<1>4. job[g].pc \in After /\ job[g].reason = "ok" => contains(win', job[g].frame.seq)
  BY <1>2, <1>3 DEF Recalls
<1>5. job[g].wasGranted =>
         /\ job[g].frame.seq \in granted'
         /\ job[g].pc \notin {"remember", "remembering", "policy"}
         /\ job[g].pc \notin {"lookup", "contains"} => job[g].reason # "ok"
  BY DEF Recalls
<1> QED
  BY <1>4, <1>5, Zenon DEF Recalls

\* A race, and an insertion out of order, are not forgotten.
LEMMA StepKeepsHistory ==
    ASSUME NEW h \in Handlers, Shape(h)
    PROVE  (raced => raced') /\ (reordered => reordered')
<1>1. CASE \/ \E f \in Frames : Receive(h, f) /\ Begins(h, f)
           \/ \E found \in BOOLEAN : Looks(h, found)
  BY <1>1 DEF Receive, Looks, checkReplay, history
<1>2. CASE getOrCreateWindow(h)
  <2>1. reordered' = reordered
    BY <1>2 DEF getOrCreateWindow
  <2>2. raced => raced'
    BY <1>2, Zenon DEF getOrCreateWindow, Begin
  <2> QED
    BY <2>1, <2>2
<1>3. CASE BeginRemember(h)
  <2>1. reordered' = reordered
    BY <1>3 DEF BeginRemember
  <2>2. raced => raced'
    BY <1>3, Zenon DEF BeginRemember, Begin
  <2> QED
    BY <2>1, <2>2
<1>4. CASE EndRemember(h)
  <2>1. raced' = raced
    BY <1>4 DEF EndRemember
  <2>2. reordered => reordered'
    BY <1>4, Zenon DEF EndRemember
  <2> QED
    BY <2>1, <2>2
<1>5. CASE checkQuarantine(h) \/ checkSequence(h) \/ denyNonce(h) \/ reportVerdict(h)
  BY <1>5 DEF checkQuarantine, checkSequence, denyNonce, reportVerdict, history
<1>6. CASE checkAccessPolicy(h)
  BY <1>6 DEF checkAccessPolicy
<1> QED
  BY <1>1, <1>2, <1>3, <1>4, <1>5, <1>6
     DEF Shape, Stops, Passes, DropsBack, FollowsOn, TellsSuccess, TellsReplay, TellsTag

\* A step of a handler, while there was no race and the window is in order.
LEMMA StepRemembers ==
    ASSUME BaseOK, NEW h \in Handlers, Shape(h), ~ raced', ~ reordered',
           ~ raced /\ ~ reordered => Kept(win, granted)
                                     /\ \A g \in Handlers : Recalls(job[g], win, granted)
    PROVE  Kept(win', granted') /\ \A g \in Handlers : Recalls(job'[g], win', granted')
<1>1. TypeOK /\ StageOK /\ granted \subseteq Nat
  BY DEF BaseOK, TypeOK
<1>2. ~ raced /\ ~ reordered
  BY StepKeepsHistory
<1>3. Kept(win, granted) /\ \A g \in Handlers : Recalls(job[g], win, granted)
  BY <1>2
<1>4. Others(h)
  BY DEF Shape, Begins, Moves, Leaves, Looks, Judged, Stops, Passes, DropsBack, FollowsOn,
         TellsSuccess, TellsReplay, TellsTag
<1>5. SUFFICES /\ Kept(win', granted') /\ granted \subseteq granted'
               /\ win # NoWindow => \A n \in Nat : contains(win, n) => contains(win', n)
               /\ Recalls(job'[h], win', granted')
  <2>1. ASSUME NEW g \in Handlers, g # h
        PROVE  Recalls(job'[g], win', granted')
    BY <1>3, <1>4, <1>5, <2>1, OtherRecalls DEF Others
  <2> QED
    BY <1>5, <2>1
<1>i. \A w, g : Recalls(Idle, w, g)
  BY DEF Recalls, Busy, Stages, Idle
<1>j. \A v \in JobType : Busy(v)
  BY DEF Busy, JobType
<1>6. CASE \E f \in Frames : Receive(h, f) /\ Begins(h, f)
  <2>1. PICK f \in Frames : Receive(h, f) /\ Begins(h, f)
    BY <1>6
  <2>2. win' = win /\ granted' = granted
    BY <2>1 DEF Receive, shared
  <2>3. /\ job'[h].pc = "lookup" /\ job'[h].frame = f
        /\ job'[h].wasGranted = (f.seq \in granted)
    BY <2>1 DEF Begins
  <2>4. Recalls(job'[h], win, granted)
    <3>1. "lookup" \notin After
      BY DEF After
    <3>2. job'[h].pc \notin After /\ job'[h].pc \in {"lookup", "contains"}
          /\ job'[h].pc \notin {"remember", "remembering", "policy"}
      BY <2>3, <3>1
    <3>3. job'[h].wasGranted => job'[h].frame.seq \in granted
      BY <2>3
    <3> QED
      BY <3>2, <3>3, Zenon DEF Recalls
  <2> QED
    BY <1>3, <2>2, <2>4
<1>7. CASE getOrCreateWindow(h) /\ Moves(h, "contains")
  <2>1. granted' = granted /\ win' = (IF win = NoWindow THEN FreshWindow ELSE win)
        /\ job[h].pc = "lookup"
    BY <1>7 DEF getOrCreateWindow, At
  <2>2. win # NoWindow => win' = win
    BY <2>1
  <2>3. Kept(win', granted')
    <3>1. CASE win = NoWindow
      <4>1. granted' = {} /\ win' = FreshWindow /\ InOrder(FreshWindow)
        BY <1>3, <2>1, <3>1, FreshWindowType DEF Kept
      <4> QED
        BY <4>1 DEF Kept
    <3>2. CASE win # NoWindow
      BY <1>3, <2>1, <3>2
    <3> QED
      BY <3>1, <3>2
  <2>4. Recalls(job'[h], win', granted')
    <3>1. /\ job[h] \in JobType /\ job'[h].pc = "contains" /\ job'[h].frame = job[h].frame
          /\ job'[h].wasGranted = job[h].wasGranted
      BY <1>7 DEF Moves
    <3>2. job[h].wasGranted => job[h].frame.seq \in granted
      BY <1>3, <1>j, <3>1 DEF Recalls
    <3> QED
      BY <2>1, <3>1, <3>2 DEF Recalls, After
  <2> QED
    BY <2>1, <2>2, <2>3, <2>4
<1>8. CASE \E found \in BOOLEAN : Looks(h, found)
  <2>1. PICK found \in BOOLEAN : Looks(h, found)
    BY <1>8
  <2>2. win' = win /\ granted' = granted /\ job[h].pc = "contains"
    BY <2>1 DEF Looks, checkReplay, shared, history, At
  <2>3. found = contains(win, job[h].frame.seq)
    BY <1>2, <2>1 DEF Looks, LookupResults
  <2>4. Judged(h, Verdict(found, job[h].frame))
    BY <2>1 DEF Looks
  <2>5. job[h].wasGranted => job[h].frame.seq \in granted
    BY <1>3, <1>j, <2>4 DEF Recalls, Judged
  <2>6. job[h].wasGranted => Verdict(found, job[h].frame) = "replay"
    BY <1>3, <2>3, <2>5 DEF Kept, Verdict
  <2>7. /\ job'[h].frame = job[h].frame /\ job'[h].wasGranted = job[h].wasGranted
        /\ job'[h].reason = Verdict(found, job[h].frame)
        /\ job'[h].pc = (IF job'[h].reason = "ok" THEN "remember" ELSE "detector")
    BY <2>4 DEF Judged
  <2>8. ~ (job'[h].pc \in After /\ job'[h].reason = "ok")
    BY <2>7 DEF After
  <2>9. job'[h].wasGranted =>
           /\ job'[h].frame.seq \in granted
           /\ job'[h].pc \notin {"remember", "remembering", "policy"}
           /\ job'[h].reason # "ok"
    BY <2>5, <2>6, <2>7
  <2>10. Recalls(job'[h], win, granted)
    BY <2>8, <2>9, Zenon DEF Recalls
  <2> QED
    BY <1>3, <2>2, <2>10
<1>9. CASE BeginRemember(h) /\ Moves(h, "remembering")
  <2>1. win' = win /\ granted' = granted /\ job[h].pc = "remember"
    BY <1>9 DEF BeginRemember, shared, At
  <2>2. /\ job[h] \in JobType /\ job'[h].pc = "remembering"
        /\ job'[h].wasGranted = job[h].wasGranted
    BY <1>9 DEF Moves
  <2>3. ~ job[h].wasGranted
    BY <1>3, <1>j, <2>1, <2>2 DEF Recalls
  <2>4. Recalls(job'[h], win, granted)
    BY <2>2, <2>3 DEF Recalls, After
  <2> QED
    BY <1>3, <2>1, <2>4
<1>10. CASE EndRemember(h) /\ Moves(h, "detector")
  <2>1. /\ job[h] \in JobType /\ job'[h].pc = "detector" /\ job'[h].frame = job[h].frame
        /\ job'[h].wasGranted = job[h].wasGranted
    BY <1>10 DEF Moves
  <2>2. /\ job[h].pc = "remembering" /\ granted' = granted
        /\ win' = remember(win, job[h].frame.seq)
        /\ win' = win \/ ~ (job[h].frame.seq < win.maxSeen)
    BY <1>2, <1>10 DEF EndRemember, At
  <2>3. job[h].frame.seq \in Nat
    BY <1>1, <2>1, FrameFacts
  <2>4. win # NoWindow
    BY <1>1, <1>j, <2>1, <2>2 DEF StageOK, At
  <2>5. win \in WindowType /\ InOrder(win)
    BY <1>1, <1>3, <2>4 DEF TypeOK, WindowType, Kept
  <2>6. /\ InOrder(win') /\ contains(win', job[h].frame.seq)
        /\ \A n \in Nat : contains(win, n) => contains(win', n)
    BY <2>2, <2>3, <2>5, RememberInOrder
  <2>7. win' # NoWindow
    <3>1. win' \in WindowType
      BY <2>2, <2>3, <2>5, RememberType
    <3> QED
      BY <3>1, HandlersAssumption DEF WindowType
  <2>8. Kept(win', granted')
    BY <1>1, <1>3, <2>2, <2>6, <2>7 DEF Kept
  <2>9. ~ job[h].wasGranted
    BY <1>3, <1>j, <2>1, <2>2 DEF Recalls
  <2>10. Recalls(job'[h], win', granted')
    BY <2>1, <2>6, <2>9 DEF Recalls
  <2> QED
    BY <2>2, <2>6, <2>8, <2>10
<1>11. CASE Stops(h) \/ DropsBack(h) \/ TellsReplay(h) \/ TellsTag(h)
  <2>1. win' = win /\ granted' = granted /\ job'[h] = Idle
    BY <1>11 DEF Stops, DropsBack, TellsReplay, TellsTag, Leaves, checkQuarantine, checkSequence,
                 reportVerdict, shared, history
  <2> QED
    BY <1>3, <1>i, <2>1
<1>14. CASE denyNonce(h) /\ Leaves(h)
  <2>1. win' = win /\ granted' = granted /\ job'[h] = Idle
    BY <1>14 DEF Leaves, denyNonce, history
  <2> QED
    BY <1>3, <1>i, <2>1
<1>12. CASE Passes(h) \/ FollowsOn(h) \/ TellsSuccess(h)
  <2>1. /\ win' = win /\ granted' = granted
        /\ job[h].pc \in {"detector", "sequence", "report"}
    BY <1>12 DEF Passes, FollowsOn, TellsSuccess, checkQuarantine, checkSequence, reportVerdict,
                 shared, history, At
  <2>2. /\ job[h] \in JobType /\ job'[h].frame = job[h].frame /\ job'[h].reason = job[h].reason
        /\ job'[h].wasGranted = job[h].wasGranted
        /\ job'[h].pc \in {"sequence", "mismatch", "report", "policy"}
        /\ job'[h].pc = "policy" => job[h].reason = "ok"
    BY <1>12 DEF Passes, FollowsOn, TellsSuccess, Moves
  <2>3. /\ job[h].reason = "ok" => contains(win, job[h].frame.seq)
        /\ job[h].wasGranted => job[h].frame.seq \in granted /\ job[h].reason # "ok"
    BY <1>3, <1>j, <2>1, <2>2 DEF Recalls, After
  <2>4. Recalls(job'[h], win, granted)
    <3>1. job'[h].reason = "ok" => contains(win, job'[h].frame.seq)
      BY <2>2, <2>3
    <3>2. job'[h].wasGranted =>
             /\ job'[h].frame.seq \in granted
             /\ job'[h].pc \notin {"remember", "remembering", "policy"}
             /\ job'[h].reason # "ok"
      BY <2>2, <2>3
    <3> QED
      BY <3>1, <3>2, Zenon DEF Recalls
  <2> QED
    BY <1>3, <2>1, <2>4
<1>13. CASE checkAccessPolicy(h) /\ Leaves(h)
  <2>1. /\ win' = win /\ job[h].pc = "policy" /\ job[h] \in JobType /\ job'[h] = Idle
        /\ granted' \in {granted, granted \cup {job[h].frame.seq}}
    BY <1>13 DEF checkAccessPolicy, shared, At, Leaves
  <2>2. job[h].reason = "ok" /\ win # NoWindow
    BY <1>1, <1>j, <2>1 DEF StageOK, At
  <2>3. contains(win, job[h].frame.seq)
    BY <1>3, <1>j, <2>1, <2>2 DEF Recalls, After
  <2>4. Kept(win', granted')
    BY <1>3, <2>1, <2>2, <2>3 DEF Kept
  <2> QED
    BY <1>i, <2>1, <2>4
<1> QED
  BY <1>6, <1>7, <1>8, <1>9, <1>10, <1>11, <1>12, <1>13, <1>14 DEF Shape

LEMMA RememberedStep == BaseOK /\ RememberedOK /\ [Next]_vars => RememberedOK'
<1> SUFFICES ASSUME BaseOK, RememberedOK, [Next]_vars, ~ raced', ~ reordered'
             PROVE  Kept(win', granted') /\ \A g \in Handlers : Recalls(job'[g], win', granted')
  BY RememberedParts
<1>0. ~ raced /\ ~ reordered => Kept(win, granted)
                                /\ \A g \in Handlers : Recalls(job[g], win, granted)
  BY RememberedParts
<1>1. CASE \E h \in Handlers : Step(h)
  <2>1. PICK h \in Handlers : Step(h)
    BY <1>1
  <2>2. Shape(h)
    BY <2>1, StepShape DEF BaseOK
  <2> QED
    BY <1>0, <2>2, StepRemembers
<1>2. CASE UnquarantineReader
  <2>1. Released
    BY <1>2, ReleaseShape
  <2>2. win' = win /\ granted' = granted /\ raced' = raced /\ reordered' = reordered
    BY <1>2 DEF UnquarantineReader, history
  <2>3. Kept(win, granted) /\ \A g \in Handlers : Recalls(job[g], win, granted)
    BY <1>0, <2>2
  <2>4. Recalls(job'["local"], win, granted)
    BY <2>1, <2>3 DEF Released, Handlers
  <2>5. Recalls(job'["endpoint"], win, granted)
    <3>1. CASE job["endpoint"] \in JobType
      <4>1. /\ Busy(job["endpoint"]) <=> Busy(job'["endpoint"])
            /\ job'["endpoint"].pc = job["endpoint"].pc
            /\ job'["endpoint"].frame = job["endpoint"].frame
            /\ job'["endpoint"].reason = job["endpoint"].reason
            /\ job'["endpoint"].wasGranted = job["endpoint"].wasGranted
        BY <2>1, <3>1 DEF Released, Busy
      <4>2. Recalls(job["endpoint"], win, granted)
        BY <2>3 DEF Handlers
      <4> QED
        BY <4>1, <4>2, Zenon DEF Recalls
    <3>2. CASE job["endpoint"] \notin JobType
      BY <2>1, <2>3, <3>2 DEF Released, Handlers
    <3> QED
      BY <3>1, <3>2
  <2> QED
    BY <2>2, <2>3, <2>4, <2>5 DEF Handlers
<1>3. CASE Crash
  BY <1>3 DEF Crash, history
<1>4. CASE Rest \/ UNCHANGED vars
  <2>1. job' = job /\ win' = win /\ granted' = granted /\ raced' = raced /\ reordered' = reordered
    BY <1>4 DEF Rest, vars, shared, history
  <2> QED
    BY <1>0, <2>1
<1> QED
  BY <1>1, <1>2, <1>3, <1>4 DEF Next

\* A frame whose number was already granted when it arrived never reaches the
\* policy, for any capacity of the window, unless the two threads raced on the
\* window or a number was inserted below the maximum.
THEOREM NeverRegrantedLater == Spec => []NoRegrantLater
<1>1. Init => RememberedOK
  <2> SUFFICES ASSUME Init
               PROVE  Kept(win, granted) /\ \A h \in Handlers : Recalls(job[h], win, granted)
    BY RememberedParts
  <2>1. win = NoWindow /\ granted = {} /\ \A h \in Handlers : job[h] = Idle
    BY DEF Init
  <2>2. ~ Busy(Idle)
    BY DEF Busy, Stages, Idle
  <2> QED
    BY <2>1, <2>2 DEF Kept, Recalls
<1>2. RememberedOK => NoRegrantLater
  <2> SUFFICES ASSUME RememberedOK, NEW h \in Handlers, At(h, "policy"), job[h].wasGranted,
                      ~ raced, ~ reordered
               PROVE  FALSE
    BY DEF NoRegrantLater
  <2>1. Recalls(job[h], win, granted)
    BY RememberedParts
  <2> QED
    BY <2>1 DEF Recalls, At, Busy, Stages
<1> QED
  BY <1>1, <1>2, BaseInit, BaseStep, RememberedStep, PTL DEF Spec
-----------------------------------------------------------------------------
(* The frames received, and what they explain.                             *)

Places(q, B) == {i \in 1..Len(q) : q[i] \in B}

\* A frame that arrives is counted where it belongs.
LEMMA CountAppend ==
    ASSUME NEW q \in Seq(Frames), NEW f \in Frames, NEW B
    PROVE  /\ Cardinality(Places(q, B)) \in Nat
           /\ Cardinality(Places(Append(q, f), B)) =
                 Cardinality(Places(q, B)) + (IF f \in B THEN 1 ELSE 0)
<1>1. /\ Len(q) \in Nat /\ Len(Append(q, f)) = Len(q) + 1 /\ Append(q, f)[Len(q) + 1] = f
      /\ \A i \in 1..Len(q) : Append(q, f)[i] = q[i]
  OBVIOUS
<1> DEFINE l == Len(q)
           P == Places(q, B)
           r == Append(q, f)
<1>2. l \in Nat /\ Len(r) = l + 1 /\ r[l + 1] = f /\ \A i \in 1..l : r[i] = q[i]
  BY <1>1
<1>3. P = {i \in 1..l : q[i] \in B} /\ Places(r, B) = {i \in 1..(l + 1) : r[i] \in B}
  BY <1>2 DEF Places
<1> HIDE DEF l, P, r
<1>4. IsFiniteSet(P) /\ Cardinality(P) \in Nat
  <2>1. 1 \in Int /\ l \in Int
    BY <1>2
  <2>2. IsFiniteSet(1..l)
    BY <2>1, FS_Interval
  <2>3. P \in SUBSET (1..l)
    BY <1>3
  <2>4. IsFiniteSet(P)
    BY <2>2, <2>3, FS_Subset
  <2> QED
    BY <2>4, FS_CardinalityType
<1>5. l + 1 \notin P /\ \A i \in 1..(l + 1) : i \in 1..l \/ i = l + 1
  BY <1>2, <1>3
<1>6. l + 1 \in 1..(l + 1) /\ \A i \in 1..l : i \in 1..(l + 1)
  BY <1>2
<1>7. CASE f \in B
  <2>1. Places(r, B) = P \cup {l + 1}
    BY <1>2, <1>3, <1>5, <1>6, <1>7
  <2>2. Cardinality(P \cup {l + 1}) = IF l + 1 \in P THEN Cardinality(P) ELSE Cardinality(P) + 1
    BY <1>4, FS_AddElement
  <2> QED
    BY <1>4, <1>5, <1>7, <2>1, <2>2 DEF P, r
<1>8. CASE f \notin B
  <2>1. Places(r, B) = P
    BY <1>2, <1>3, <1>5, <1>6, <1>8
  <2> QED
    BY <1>4, <1>8, <2>1 DEF P, r
<1> QED
  BY <1>7, <1>8

Numbered(n) == {f \in Frames : f.seq = n}
BadTag == {f \in Frames : ~ f.tagOk}

LEMMA CountsAre ==
    ASSUME received \in Seq(Frames)
    PROVE  /\ \A n : Copies(n) = Cardinality(Places(received, Numbered(n)))
           /\ WrongTags = Cardinality(Places(received, BadTag))
<1>1. \A i \in 1..Len(received) : received[i] \in Frames
  OBVIOUS
<1>2. \A n : {i \in 1..Len(received) : received[i].seq = n} = Places(received, Numbered(n))
  BY <1>1, Zenon DEF Places, Numbered
<1>3. {i \in 1..Len(received) : ~ received[i].tagOk} = Places(received, BadTag)
  BY <1>1, Zenon DEF Places, BadTag
<1> QED
  BY <1>2, <1>3, Zenon DEF Copies, WrongTags

LEMMA CountsAreNext ==
    ASSUME received' \in Seq(Frames)
    PROVE  /\ \A n : Copies(n)' = Cardinality(Places(received', Numbered(n)))
           /\ WrongTags' = Cardinality(Places(received', BadTag))
<1>1. \A i \in 1..Len(received') : received'[i] \in Frames
  OBVIOUS
<1>2. \A n : {i \in 1..Len(received') : received'[i].seq = n} = Places(received', Numbered(n))
  BY <1>1, Zenon DEF Places, Numbered
<1>3. {i \in 1..Len(received') : ~ received'[i].tagOk} = Places(received', BadTag)
  BY <1>1, Zenon DEF Places, BadTag
<1> QED
  BY <1>2, <1>3, Zenon DEF Copies, WrongTags

\* What a frame adds.
Adds(f, n) == IF f.seq = n THEN 1 ELSE 0
AddsTag(f) == IF ~ f.tagOk THEN 1 ELSE 0

LEMMA ReceivedMore ==
    ASSUME TypeOK, NEW f \in Frames, received' = Append(received, f)
    PROVE  /\ Received' = Received \cup {f}
           /\ \A n : Copies(n) \in Nat /\ Copies(n)' = Copies(n) + Adds(f, n)
           /\ WrongTags \in Nat /\ WrongTags' = WrongTags + AddsTag(f)
<1>1. received \in Seq(Frames) /\ received' \in Seq(Frames)
  BY DEF TypeOK
<1>2. \A n : Copies(n) \in Nat /\ Copies(n)' = Copies(n) + Adds(f, n)
  <2> SUFFICES ASSUME NEW n
               PROVE  Copies(n) \in Nat /\ Copies(n)' = Copies(n) + Adds(f, n)
    OBVIOUS
  <2>1. Copies(n) = Cardinality(Places(received, Numbered(n)))
        /\ Copies(n)' = Cardinality(Places(received', Numbered(n)))
    BY <1>1, CountsAre, CountsAreNext
  <2>2. /\ Cardinality(Places(received, Numbered(n))) \in Nat
        /\ Cardinality(Places(Append(received, f), Numbered(n))) =
              Cardinality(Places(received, Numbered(n))) + (IF f \in Numbered(n) THEN 1 ELSE 0)
    BY <1>1, CountAppend
  <2>3. f \in Numbered(n) <=> f.seq = n
    BY DEF Numbered
  <2> QED
    BY <2>1, <2>2, <2>3 DEF Adds
<1>3. WrongTags \in Nat /\ WrongTags' = WrongTags + AddsTag(f)
  <2>1. WrongTags = Cardinality(Places(received, BadTag))
        /\ WrongTags' = Cardinality(Places(received', BadTag))
    BY <1>1, CountsAre, CountsAreNext
  <2>2. /\ Cardinality(Places(received, BadTag)) \in Nat
        /\ Cardinality(Places(Append(received, f), BadTag)) =
              Cardinality(Places(received, BadTag)) + (IF f \in BadTag THEN 1 ELSE 0)
    BY <1>1, CountAppend
  <2>3. f \in BadTag <=> ~ f.tagOk
    BY DEF BadTag
  <2> QED
    BY <2>1, <2>2, <2>3 DEF AddsTag
<1>4. Received' = Received \cup {f}
  <2> DEFINE l == Len(received)
  <2>1. /\ l \in Nat /\ Len(received') = l + 1 /\ received'[l + 1] = f
        /\ \A i \in 1..l : received'[i] = received[i]
    BY <1>1
  <2>2. Received = {received[i] : i \in 1..l} /\ Received' = {received'[i] : i \in 1..(l + 1)}
    BY <2>1 DEF Received
  <2> HIDE DEF l
  <2>3. \A i \in 1..(l + 1) : i \in 1..l \/ i = l + 1
    BY <2>1
  <2>4. l + 1 \in 1..(l + 1) /\ \A i \in 1..l : i \in 1..(l + 1)
    BY <2>1
  <2> QED
    BY <2>1, <2>2, <2>3, <2>4
<1> QED
  BY <1>2, <1>3, <1>4

\* A cause remains one.
Explains ==
    /\ Received \subseteq Received'
    /\ ReuseCause => ReuseCause'
    /\ RollbackCause => RollbackCause'
    /\ NonceCause => NonceCause'
    /\ TagCause => TagCause'

LEMMA CausesSame ==
    ASSUME received' = received, raced => raced'
    PROVE  /\ Received' = Received /\ WrongTags' = WrongTags /\ \A n : Copies(n)' = Copies(n)
           /\ Explains
<1>1. Received' = Received /\ WrongTags' = WrongTags /\ \A n : Copies(n)' = Copies(n)
  BY DEF Received, WrongTags, Copies
<1>2. ReuseCause => ReuseCause'
  BY <1>1 DEF ReuseCause
<1>3. RollbackCause => RollbackCause'
  BY <1>1 DEF RollbackCause
<1>4. NonceCause => NonceCause'
  BY <1>1 DEF NonceCause
<1>5. TagCause => TagCause'
  BY <1>1 DEF TagCause
<1> QED
  BY <1>1, <1>2, <1>3, <1>4, <1>5 DEF Explains

LEMMA CausesMore ==
    ASSUME TypeOK, NEW f \in Frames, received' = Append(received, f), raced' = raced
    PROVE  Explains
<1>1. /\ Received' = Received \cup {f}
      /\ \A n : Copies(n) \in Nat /\ Copies(n)' = Copies(n) + Adds(f, n)
      /\ WrongTags \in Nat /\ WrongTags' = WrongTags + AddsTag(f)
  BY ReceivedMore
<1>2. Received \subseteq Received'
  BY <1>1
<1>3. ReuseCause => ReuseCause'
  <2>1. \A n : Copies(n) > 1 => Copies(n)' > 1
    BY <1>1 DEF Adds
  <2>2. CASE raced
    BY <2>2 DEF ReuseCause
  <2>3. CASE \E n \in 0..(SeqModulus - 1) : Copies(n) > 1
    <3>1. \E n \in 0..(SeqModulus - 1) : Copies(n)' > 1
      BY <2>1, <2>3
    <3> QED
      BY <3>1 DEF ReuseCause
  <2>4. CASE \E a, b \in Received : a.seq + Window <= b.seq
    <3>1. \E a, b \in Received' : a.seq + Window <= b.seq
      BY <1>2, <2>4
    <3> QED
      BY <3>1 DEF ReuseCause
  <2> QED
    BY <2>2, <2>3, <2>4 DEF ReuseCause
<1>4. RollbackCause => RollbackCause'
  BY <1>2 DEF RollbackCause
<1>5. NonceCause => NonceCause'
  BY <1>2 DEF NonceCause
<1>6. TagCause => TagCause'
  <2>1. WrongTags' >= WrongTags
    BY <1>1 DEF AddsTag
  <2>2. WrongTags' \in Nat
    BY <1>1 DEF AddsTag
  <2> QED
    BY <1>1, <2>1, <2>2, DetectorAssumption DEF TagCause
<1> QED
  BY <1>2, <1>3, <1>4, <1>5, <1>6 DEF Explains

\* Every step of a handler but the first leaves the frames received alone.
LEMMA StepReceives ==
    ASSUME BaseOK, NEW h \in Handlers, Shape(h)
    PROVE  /\ Explains
           /\ \/ received' = received
              \/ \E f \in Frames : Receive(h, f) /\ Begins(h, f)
<1>1. CASE \E f \in Frames : Receive(h, f) /\ Begins(h, f)
  <2>1. PICK f \in Frames : Receive(h, f)
    BY <1>1
  <2>2. received' = Append(received, f) /\ raced' = raced
    BY <2>1 DEF Receive
  <2> QED
    BY <1>1, <2>2, CausesMore DEF BaseOK
<1>2. CASE received' = received
  BY <1>2, StepKeepsHistory, CausesSame
<1>3. CASE getOrCreateWindow(h) \/ BeginRemember(h) \/ EndRemember(h) \/ checkAccessPolicy(h)
  <2>1. received' = received
    BY <1>3 DEF getOrCreateWindow, BeginRemember, EndRemember, checkAccessPolicy
  <2> QED
    BY <1>2, <2>1
<1>4. CASE checkReplay(h) \/ checkQuarantine(h) \/ checkSequence(h) \/ denyNonce(h) \/ reportVerdict(h)
  <2>1. received' = received
    BY <1>4 DEF checkReplay, checkQuarantine, checkSequence, denyNonce, reportVerdict, history
  <2> QED
    BY <1>2, <2>1
<1> QED
  BY <1>1, <1>3, <1>4
     DEF Shape, Looks, Stops, Passes, DropsBack, FollowsOn, TellsSuccess, TellsReplay, TellsTag
-----------------------------------------------------------------------------
(* The maxima.                                                             *)

Known(m, R) == m # 0 => \E g \in R : g.seq = m

LEMMA StepKnown ==
    ASSUME BaseOK, KnownOK, FrameOK, NEW h \in Handlers, Shape(h)
    PROVE  KnownOK'
<1>1. TypeOK /\ StageOK /\ det \in ReaderState
  BY DEF BaseOK, TypeOK
<1>2. (win # NoWindow => Known(win.maxSeen, Received)) /\ Known(det.maxSeenSeq, Received)
  BY DEF KnownOK, Known
<1>3. Received \subseteq Received'
  BY StepReceives DEF Explains
<1>4. \A m : Known(m, Received) => Known(m, Received')
  BY <1>3 DEF Known
<1>5. job[h] \in JobType => job[h].frame \in Received /\ Known(job[h].frame.seq, Received')
  BY <1>1, <1>3, BusyJobs DEF FrameOK, Known
<1> SUFFICES (win' # NoWindow => Known(win'.maxSeen, Received')) /\ Known(det'.maxSeenSeq, Received')
  BY DEF KnownOK, Known
<1>6. CASE win' = win /\ det' = det
  BY <1>2, <1>4, <1>6
<1>7. CASE \/ \E f \in Frames : Receive(h, f) /\ Begins(h, f)
           \/ \E found \in BOOLEAN : Looks(h, found)
           \/ Stops(h) \/ Passes(h)
  <2>1. win' = win /\ det' = det
    BY <1>7 DEF Receive, Looks, checkReplay, Stops, Passes, checkQuarantine, shared
  <2> QED
    BY <1>6, <2>1
<1>8. CASE BeginRemember(h) \/ checkAccessPolicy(h)
  <2>1. win' = win /\ det' = det
    BY <1>8 DEF BeginRemember, checkAccessPolicy, shared
  <2> QED
    BY <1>6, <2>1
<1>9. CASE getOrCreateWindow(h)
  <2>1. det' = det /\ (win' = win \/ win' = FreshWindow)
    BY <1>9 DEF getOrCreateWindow
  <2>2. Known(FreshWindow.maxSeen, Received')
    BY DEF FreshWindow, Known
  <2> QED
    BY <1>2, <1>4, <2>1, <2>2
<1>10. CASE EndRemember(h) /\ Moves(h, "detector")
  <2>1. /\ det' = det /\ (win' = win \/ win' = remember(win, job[h].frame.seq))
        /\ job[h].pc = "remembering" /\ job[h] \in JobType
    BY <1>10 DEF EndRemember, Moves, At
  <2>2. win # NoWindow /\ job[h].frame.seq \in Nat
    BY <1>1, <2>1, FrameFacts DEF StageOK, At
  <2>3. win \in WindowType
    BY <1>1, <2>2 DEF TypeOK, WindowType
  <2>4. win'.maxSeen \in {win.maxSeen, job[h].frame.seq}
    BY <2>1, <2>2, <2>3, RememberType
  <2> QED
    BY <1>2, <1>4, <1>5, <2>1, <2>2, <2>4
<1>11. CASE DropsBack(h) \/ FollowsOn(h)
  <2>1. /\ win' = win /\ job[h] \in JobType
        /\ det' = IF job[h].frame.seq > 0 THEN reportSeq(det, job[h].frame.seq) ELSE det
    BY <1>11 DEF DropsBack, FollowsOn, checkSequence, Leaves, Moves
  <2>2. det'.maxSeenSeq \in {det.maxSeenSeq, job[h].frame.seq}
    BY <1>1, <2>1, FrameFacts, DetectorFacts
  <2> QED
    BY <1>2, <1>4, <1>5, <2>1, <2>2
<1>12. CASE denyNonce(h) /\ Leaves(h)
  <2>1. win' = win /\ det' = reportNonceMismatch(det) /\ job[h] \in JobType
    BY <1>12 DEF denyNonce, Leaves
  <2>2. det'.maxSeenSeq = det.maxSeenSeq
    BY <1>1, <2>1, FrameFacts, DetectorFacts
  <2> QED
    BY <1>2, <1>4, <2>1, <2>2
<1>13. CASE TellsSuccess(h) \/ TellsReplay(h) \/ TellsTag(h)
  <2>1. /\ win' = win /\ job[h] \in JobType
        /\ det' \in {reportSuccess(det, job[h].frame.seq), reportReplay(det), reportTagFailure(det)}
    BY <1>13 DEF TellsSuccess, TellsReplay, TellsTag, reportVerdict, Leaves, Moves
  <2>2. det'.maxSeenSeq \in {det.maxSeenSeq, job[h].frame.seq}
    BY <1>1, <2>1, FrameFacts, DetectorFacts
  <2> QED
    BY <1>2, <1>4, <1>5, <2>1, <2>2
<1> QED
  BY <1>7, <1>8, <1>9, <1>10, <1>11, <1>12, <1>13 DEF Shape
-----------------------------------------------------------------------------
(* Copies of a number, and wrong tags.                                     *)

Other(h) == IF h = "endpoint" THEN "local" ELSE "endpoint"

LEMMA TwoOfThem ==
    ASSUME NEW h \in Handlers
    PROVE  Other(h) \in Handlers /\ Other(h) # h /\ Handlers = {h, Other(h)}
BY DEF Handlers, Other

LEMMA CopiesNat ==
    ASSUME TypeOK
    PROVE  WrongTags \in Nat /\ \A n : Copies(n) \in Nat
<1>1. PICK f : f \in Frames
  BY HandlersAssumption
<1>2. received \in Seq(Frames)
  BY DEF TypeOK
<1>3. \A B : Cardinality(Places(received, B)) \in Nat
  BY <1>1, <1>2, CountAppend
<1> QED
  BY <1>2, <1>3, CountsAre

\* The two sums do not depend on whose step it is.
LEMMA Sums ==
    ASSUME TypeOK, TypeOK', NEW h \in Handlers
    PROVE  /\ CopiesOK <=> \A n \in Nat : Inserted(win, n) + OnItsWay(job[h], n)
                                             + OnItsWay(job[Other(h)], n) <= Copies(n)
           /\ CopiesOK' <=> \A n \in Nat : Inserted(win', n) + OnItsWay(job'[h], n)
                                              + OnItsWay(job'[Other(h)], n) <= Copies(n)'
           /\ TagsOK <=> det.consecutiveTagFails + Unreported(job[h])
                            + Unreported(job[Other(h)]) <= WrongTags
           /\ TagsOK' <=> det'.consecutiveTagFails + Unreported(job'[h])
                             + Unreported(job'[Other(h)]) <= WrongTags'
<1>0. \A v, n : OnItsWay(v, n) \in Nat
  BY DEF OnItsWay
<1>1. \A v : Unreported(v) \in Nat
  BY DEF Unreported
<1>2. \A w, n : Inserted(w, n) \in Nat
  BY DEF Inserted
<1>6. det.consecutiveTagFails \in Nat /\ det'.consecutiveTagFails \in Nat
  BY DEF TypeOK, ReaderState
<1>3. \A a, b, c \in Nat : (a + b) + c = (a + c) + b
  OBVIOUS
<1>4. CASE h = "endpoint"
  BY <1>4, Zenon DEF Other, CopiesOK, TagsOK
<1>5. CASE h = "local"
  <2>1. Other(h) = "endpoint"
    BY <1>5 DEF Other
  <2>2. \A n : /\ Inserted(win, n) + OnItsWay(job[h], n) + OnItsWay(job[Other(h)], n)
                  = Inserted(win, n) + OnItsWay(job["endpoint"], n) + OnItsWay(job["local"], n)
               /\ Inserted(win', n) + OnItsWay(job'[h], n) + OnItsWay(job'[Other(h)], n)
                  = Inserted(win', n) + OnItsWay(job'["endpoint"], n) + OnItsWay(job'["local"], n)
    BY <1>0, <1>2, <1>3, <1>5, <2>1
  <2>3. /\ det.consecutiveTagFails + Unreported(job[h]) + Unreported(job[Other(h)])
           = det.consecutiveTagFails + Unreported(job["endpoint"]) + Unreported(job["local"])
        /\ det'.consecutiveTagFails + Unreported(job'[h]) + Unreported(job'[Other(h)])
           = det'.consecutiveTagFails + Unreported(job'["endpoint"]) + Unreported(job'["local"])
    BY <1>1, <1>3, <1>5, <1>6, <2>1
  <2> QED
    BY <2>2, <2>3, Zenon DEF CopiesOK, TagsOK
<1> QED
  BY <1>4, <1>5 DEF Handlers

LEMMA StepCopies ==
    ASSUME BaseOK, BaseOK', CopiesOK, NEW h \in Handlers, Shape(h)
    PROVE  CopiesOK'
<1>1. TypeOK /\ TypeOK' /\ StageOK
  BY DEF BaseOK
<1> SUFFICES ASSUME NEW n \in Nat
             PROVE  Inserted(win', n) + OnItsWay(job'[h], n) + OnItsWay(job'[Other(h)], n)
                       <= Copies(n)'
  BY <1>1, Sums
<1>2. Inserted(win, n) + OnItsWay(job[h], n) + OnItsWay(job[Other(h)], n) <= Copies(n)
  BY <1>1, Sums
<1>3. \A w, v : Inserted(w, n) \in 0..1 /\ OnItsWay(v, n) \in 0..1
  BY DEF Inserted, OnItsWay
<1>4. Copies(n) \in Nat
  BY <1>1, CopiesNat
<1>5. Others(h)
  BY DEF Shape, Begins, Moves, Leaves, Looks, Judged, Stops, Passes, DropsBack, FollowsOn,
         TellsSuccess, TellsReplay, TellsTag
<1>6. job'[Other(h)] = job[Other(h)]
  BY <1>5, TwoOfThem DEF Others
<1>7. SUFFICES \E a \in Nat :
                  /\ Copies(n)' = Copies(n) + a
                  /\ Inserted(win', n) + OnItsWay(job'[h], n)
                        <= Inserted(win, n) + OnItsWay(job[h], n) + a
  <2>1. PICK a \in Nat : /\ Copies(n)' = Copies(n) + a
                         /\ Inserted(win', n) + OnItsWay(job'[h], n)
                               <= Inserted(win, n) + OnItsWay(job[h], n) + a
    BY <1>7
  <2>2. \A i, j, k, l, m, c \in Nat :
           i + j + k <= c /\ l + m <= i + j + a => l + m + k <= c + a
    OBVIOUS
  <2>3. /\ Inserted(win, n) \in Nat /\ OnItsWay(job[h], n) \in Nat
        /\ OnItsWay(job[Other(h)], n) \in Nat /\ Inserted(win', n) \in Nat
        /\ OnItsWay(job'[h], n) \in Nat
    BY <1>3
  <2> QED
    BY <1>2, <1>4, <1>6, <2>1, <2>2, <2>3
<1>8. CASE \E f \in Frames : Receive(h, f) /\ Begins(h, f)
  <2>1. PICK f \in Frames : Receive(h, f) /\ Begins(h, f)
    BY <1>8
  <2>2. win' = win /\ received' = Append(received, f) /\ job[h].pc = "idle"
    BY <2>1 DEF Receive, shared, At
  <2>3. Copies(n)' = Copies(n) + Adds(f, n)
    BY <1>1, <2>2, ReceivedMore
  <2>4. OnItsWay(job'[h], n) = Adds(f, n) /\ OnItsWay(job[h], n) = 0 /\ Adds(f, n) \in Nat
    BY <2>1, <2>2 DEF Begins, OnItsWay, Adds
  <2>5. Inserted(win', n) + OnItsWay(job'[h], n)
           <= Inserted(win, n) + OnItsWay(job[h], n) + Adds(f, n)
    BY <1>3, <2>2, <2>4
  <2> QED
    BY <2>3, <2>4, <2>5
<1>9. CASE received' = received
  <2>1. Copies(n)' = Copies(n) + 0
    <3>1. Copies(n)' = Copies(n)
      BY <1>9, StepKeepsHistory, CausesSame
    <3> QED
      BY <1>4, <3>1
  <2>2. SUFFICES Inserted(win', n) + OnItsWay(job'[h], n)
                   <= Inserted(win, n) + OnItsWay(job[h], n)
    <3>1. \A x \in Nat : x + 0 = x
      OBVIOUS
    <3>2. Inserted(win, n) + OnItsWay(job[h], n) \in Nat
      BY <1>3
    <3> QED
      BY <2>1, <2>2, <3>1, <3>2
  <2>3. CASE win' = win /\ OnItsWay(job'[h], n) <= OnItsWay(job[h], n)
    BY <1>3, <2>3
  <2>4. CASE \E f \in Frames : Receive(h, f) /\ Begins(h, f)
    <3>1. PICK f \in Frames : received' = Append(received, f)
      BY <2>4 DEF Receive
    <3>2. Len(received') = Len(received) + 1 /\ Len(received) \in Nat
      BY <1>1, <3>1 DEF TypeOK
    <3> QED
      BY <1>9, <3>2
  <2>5. CASE getOrCreateWindow(h) /\ Moves(h, "contains")
    <3>1. OnItsWay(job'[h], n) = OnItsWay(job[h], n)
      BY <2>5 DEF getOrCreateWindow, Moves, At, OnItsWay
    <3>2. win' = win \/ win' = FreshWindow
      BY <2>5 DEF getOrCreateWindow
    <3>3. Inserted(FreshWindow, n) = 0
      BY DEF FreshWindow, Inserted
    <3> QED
      BY <1>3, <3>1, <3>2, <3>3
  <2>6. CASE \E found \in BOOLEAN : Looks(h, found)
    <3>1. win' = win /\ job[h].pc = "contains" /\ job'[h].frame = job[h].frame
      BY <2>6 DEF Looks, checkReplay, shared, Judged, At
    <3>2. OnItsWay(job'[h], n) <= OnItsWay(job[h], n)
      BY <3>1 DEF OnItsWay
    <3> QED
      BY <2>3, <3>1, <3>2
  <2>7. CASE BeginRemember(h) /\ Moves(h, "remembering")
    <3>1. win' = win /\ job[h].pc = "remember" /\ job'[h].frame = job[h].frame
      BY <2>7 DEF BeginRemember, shared, Moves, At
    <3>2. OnItsWay(job'[h], n) <= OnItsWay(job[h], n)
      BY <3>1 DEF OnItsWay
    <3> QED
      BY <2>3, <3>1, <3>2
  <2>8. CASE EndRemember(h) /\ Moves(h, "detector")
    <3>1. /\ win' = win \/ win' = remember(win, job[h].frame.seq)
          /\ job[h].pc = "remembering" /\ job[h] \in JobType /\ job'[h].pc = "detector"
      BY <2>8 DEF EndRemember, Moves, At
    <3>2. win # NoWindow /\ job[h].frame.seq \in Nat
      BY <1>1, <3>1, FrameFacts DEF StageOK, At
    <3>3. win \in WindowType
      BY <1>1, <3>2 DEF TypeOK, WindowType
    <3>4. win'.seen \subseteq win.seen \cup {job[h].frame.seq}
      BY <3>1, <3>2, <3>3, RememberType
    <3>5. OnItsWay(job'[h], n) = 0
      BY <3>1 DEF OnItsWay
    <3>6. CASE n = job[h].frame.seq
      <4>1. OnItsWay(job[h], n) = 1
        BY <3>1, <3>6 DEF OnItsWay
      <4> QED
        BY <1>3, <3>5, <4>1
    <3>7. CASE n # job[h].frame.seq
      <4>1. Inserted(win', n) <= Inserted(win, n)
        BY <3>2, <3>4, <3>7 DEF Inserted
      <4> QED
        BY <1>3, <3>5, <4>1
    <3> QED
      BY <3>6, <3>7
  <2>9. CASE Leaves(h) /\ win' = win
    <3>1. OnItsWay(job'[h], n) = 0
      BY <2>9 DEF Leaves, OnItsWay, Idle
    <3> QED
      BY <1>3, <2>9, <3>1
  <2>10. CASE Passes(h) \/ FollowsOn(h) \/ TellsSuccess(h)
    <3>1. win' = win /\ job'[h].pc \in {"sequence", "mismatch", "report", "policy"}
      BY <2>10 DEF Passes, FollowsOn, TellsSuccess, checkQuarantine, checkSequence, reportVerdict,
                   shared, Moves
    <3>2. OnItsWay(job'[h], n) = 0
      BY <3>1 DEF OnItsWay
    <3> QED
      BY <1>3, <3>1, <3>2
  <2>11. CASE Stops(h) \/ DropsBack(h) \/ TellsReplay(h) \/ TellsTag(h)
    <3>1. Leaves(h) /\ win' = win
      BY <2>11 DEF Stops, DropsBack, TellsReplay, TellsTag, checkQuarantine, checkSequence,
                   reportVerdict, shared
    <3> QED
      BY <2>9, <3>1
  <2>12. CASE denyNonce(h) /\ Leaves(h)
    BY <2>9, <2>12 DEF denyNonce
  <2>13. CASE checkAccessPolicy(h) /\ Leaves(h)
    BY <2>9, <2>13 DEF checkAccessPolicy, shared
  <2> QED
    BY <2>4, <2>5, <2>6, <2>7, <2>8, <2>10, <2>11, <2>12, <2>13 DEF Shape
<1> QED
  BY <1>8, <1>9, StepReceives

LEMMA StepTags ==
    ASSUME BaseOK, BaseOK', TagsOK, FrameOK, NEW h \in Handlers, Shape(h)
    PROVE  TagsOK'
<1>1. TypeOK /\ TypeOK' /\ det \in ReaderState
  BY DEF BaseOK, TypeOK
<1> DEFINE a0 == det.consecutiveTagFails
           a1 == det'.consecutiveTagFails
<1>2. a0 \in Nat /\ a1 \in Nat
  BY <1>1 DEF TypeOK, ReaderState
<1> SUFFICES a1 + Unreported(job'[h]) + Unreported(job'[Other(h)]) <= WrongTags'
  BY <1>1, Sums
<1>3. a0 + Unreported(job[h]) + Unreported(job[Other(h)]) <= WrongTags
  BY <1>1, Sums
<1>4. \A v : Unreported(v) \in 0..1
  BY DEF Unreported
<1>5. WrongTags \in Nat
  BY <1>1, CopiesNat
<1>6. Others(h)
  BY DEF Shape, Begins, Moves, Leaves, Looks, Judged, Stops, Passes, DropsBack, FollowsOn,
         TellsSuccess, TellsReplay, TellsTag
<1>7. job'[Other(h)] = job[Other(h)]
  BY <1>6, TwoOfThem DEF Others
<1>8. SUFFICES \E a \in Nat : /\ WrongTags' = WrongTags + a
                              /\ a1 + Unreported(job'[h]) <= a0 + Unreported(job[h]) + a
  <2>1. PICK a \in Nat : /\ WrongTags' = WrongTags + a
                         /\ a1 + Unreported(job'[h]) <= a0 + Unreported(job[h]) + a
    BY <1>8
  <2>2. \A i, j, k, l, m, c \in Nat :
           i + j + k <= c /\ l + m <= i + j + a => l + m + k <= c + a
    OBVIOUS
  <2>3. /\ Unreported(job[h]) \in Nat /\ Unreported(job[Other(h)]) \in Nat
        /\ Unreported(job'[h]) \in Nat
    BY <1>4
  <2> HIDE DEF a0, a1
  <2> QED
    BY <1>2, <1>3, <1>5, <1>7, <2>1, <2>2, <2>3
<1>b. \A v \in JobType : Busy(v)
  BY DEF Busy, JobType
<1>9. CASE \E f \in Frames : Receive(h, f) /\ Begins(h, f)
  <2>1. PICK f \in Frames : Receive(h, f) /\ Begins(h, f)
    BY <1>9
  <2>2. det' = det /\ received' = Append(received, f) /\ job[h].pc = "idle"
    BY <2>1 DEF Receive, shared, At
  <2>3. WrongTags' = WrongTags + AddsTag(f)
    BY <1>1, <2>2, ReceivedMore
  <2>4. Unreported(job'[h]) = AddsTag(f) /\ Unreported(job[h]) = 0 /\ AddsTag(f) \in Nat
    BY <1>b, <2>1, <2>2 DEF Begins, Unreported, AddsTag, Busy, Stages
  <2>5. a1 + Unreported(job'[h]) <= a0 + Unreported(job[h]) + AddsTag(f)
    <3>1. a1 = a0
      BY <2>2
    <3> HIDE DEF a0, a1
    <3> QED
      BY <1>2, <2>4, <3>1
  <2> QED
    BY <2>3, <2>4, <2>5
<1>10. CASE received' = received
  <2>1. WrongTags' = WrongTags + 0
    <3>1. WrongTags' = WrongTags
      BY <1>10, StepKeepsHistory, CausesSame
    <3> QED
      BY <1>5, <3>1
  <2>2. SUFFICES a1 + Unreported(job'[h]) <= a0 + Unreported(job[h])
    <3>1. \A x \in Nat : x + 0 = x
      OBVIOUS
    <3>2. a0 + Unreported(job[h]) \in Nat
      BY <1>2, <1>4
    <3> QED
      BY <2>1, <2>2, <3>1, <3>2
  <2>3. CASE a1 <= a0 /\ Unreported(job'[h]) <= Unreported(job[h])
    <3> HIDE DEF a0, a1
    <3> QED
      BY <1>2, <1>4, <2>3
  <2>m. ASSUME job[h] \in JobType, job'[h] \in JobType, job'[h].frame = job[h].frame
        PROVE  Unreported(job'[h]) = Unreported(job[h])
    BY <1>b, <2>m DEF Unreported
  <2>l. ASSUME Leaves(h)
        PROVE  Unreported(job'[h]) = 0
    BY <2>l DEF Leaves, Unreported, Busy, Stages, Idle
  <2>4. CASE \E f \in Frames : Receive(h, f) /\ Begins(h, f)
    <3>1. PICK f \in Frames : received' = Append(received, f)
      BY <2>4 DEF Receive
    <3>2. Len(received') = Len(received) + 1 /\ Len(received) \in Nat
      BY <1>1, <3>1 DEF TypeOK
    <3> QED
      BY <1>10, <3>2
  <2>5. CASE \/ getOrCreateWindow(h) /\ Moves(h, "contains")
             \/ BeginRemember(h) /\ Moves(h, "remembering")
             \/ EndRemember(h) /\ Moves(h, "detector")
    <3>1. det' = det /\ job[h] \in JobType /\ job'[h] \in JobType /\ job'[h].frame = job[h].frame
      BY <2>5 DEF getOrCreateWindow, BeginRemember, EndRemember, shared, Moves
    <3>2. a1 <= a0
      BY <1>2, <3>1
    <3> QED
      BY <1>4, <2>3, <2>m, <3>1, <3>2
  <2>6. CASE \E found \in BOOLEAN : Looks(h, found)
    <3>1. det' = det /\ job[h] \in JobType /\ job'[h] \in JobType /\ job'[h].frame = job[h].frame
      BY <2>6 DEF Looks, checkReplay, shared, Judged
    <3>2. a1 <= a0
      BY <1>2, <3>1
    <3> QED
      BY <1>4, <2>3, <2>m, <3>1, <3>2
  <2>7. CASE Passes(h) \/ FollowsOn(h) \/ TellsSuccess(h)
    <3>1. /\ job[h] \in JobType /\ job'[h] \in JobType /\ job'[h].frame = job[h].frame
          /\ \/ det' = det \/ det' = reportSeq(det, job[h].frame.seq)
             \/ det' = reportSuccess(det, job[h].frame.seq)
      BY <2>7 DEF Passes, FollowsOn, TellsSuccess, checkQuarantine, checkSequence, shared, Moves
    <3>2. det'.consecutiveTagFails \in {det.consecutiveTagFails, 0}
      BY <1>1, <3>1, FrameFacts, DetectorFacts
    <3>3. a1 <= a0
      BY <1>2, <3>2
    <3> QED
      BY <1>4, <2>3, <2>m, <3>1, <3>3
  <2>8. CASE Stops(h) \/ DropsBack(h) \/ TellsReplay(h)
    <3>1. /\ Leaves(h) /\ job[h] \in JobType
          /\ \/ det' = det \/ det' = reportSeq(det, job[h].frame.seq)
             \/ det' = reportReplay(det)
      BY <2>8 DEF Stops, DropsBack, TellsReplay, checkQuarantine, checkSequence, shared, Leaves
    <3>2. det'.consecutiveTagFails = det.consecutiveTagFails
      BY <1>1, <3>1, FrameFacts, DetectorFacts
    <3>3. a1 <= a0
      BY <1>2, <3>2
    <3> QED
      BY <1>4, <2>3, <2>l, <3>1, <3>3
  <2>9. CASE TellsTag(h)
    <3>1. Leaves(h) /\ job[h] \in JobType /\ det' = reportTagFailure(det)
          /\ job[h].reason = "decrypt_failed"
      BY <2>9 DEF TellsTag, Leaves
    <3>2. a1 = a0 + 1
      BY <1>1, <3>1, FrameFacts, DetectorFacts
    <3>3. ~ job[h].frame.tagOk
      BY <1>b, <3>1 DEF FrameOK
    <3>4. Unreported(job[h]) = 1
      BY <1>b, <3>1, <3>3 DEF Unreported
    <3>5. Unreported(job'[h]) = 0
      BY <2>l, <3>1
    <3> HIDE DEF a0, a1
    <3> QED
      BY <1>2, <3>2, <3>4, <3>5
  <2>10. CASE denyNonce(h) /\ Leaves(h)
    <3>1. det' = reportNonceMismatch(det) /\ job[h] \in JobType
      BY <2>10 DEF denyNonce, Leaves
    <3>2. a1 = a0
      BY <1>1, <3>1, FrameFacts, DetectorFacts
    <3>3. a1 <= a0
      BY <1>2, <3>2
    <3> QED
      BY <1>4, <2>3, <2>l, <2>10, <3>3
  <2>11. CASE checkAccessPolicy(h) /\ Leaves(h)
    <3>1. det' = det
      BY <2>11 DEF checkAccessPolicy, shared
    <3>2. a1 <= a0
      BY <1>2, <3>1
    <3> QED
      BY <1>4, <2>3, <2>l, <2>11, <3>2
  <2> QED
    BY <2>4, <2>5, <2>6, <2>7, <2>8, <2>9, <2>10, <2>11 DEF Shape
<1> QED
  BY <1>9, <1>10, StepReceives
-----------------------------------------------------------------------------
(* Reports and their causes.                                               *)

\* A number found in the window, or too old for it, explains its report.
LEMMA FoundCause ==
    ASSUME BaseOK, KnownOK, FrameOK, CopiesOK, NEW h \in Handlers, Looks(h, TRUE)
    PROVE  ReuseCause
<1>1. TypeOK /\ StageOK
  BY DEF BaseOK
<1>2. job[h] \in JobType /\ job[h].pc = "contains" /\ TRUE \in LookupResults(job[h].frame.seq)
  BY DEF Looks, Judged, checkReplay, At
<1> DEFINE s == job[h].frame.seq
<1>3. s \in Nat /\ s \in 0..(SeqModulus - 1) /\ job[h].frame \in Received
  BY <1>1, <1>2, FrameFacts, BusyJobs DEF FrameOK
<1>4. win # NoWindow
  BY <1>1, <1>2, FrameFacts DEF StageOK, At
<1>5. win \in WindowType
  BY <1>1, <1>4 DEF TypeOK, WindowType
<1>6. raced \/ isTooOld(win, s) \/ s \in win.seen
  BY <1>2 DEF LookupResults, contains
<1>7. CASE raced
  BY <1>7 DEF ReuseCause
<1>8. CASE s \in win.seen
  <2>1. Inserted(win, s) + OnItsWay(job["endpoint"], s) + OnItsWay(job["local"], s) <= Copies(s)
    BY <1>3 DEF CopiesOK
  <2>2. Inserted(win, s) = 1
    BY <1>4, <1>8 DEF Inserted
  <2>3. OnItsWay(job[h], s) = 1
    BY <1>2 DEF OnItsWay
  <2>4. OnItsWay(job["endpoint"], s) \in 0..1 /\ OnItsWay(job["local"], s) \in 0..1
    BY DEF OnItsWay
  <2>5. Copies(s) \in Nat
    BY <1>1, CopiesNat
  <2> HIDE DEF s
  <2>6. Copies(s) > 1
    BY <2>1, <2>2, <2>3, <2>4, <2>5 DEF Handlers
  <2> QED
    BY <1>3, <2>6 DEF ReuseCause
<1>9. CASE isTooOld(win, s)
  <2>1. win.maxSeen \in Nat
    BY <1>5 DEF WindowType
  <2>2. s + Window <= win.maxSeen /\ win.maxSeen # 0
    <3> HIDE DEF s
    <3> QED
      BY <1>3, <1>9, <2>1, WindowAssumption DEF isTooOld
  <2>3. PICK g \in Received : g.seq = win.maxSeen
    BY <1>4, <2>2 DEF KnownOK
  <2> QED
    BY <1>3, <2>2, <2>3 DEF ReuseCause
<1> QED
  BY <1>6, <1>7, <1>8, <1>9

\* The part of FrameOK about one handler.
Explained(v, R, reuse) ==
    Busy(v) =>
        /\ v.frame \in R
        /\ v.reason = "replay" => reuse
        /\ v.reason = "decrypt_failed" => ~ v.frame.tagOk
        /\ v.pc = "mismatch" => ~ v.frame.nonceOk

LEMMA StepFrames ==
    ASSUME BaseOK, KnownOK, FrameOK, CopiesOK, NEW h \in Handlers, Shape(h)
    PROVE  FrameOK'
<1>1. TypeOK /\ StageOK
  BY DEF BaseOK
<1>2. \A g \in Handlers : Explained(job[g], Received, ReuseCause)
  BY Zenon DEF FrameOK, Explained
<1>3. Received \subseteq Received' /\ (ReuseCause => ReuseCause')
  BY StepReceives DEF Explains
<1>4. \A v : Explained(v, Received, ReuseCause) => Explained(v, Received', ReuseCause')
  BY <1>3, Zenon DEF Explained
<1>5. Others(h)
  BY DEF Shape, Begins, Moves, Leaves, Looks, Judged, Stops, Passes, DropsBack, FollowsOn,
         TellsSuccess, TellsReplay, TellsTag
<1>6. SUFFICES Explained(job'[h], Received', ReuseCause')
  <2>1. ASSUME NEW g \in Handlers, g # h
        PROVE  Explained(job'[g], Received', ReuseCause')
    BY <1>2, <1>4, <1>5, <2>1 DEF Others
  <2>2. \A g \in Handlers : Explained(job'[g], Received', ReuseCause')
    BY <1>6, <2>1
  <2> QED
    BY <2>2, Zenon DEF FrameOK, Explained
<1>7. CASE \E f \in Frames : Receive(h, f) /\ Begins(h, f)
  <2>1. PICK f \in Frames : Receive(h, f) /\ Begins(h, f)
    BY <1>7
  <2>2. f \in Received'
    BY <1>1, <2>1, ReceivedMore DEF Receive
  <2>3. job'[h].frame = f /\ job'[h].reason = "ok" /\ job'[h].pc = "lookup"
    BY <2>1 DEF Begins
  <2> QED
    BY <2>2, <2>3 DEF Explained
<1>m. ASSUME NEW to, Moves(h, to), to = "mismatch" => ~ job[h].frame.nonceOk
      PROVE  Explained(job'[h], Received', ReuseCause')
  <2>1. Explained(job[h], Received', ReuseCause')
    BY <1>2, <1>4
  <2>2. /\ Busy(job[h]) /\ job'[h].pc = to /\ job'[h].frame = job[h].frame
        /\ job'[h].reason = job[h].reason
    BY <1>1, <1>m, BusyJobs DEF Moves
  <2> QED
    BY <1>m, <2>1, <2>2, Zenon DEF Explained
<1>8. CASE getOrCreateWindow(h) /\ Moves(h, "contains")
  BY <1>8, <1>m
<1>9. CASE BeginRemember(h) /\ Moves(h, "remembering")
  BY <1>9, <1>m
<1>10. CASE EndRemember(h) /\ Moves(h, "detector")
  BY <1>10, <1>m
<1>11. CASE Passes(h)
  BY <1>11, <1>m DEF Passes
<1>12. CASE TellsSuccess(h)
  BY <1>12, <1>m DEF TellsSuccess
<1>13. CASE FollowsOn(h)
  <2>1. CASE ~ job[h].frame.nonceOk
    <3>1. Moves(h, "mismatch")
      BY <1>13, <2>1 DEF FollowsOn
    <3> QED
      BY <1>m, <2>1, <3>1
  <2>2. CASE job[h].frame.nonceOk
    <3>1. Moves(h, "report")
      BY <1>13, <2>2 DEF FollowsOn
    <3> QED
      BY <1>m, <3>1
  <2> QED
    BY <2>1, <2>2
<1>14. CASE \E found \in BOOLEAN : Looks(h, found)
  <2>1. PICK found \in BOOLEAN : Looks(h, found)
    BY <1>14
  <2>2. /\ job'[h].frame = job[h].frame /\ job[h] \in JobType
        /\ job'[h].reason = Verdict(found, job[h].frame)
        /\ job'[h].pc \in {"remember", "detector"}
    BY <2>1 DEF Looks, Judged
  <2>3. job[h].frame \in Received'
    BY <1>1, <1>3, <2>2, BusyJobs DEF FrameOK
  <2>4. CASE found
    <3>1. found = TRUE
      BY <2>4
    <3>2. ReuseCause
      BY <2>1, <3>1, FoundCause
    <3>3. ReuseCause'
      BY <1>3, <3>2
    <3>4. job'[h].reason = "replay"
      BY <2>2, <2>4 DEF Verdict
    <3> QED
      BY <2>2, <2>3, <3>3, <3>4 DEF Explained
  <2>5. CASE ~ found
    <3>1. job'[h].reason # "replay" /\ (job'[h].reason = "decrypt_failed" => ~ job[h].frame.tagOk)
      BY <2>2, <2>5 DEF Verdict
    <3> QED
      BY <2>2, <2>3, <3>1 DEF Explained
  <2> QED
    BY <2>4, <2>5
<1>15. CASE Leaves(h)
  BY <1>15 DEF Leaves, Explained, Busy, Stages, Idle
<1>16. Stops(h) \/ DropsBack(h) \/ TellsReplay(h) \/ TellsTag(h) => Leaves(h)
  BY DEF Stops, DropsBack, TellsReplay, TellsTag
<1> QED
  BY <1>7, <1>8, <1>9, <1>10, <1>11, <1>12, <1>13, <1>14, <1>15, <1>16 DEF Shape

\* A rollback has its cause: an earlier number far above, or the wrap of the sum.
LEMMA RollCause ==
    ASSUME BaseOK, KnownOK, FrameOK, NEW h \in Handlers, job[h] \in JobType,
           RollsBack(det, job[h].frame.seq)
    PROVE  RollbackCause
<1>1. TypeOK /\ det.maxSeenSeq \in Nat
  BY DEF BaseOK, TypeOK, ReaderState
<1> DEFINE s == job[h].frame.seq
<1>2. s \in Nat /\ job[h].frame \in Received
  BY <1>1, FrameFacts, BusyJobs DEF FrameOK
<1>3. det.maxSeenSeq > 0 /\ (s + RollbackThreshold) % SeqModulus < det.maxSeenSeq
  BY DEF RollsBack
<1>4. CASE s + RollbackThreshold >= SeqModulus
  BY <1>2, <1>4 DEF RollbackCause
<1>5. CASE ~ (s + RollbackThreshold >= SeqModulus)
  <2> HIDE DEF s
  <2>1. s + RollbackThreshold \in Nat /\ s + RollbackThreshold < SeqModulus
    BY <1>2, <1>5, DetectorAssumption
  <2>2. (s + RollbackThreshold) % SeqModulus = s + RollbackThreshold
    BY <2>1, DetectorAssumption
  <2>3. s + RollbackThreshold < det.maxSeenSeq /\ det.maxSeenSeq # 0
    BY <1>1, <1>3, <2>2
  <2>4. PICK g \in Received : g.seq = det.maxSeenSeq
    BY <2>3 DEF KnownOK
  <2> QED
    BY <1>2, <2>3, <2>4 DEF RollbackCause, s
<1> QED
  BY <1>4, <1>5

\* The reasons, and their causes before and after a step.
Caused(why) ==
    /\ why = "seq_reuse" => ReuseCause
    /\ why = "seq_rollback" => RollbackCause
    /\ why = "nonce_mismatch" => NonceCause
    /\ why = "tag_fail_streak" => TagCause

LEMMA StepAnomaly ==
    ASSUME BaseOK, KnownOK, FrameOK, TagsOK, AnomalyHasCause, NEW h \in Handlers, Shape(h)
    PROVE  AnomalyHasCause'
<1>1. TypeOK /\ det \in ReaderState
  BY DEF BaseOK, TypeOK
<1>2. Explains
  BY StepReceives
<1>3. SUFFICES Caused(det'.quarantine)
  BY <1>2, <1>3 DEF Caused, AnomalyHasCause, Explains
<1>4. Caused(det.quarantine)
  BY DEF Caused, AnomalyHasCause
<1>5. CASE det'.quarantine = det.quarantine
  BY <1>4, <1>5
<1>6. CASE \/ \E f \in Frames : Receive(h, f) /\ Begins(h, f)
           \/ \E found \in BOOLEAN : Looks(h, found)
           \/ Stops(h) \/ Passes(h)
  <2>1. det' = det
    BY <1>6 DEF Receive, Looks, checkReplay, Stops, Passes, checkQuarantine, shared
  <2> QED
    BY <1>5, <2>1
<1>7. CASE getOrCreateWindow(h) \/ BeginRemember(h) \/ EndRemember(h) \/ checkAccessPolicy(h)
  <2>1. det' = det
    BY <1>7 DEF getOrCreateWindow, BeginRemember, EndRemember, checkAccessPolicy, shared
  <2> QED
    BY <1>5, <2>1
<1>8. CASE DropsBack(h) \/ FollowsOn(h)
  <2>1. /\ job[h] \in JobType
        /\ det' = IF job[h].frame.seq > 0 THEN reportSeq(det, job[h].frame.seq) ELSE det
    BY <1>8 DEF DropsBack, FollowsOn, checkSequence, Leaves, Moves
  <2>2. \/ det'.quarantine = det.quarantine
        \/ det'.quarantine = "seq_rollback" /\ RollsBack(det, job[h].frame.seq)
    BY <1>1, <2>1, FrameFacts, DetectorFacts
  <2>3. CASE det'.quarantine = "seq_rollback" /\ RollsBack(det, job[h].frame.seq)
    <3>1. RollbackCause
      BY <2>1, <2>3, RollCause
    <3> QED
      BY <2>3, <3>1 DEF Caused
  <2> QED
    BY <1>5, <2>2, <2>3
<1>9. CASE denyNonce(h) /\ Leaves(h)
  <2>1. det' = reportNonceMismatch(det) /\ job[h] \in JobType /\ job[h].pc = "mismatch"
    BY <1>9 DEF denyNonce, Leaves, At
  <2>2. det'.quarantine = "nonce_mismatch"
    BY <1>1, <2>1, FrameFacts, DetectorFacts
  <2>3. NonceCause
    BY <1>1, <2>1, BusyJobs DEF FrameOK, NonceCause
  <2> QED
    BY <2>2, <2>3 DEF Caused
<1>10. CASE TellsSuccess(h)
  <2>1. det' = reportSuccess(det, job[h].frame.seq) /\ job[h] \in JobType
    BY <1>10 DEF TellsSuccess, Moves
  <2>2. det'.quarantine = det.quarantine
    BY <1>1, <2>1, FrameFacts, DetectorFacts
  <2> QED
    BY <1>5, <2>2
<1>11. CASE TellsReplay(h)
  <2>1. det' = reportReplay(det) /\ job[h] \in JobType /\ job[h].reason = "replay"
    BY <1>11 DEF TellsReplay, Leaves
  <2>2. det'.quarantine = "seq_reuse"
    BY <1>1, <2>1, FrameFacts, DetectorFacts
  <2>3. ReuseCause
    BY <1>1, <2>1, BusyJobs DEF FrameOK
  <2> QED
    BY <2>2, <2>3 DEF Caused
<1>12. CASE TellsTag(h)
  <2>1. det' = reportTagFailure(det) /\ job[h] \in JobType /\ job[h].reason = "decrypt_failed"
    BY <1>12 DEF TellsTag, Leaves
  <2>2. det'.quarantine = (IF det.consecutiveTagFails + 1 >= TagFailStreakLimit
                           THEN "tag_fail_streak" ELSE det.quarantine)
    BY <1>1, <2>1, FrameFacts, DetectorFacts
  <2>3. CASE det.consecutiveTagFails + 1 >= TagFailStreakLimit
    <3>1. ~ job[h].frame.tagOk /\ Busy(job[h])
      BY <1>1, <2>1, BusyJobs DEF FrameOK
    <3>2. Unreported(job[h]) = 1
      BY <3>1 DEF Unreported
    <3>3. Unreported(job["endpoint"]) \in 0..1 /\ Unreported(job["local"]) \in 0..1
      BY DEF Unreported
    <3>4. det.consecutiveTagFails \in Nat /\ WrongTags \in Nat
      BY <1>1, CopiesNat DEF ReaderState
    <3>5. det.consecutiveTagFails + Unreported(job["endpoint"]) + Unreported(job["local"])
             <= WrongTags
      BY DEF TagsOK
    <3>6. det.consecutiveTagFails + 1 <= WrongTags
      <4>1. Unreported(job["endpoint"]) = 1 \/ Unreported(job["local"]) = 1
        BY <3>2 DEF Handlers
      <4> QED
        BY <3>3, <3>4, <3>5, <4>1
    <3>7. TagCause
      BY <2>3, <3>4, <3>6, DetectorAssumption DEF TagCause
    <3> QED
      BY <2>2, <2>3, <3>7 DEF Caused
  <2>4. CASE ~ (det.consecutiveTagFails + 1 >= TagFailStreakLimit)
    BY <1>5, <2>2, <2>4
  <2> QED
    BY <2>3, <2>4
<1> QED
  BY <1>6, <1>7, <1>8, <1>9, <1>10, <1>11, <1>12 DEF Shape

CauseOK == KnownOK /\ FrameOK /\ CopiesOK /\ TagsOK /\ AnomalyHasCause

LEMMA CauseInit == Init => CauseOK
<1> SUFFICES ASSUME Init
             PROVE  CauseOK
  OBVIOUS
<1>1. TypeOK
  BY BaseInit DEF BaseOK
<1>2. /\ job["endpoint"] = Idle /\ job["local"] = Idle /\ \A h \in Handlers : job[h] = Idle
      /\ win = NoWindow /\ det = FreshReader
  BY DEF Init, Handlers
<1>3. ~ Busy(Idle) /\ Idle.pc = "idle"
  BY DEF Busy, Stages, Idle
<1>4. /\ det.maxSeenSeq = 0 /\ det.consecutiveTagFails = 0 /\ det.quarantine = NotQuarantined
  BY <1>2 DEF FreshReader
<1>5. KnownOK
  BY <1>2, <1>4 DEF KnownOK
<1>6. FrameOK
  BY <1>2, <1>3 DEF FrameOK
<1>7. CopiesOK
  <2>1. \A n : Inserted(win, n) = 0 /\ OnItsWay(Idle, n) = 0
    BY <1>2, <1>3 DEF Inserted, OnItsWay
  <2>2. \A n : Copies(n) \in Nat
    BY <1>1, CopiesNat
  <2> QED
    BY <1>2, <2>1, <2>2 DEF CopiesOK
<1>8. TagsOK
  <2>1. Unreported(Idle) = 0 /\ WrongTags \in Nat
    BY <1>1, <1>3, CopiesNat DEF Unreported
  <2> QED
    BY <1>2, <1>4, <2>1 DEF TagsOK
<1>9. AnomalyHasCause
  BY <1>4 DEF AnomalyHasCause, NotQuarantined
<1> QED
  BY <1>5, <1>6, <1>7, <1>8, <1>9 DEF CauseOK

LEMMA CauseStep == BaseOK /\ BaseOK' /\ CauseOK /\ [Next]_vars => CauseOK'
<1> SUFFICES ASSUME BaseOK, BaseOK', CauseOK, [Next]_vars
             PROVE  CauseOK'
  OBVIOUS
<1>0. KnownOK /\ FrameOK /\ CopiesOK /\ TagsOK /\ AnomalyHasCause /\ TypeOK /\ det \in ReaderState
  BY DEF CauseOK, BaseOK, TypeOK
<1>1. CASE \E h \in Handlers : Step(h)
  <2>1. PICK h \in Handlers : Step(h)
    BY <1>1
  <2>2. Shape(h)
    BY <1>0, <2>1, StepShape
  <2>3. KnownOK' /\ FrameOK' /\ CopiesOK' /\ TagsOK' /\ AnomalyHasCause'
    BY <1>0, <2>2, StepKnown, StepFrames, StepCopies, StepTags, StepAnomaly
  <2> QED
    BY <2>3 DEF CauseOK
<1>2. ASSUME received' = received, raced' = raced
      PROVE  /\ Received' = Received /\ WrongTags' = WrongTags /\ \A n : Copies(n)' = Copies(n)
             /\ ReuseCause => ReuseCause' /\ Explains
  BY <1>2, CausesSame DEF Explains
<1>3. CASE UnquarantineReader
  <2>1. Released
    BY <1>3, ReleaseShape
  <2>2. win' = win /\ det' = unquarantine(det) /\ received' = received /\ raced' = raced
    BY <1>3 DEF UnquarantineReader, history
  <2>3. /\ det'.maxSeenSeq = det.maxSeenSeq
        /\ det'.consecutiveTagFails \in {det.consecutiveTagFails, 0}
        /\ det'.quarantine = NotQuarantined
    BY <1>0, <2>2, DetectorFacts
  <2>4. \A g \in Handlers : /\ Busy(job'[g]) <=> Busy(job[g])
                            /\ job'[g].pc = job[g].pc
                            /\ Busy(job[g]) => /\ job'[g].frame = job[g].frame
                                               /\ job'[g].reason = job[g].reason
    BY <1>0, <2>1, BusyJobs DEF Released, Handlers, Busy
  <2>5. KnownOK'
    BY <1>0, <1>2, <2>2, <2>3 DEF KnownOK
  <2>6. FrameOK'
    <3> SUFFICES ASSUME NEW g \in Handlers, Busy(job'[g])
                 PROVE  Explained(job'[g], Received', ReuseCause')
      BY Zenon DEF FrameOK, Explained
    <3>1. Explained(job[g], Received, ReuseCause) /\ Busy(job[g])
      BY <1>0, <2>4, Zenon DEF FrameOK, Explained
    <3>2. job'[g].pc = job[g].pc /\ job'[g].frame = job[g].frame /\ job'[g].reason = job[g].reason
      BY <2>4, <3>1
    <3>3. Received' = Received /\ (ReuseCause => ReuseCause')
      BY <1>2, <2>2
    <3> QED
      BY <3>1, <3>2, <3>3, Zenon DEF Explained
  <2>7. CopiesOK'
    <3>1. \A g \in Handlers : \A n : OnItsWay(job'[g], n) = OnItsWay(job[g], n)
      <4> SUFFICES ASSUME NEW g \in Handlers, NEW n
                   PROVE  OnItsWay(job'[g], n) = OnItsWay(job[g], n)
        OBVIOUS
      <4>1. CASE Busy(job[g])
        BY <2>4, <4>1 DEF OnItsWay
      <4>2. CASE ~ Busy(job[g])
        BY <2>4, <4>2 DEF OnItsWay, Busy, Stages
      <4> QED
        BY <4>1, <4>2
    <3>2. \A n \in Nat : Copies(n)' = Copies(n)
      BY <1>2, <2>2
    <3> QED
      BY <1>0, <2>2, <3>1, <3>2 DEF CopiesOK, Handlers
  <2>8. TagsOK'
    <3>1. \A g \in Handlers : Unreported(job'[g]) = Unreported(job[g])
      BY <2>4 DEF Unreported
    <3>2. WrongTags' = WrongTags /\ WrongTags \in Nat /\ det.consecutiveTagFails \in Nat
      BY <1>0, <1>2, <2>2, CopiesNat DEF ReaderState
    <3>3. \A v : Unreported(v) \in 0..1
      BY DEF Unreported
    <3>4. det.consecutiveTagFails + Unreported(job["endpoint"]) + Unreported(job["local"])
             <= WrongTags
      BY <1>0 DEF TagsOK
    <3>5. det'.consecutiveTagFails + Unreported(job["endpoint"]) + Unreported(job["local"])
             <= WrongTags
      BY <2>3, <3>2, <3>3, <3>4
    <3> QED
      BY <3>1, <3>2, <3>5 DEF TagsOK, Handlers
  <2>9. AnomalyHasCause'
    BY <2>3 DEF AnomalyHasCause, NotQuarantined
  <2> QED
    BY <2>5, <2>6, <2>7, <2>8, <2>9 DEF CauseOK
<1>4. CASE Crash
  <2>1. win' = win /\ det' = det /\ received' = received /\ raced' = raced
    BY <1>4 DEF Crash, shared, history
  <2>2. Explains /\ Received' = Received /\ WrongTags' = WrongTags /\ \A n : Copies(n)' = Copies(n)
    BY <2>1, CausesSame
  <2>3. \A g \in Handlers : ~ Busy(job'[g]) /\ job'[g].pc = "crashed"
    BY <1>4, CrashJobs
  <2>4. KnownOK'
    BY <1>0, <2>1, <2>2 DEF KnownOK
  <2>5. FrameOK'
    BY <2>3 DEF FrameOK
  <2>6. CopiesOK'
    <3>1. \A n : OnItsWay(job'["endpoint"], n) = 0 /\ OnItsWay(job'["local"], n) = 0
      BY <2>3 DEF OnItsWay, Handlers
    <3>2. \A n \in Nat : /\ Inserted(win, n) \in 0..1 /\ Copies(n) \in Nat
                         /\ OnItsWay(job["endpoint"], n) \in 0..1 /\ OnItsWay(job["local"], n) \in 0..1
      BY <1>0, CopiesNat DEF Inserted, OnItsWay
    <3>3. \A n \in Nat : Inserted(win, n) <= Copies(n)
      BY <1>0, <3>2 DEF CopiesOK
    <3> QED
      BY <2>1, <2>2, <3>1, <3>2, <3>3 DEF CopiesOK
  <2>7. TagsOK'
    <3>1. Unreported(job'["endpoint"]) = 0 /\ Unreported(job'["local"]) = 0
      BY <2>3 DEF Unreported, Handlers
    <3>2. /\ WrongTags \in Nat /\ det.consecutiveTagFails \in Nat
          /\ Unreported(job["endpoint"]) \in 0..1 /\ Unreported(job["local"]) \in 0..1
      BY <1>0, CopiesNat DEF ReaderState, Unreported
    <3>3. det.consecutiveTagFails <= WrongTags
      BY <1>0, <3>2 DEF TagsOK
    <3> QED
      BY <2>1, <2>2, <3>1, <3>2, <3>3 DEF TagsOK
  <2>8. AnomalyHasCause'
    BY <1>0, <2>1, <2>2 DEF AnomalyHasCause, Explains
  <2> QED
    BY <2>4, <2>5, <2>6, <2>7, <2>8 DEF CauseOK
<1>5. CASE Rest \/ UNCHANGED vars
  <2>1. win' = win /\ det' = det /\ job' = job /\ received' = received /\ raced' = raced
    BY <1>5 DEF Rest, vars, shared, history
  <2>2. Explains /\ Received' = Received /\ WrongTags' = WrongTags /\ \A n : Copies(n)' = Copies(n)
    BY <2>1, CausesSame
  <2>3. KnownOK'
    BY <1>0, <2>1, <2>2 DEF KnownOK
  <2>4. FrameOK'
    BY <1>0, <2>1, <2>2, Zenon DEF FrameOK, Explains
  <2>5. CopiesOK'
    BY <1>0, <2>1, <2>2 DEF CopiesOK
  <2>6. TagsOK'
    BY <1>0, <2>1, <2>2 DEF TagsOK
  <2>7. AnomalyHasCause'
    BY <1>0, <2>1, <2>2 DEF AnomalyHasCause, Explains
  <2> QED
    BY <2>3, <2>4, <2>5, <2>6, <2>7 DEF CauseOK
<1> QED
  BY <1>1, <1>3, <1>4, <1>5 DEF Next

\* Every quarantine has its cause among the frames received, in every
\* interleaving of the two threads and for any number of frames: the reports
\* of honest frames handled at once never look like an anomaly.
THEOREM AnomalyAlwaysHasCause == Spec => []AnomalyHasCause
<1>1. CauseOK => AnomalyHasCause
  BY DEF CauseOK
<1> QED
  BY <1>1, BaseInit, BaseStep, CauseInit, CauseStep, PTL DEF Spec
=============================================================================
