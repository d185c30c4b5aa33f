---------------------------- MODULE ReplayGuard ----------------------------
(***************************************************************************)
(* One reader's replay window in use: numbers are offered to accept() in   *)
(* some order, and the history of accepted numbers is kept.  Two           *)
(* environments: any order at all (Spec), and a channel that may lose and  *)
(* duplicate frames but does not reorder them (InOrderSpec).               *)
(***************************************************************************)
EXTENDS ReplayWindow

CONSTANTS Seqs,         \* the sequence numbers frames carry
          MaxAccepts    \* bound: length of the history, for model checking

ASSUME SeqsAssumption == Seqs \subseteq Nat
ASSUME MaxAcceptsAssumption == MaxAccepts \in Nat

VARIABLES win,      \* the window
          log,      \* history: accepted numbers, oldest first
          answer    \* <<seq, result>> of the last call of accept()

vars == <<win, log, answer>>

Init == win = FreshWindow /\ log = << >> /\ answer = << >>

\* ReplayWindow::accept: refuse what is contained, else remember it.
accept(s) ==
    \/ /\ contains(win, s)
       /\ answer' = <<s, FALSE>>
       /\ UNCHANGED <<win, log>>
    \/ /\ ~ contains(win, s)
       /\ Len(log) < MaxAccepts
       /\ win' = remember(win, s)
       /\ log' = Append(log, s)
       /\ answer' = <<s, TRUE>>

Next == \E s \in Seqs : accept(s)

Spec == Init /\ [][Next]_vars

\* A channel that may lose and repeat frames but never reorders them offers
\* a number no smaller than any accepted one, or an accepted one again.
Ordered(s) ==
    \/ \A i \in 1..Len(log) : log[i] <= s
    \/ \E i \in 1..Len(log) : log[i] = s

NextInOrder == \E s \in Seqs : Ordered(s) /\ accept(s)

InOrderSpec == Init /\ [][NextInOrder]_vars
-----------------------------------------------------------------------------
(* Type and structure of the window, for every order of arrival.           *)

\* Every variable has the type its declaration in replay_window.hpp gives it.
TypeOK ==
    /\ win \in [maxSeen : Nat, seen : SUBSET Seqs, order : Seq(Seqs)]
    /\ log \in Seq(Seqs)
    /\ answer \in {<< >>} \cup (Seqs \X BOOLEAN)

\* The deque holds exactly the last Window accepted numbers ...
OrderIsLogSuffix ==
    LET n == Len(log)
        k == Len(win.order)
    IN  /\ k = IF n < Window THEN n ELSE Window
        /\ \A i \in 1..k : win.order[i] = log[n - k + i]

\* ... without repetition, and the lookup set holds exactly the same numbers.
SeenIsOrder ==
    /\ win.seen = {win.order[i] : i \in 1..Len(win.order)}
    /\ \A i, j \in 1..Len(win.order) : win.order[i] = win.order[j] => i = j

\* maxSeen is the maximum of the history.
MaxSeenIsMaximum ==
    /\ log = << >> => win.maxSeen = 0
    /\ log # << >> => \E i \in 1..Len(log) : log[i] = win.maxSeen
    /\ \A i \in 1..Len(log) : log[i] <= win.maxSeen

\* The two containers of ReplayWindow and its maximum stay consistent with
\* each other and with the history over every sequence of calls, evictions
\* included (replay_window.cpp, remember and evictOldestIfFull).
WindowInv == OrderIsLogSuffix /\ SeenIsOrder /\ MaxSeenIsMaximum
-----------------------------------------------------------------------------
(* What the window guarantees.                                             *)

\* A number that was accepted and would be accepted again (contains() has
\* become false for it) was overtaken: some smaller number was accepted after
\* it.  FIFO eviction forgets nothing still in range as long as frames arrive
\* in order.
ForgottenOnlyWhenOvertaken ==
    \A i \in 1..Len(log) :
        ~ contains(win, log[i]) => \E j \in (i + 1)..Len(log) : log[j] < log[i]

\* contains() speaks the truth about every number it was asked to remember:
\* no number is accepted twice (replay_window.hpp, "True if seq was previously
\* accepted").
NoDuplicateAccepted ==
    \A i, j \in 1..Len(log) : log[i] = log[j] => i = j

\* A refusal has a cause: accept() answers false only for a number accepted
\* before or at least Window below an accepted one, so a frame that is merely
\* late but in range is let through.
RefusedOnlyWithCause ==
    [][ (answer' # answer /\ answer'[2] = FALSE)
          => \E i \in 1..Len(log) : \/ log[i] = answer'[1]
                                    \/ answer'[1] + Window <= log[i] ]_vars

\* Under in-order arrival the window implements the promise of ReplayPromise.
Promise == INSTANCE ReplayPromise
             WITH accepted <- {log[i] : i \in 1..Len(log)}

PromiseKept == Promise!Spec
=============================================================================
