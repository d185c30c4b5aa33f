------------------------------ MODULE EventBus ------------------------------
(***************************************************************************)
(* The runtime event bus (runtime_events), the endpoint GET /api/events    *)
(* and the polling loop of the web interface (web/js/events.js).           *)
(*                                                                         *)
(* The bus is a bounded deque; each of its methods runs under its mutex.   *)
(* The endpoint calls two of them, getAfter and lastId, one after the      *)
(* other, and threads push between the two.  The browser starts a poll on  *)
(* every tick of a timer without waiting for the one before; Polls are the *)
(* polls that can be outstanding at once.                                  *)
(*                                                                         *)
(* An event is the pair of the process run that pushed it and its id.      *)
(***************************************************************************)
EXTENDS Integers, Sequences

CONSTANTS MaxEvents,    \* capacity of the bus (_max)
          Limit,        \* events per poll (200 in the browser, capacity 1024)
          Polls,        \* polls that can be outstanding at once
          MaxOverlaps,  \* bound: polls of a page started while another is outstanding
          MaxPushes,    \* bound: events pushed in one run of the process
          MaxRestarts   \* bound: restarts of the process

\* push() on a bus of capacity 0 would pop an empty deque.
ASSUME EventBusAssumption ==
    /\ MaxEvents \in Nat \ {0} /\ Limit \in Nat \ {0}
    /\ {MaxOverlaps, MaxPushes, MaxRestarts} \subseteq Nat

VARIABLES run,      \* number of the process run
          buf,      \* ids in the deque, oldest first (_events)
          last,     \* _lastId
          poll,     \* each outstanding poll
          polling,  \* the timer runs (pollIntervalId)
          afterId,  \* the browser's cursor
          log,      \* events the page shows, oldest first
          between,  \* history: ids of run 0 pushed between getAfter and lastId of a poll
          cut,      \* history: ids of run 0 up to last_id that a shown answer had no room for
          overlaps  \* history: polls this page started while another was outstanding

bus == <<run, buf, last, between>>
page == <<polling, afterId, log, cut, overlaps>>
vars == <<bus, poll, page>>

NoPoll == [pc |-> "idle", after |-> 0, evs |-> << >>, lastId |-> 0]

\* DOMContentLoaded starts the polling.
FreshPage == polling = TRUE /\ afterId = 0 /\ log = << >> /\ cut = {} /\ overlaps = 0

Init ==
    /\ run = 0 /\ buf = << >> /\ last = 0 /\ between = {}
    /\ poll = [p \in Polls |-> NoPoll]
    /\ FreshPage
-----------------------------------------------------------------------------
(* The bus                                                                 *)

\* The endpoint is between its two critical sections.
RecordBetween ==
    between' = IF run = 0 /\ \E p \in Polls : poll[p].pc = "events"
               THEN between \cup {last + 1} ELSE between

\* Mutant: the oldest event goes one push too late.
PushLate ==
    /\ last < MaxPushes
    /\ last' = last + 1
    /\ buf' = Append(IF Len(buf) > MaxEvents THEN Tail(buf) ELSE buf, last + 1)
    /\ RecordBetween
    /\ UNCHANGED <<run, poll, page>>

push ==
    /\ last < MaxPushes
    /\ last' = last + 1
    /\ buf' = Append(IF Len(buf) >= MaxEvents THEN Tail(buf) ELSE buf, last + 1)
    /\ RecordBetween
    /\ UNCHANGED <<run, poll, page>>

\* The loop of getAfter over the deque q: events after the cursor are taken until
\* there are lim of them.
Taken(q, after, lim) ==
    LET out[i \in 0..Len(q)] ==
          IF i = 0 THEN << >>
          ELSE IF q[i] > after /\ Len(out[i - 1]) < lim THEN Append(out[i - 1], q[i])
          ELSE out[i - 1]
    IN  out[Len(q)]

\* Mutant: the event at the cursor is returned again.
GetFrom(after) == Taken(buf, after - 1, Limit)

\* Mutant: the cursor is taken as the id of the next event.
GetAfterNext(after) == Taken(buf, after + 1, Limit)

\* The first Limit retained events after the cursor, in order.
getAfter(after) == Taken(buf, after, Limit)

\* The server is restarted: ids start over, and the requests it was working on
\* are lost.  A response already sent may still arrive.
Restart ==
    /\ run < MaxRestarts
    /\ run' = run + 1
    /\ buf' = << >> /\ last' = 0 /\ between' = {}
    /\ poll' = [p \in Polls |-> IF poll[p].pc = "answered" THEN poll[p] ELSE NoPoll]
    /\ UNCHANGED page
-----------------------------------------------------------------------------
(* GET /api/events and the browser                                         *)

\* The timer fires: a request with the cursor as it is now.
pollEvents(p) ==
    /\ polling
    /\ poll[p].pc = "idle"
    /\ poll' = [poll EXCEPT ![p] = [NoPoll EXCEPT !.pc = "sent", !.after = afterId]]
    /\ IF \E q \in Polls : poll[q].pc # "idle"
       THEN overlaps < MaxOverlaps /\ overlaps' = overlaps + 1
       ELSE overlaps' = overlaps
    /\ UNCHANGED <<bus, polling, afterId, log, cut>>

\* getEvents: first the events ...
getEvents(p) ==
    /\ poll[p].pc = "sent"
    /\ LET ids == getAfter(poll[p].after)
       IN  poll' = [poll EXCEPT ![p].pc = "events",
                                ![p].evs = [i \in 1..Len(ids) |-> <<run, ids[i]>>]]
    /\ UNCHANGED <<bus, page>>

\* ... then, in a second critical section, the last id.
lastId(p) ==
    /\ poll[p].pc = "events"
    /\ poll' = [poll EXCEPT ![p].pc = "answered", ![p].lastId = last]
    /\ UNCHANGED <<bus, page>>

\* What a full answer leaves out, although its last_id passes over it.
LeftOut(v) ==
    {x \in 1..v.lastId : run = 0 /\ Len(v.evs) = Limit /\ x > v.evs[Limit][2]}

\* Mutant: the cursor never moves back.
ShowEventsForward(p) ==
    /\ poll[p].pc = "answered"
    /\ afterId' = IF poll[p].lastId > afterId THEN poll[p].lastId ELSE afterId
    /\ log' = log \o poll[p].evs
    /\ cut' = cut \cup LeftOut(poll[p])
    /\ poll' = [poll EXCEPT ![p] = NoPoll]
    /\ UNCHANGED <<bus, polling, overlaps>>

\* The response arrives: the cursor moves to last_id, the events are appended.
showEvents(p) ==
    /\ poll[p].pc = "answered"
    /\ afterId' = poll[p].lastId
    /\ log' = log \o poll[p].evs
    /\ cut' = cut \cup LeftOut(poll[p])
    /\ poll' = [poll EXCEPT ![p] = NoPoll]
    /\ UNCHANGED <<bus, polling, overlaps>>

\* The request fails; the error is swallowed and the next tick polls again.
pollFails(p) ==
    /\ poll[p].pc # "idle"
    /\ poll' = [poll EXCEPT ![p] = NoPoll]
    /\ UNCHANGED <<bus, page>>

\* requireAuth refuses the request (401): the timer is stopped for good.
pollRefused(p) ==
    /\ poll[p].pc = "sent"
    /\ poll' = [poll EXCEPT ![p] = NoPoll]
    /\ polling' = FALSE
    /\ UNCHANGED <<bus, afterId, log, cut, overlaps>>

\* The page is loaded again; its requests die with it.
Reload ==
    /\ polling' = TRUE /\ afterId' = 0 /\ log' = << >> /\ cut' = {} /\ overlaps' = 0
    /\ poll' = [p \in Polls |-> NoPoll]
    /\ UNCHANGED bus

Next ==
    \/ push
    \/ Restart
    \/ Reload
    \/ \E p \in Polls : \/ pollEvents(p) \/ getEvents(p) \/ lastId(p)
                        \/ showEvents(p) \/ pollFails(p) \/ pollRefused(p)

Spec == Init /\ [][Next]_vars

\* The timer keeps polling, and polls do not fail at the same point for ever.
FairSpec ==
    /\ Spec
    /\ \A p \in Polls : /\ WF_vars(pollEvents(p))
                        /\ SF_vars(getEvents(p)) /\ SF_vars(lastId(p)) /\ SF_vars(showEvents(p))
-----------------------------------------------------------------------------
Ids == Seq(Nat \X Nat)

\* Every variable has its type.
TypeOK ==
    /\ run \in Nat /\ last \in Nat /\ afterId \in Nat
    /\ buf \in Seq(Nat) /\ log \in Ids /\ between \subseteq Nat
    /\ polling \in BOOLEAN /\ overlaps \in Nat /\ cut \subseteq Nat
    /\ poll \in [Polls -> [pc : {"idle", "sent", "events", "answered"}, after : Nat,
                           evs : Ids, lastId : Nat]]

\* The deque holds exactly the newest MaxEvents ids, without a gap: an event
\* leaves the bus only when MaxEvents newer ones are in it (EventBus::push).
BufferIsTail ==
    /\ Len(buf) = (IF last < MaxEvents THEN last ELSE MaxEvents)
    /\ \A i \in 1..Len(buf) : buf[i] = last - Len(buf) + i

\* The browser shows the events of a run in the order they were pushed and none
\* twice, although a poll can fail half-way and the server can be restarted, until
\* a tick of the timer starts a poll while another is outstanding: events out of
\* order or shown twice have that one cause.
ShownInOrder ==
    overlaps = 0 =>
        \A i, j \in 1..Len(log) :
            i < j /\ log[i][1] = log[j][1] => log[i][2] < log[j][2]

\* A restart does not strand the cursor above the new ids for ever: while it
\* polls, the browser comes back to an id of the new run.
CursorRecovers == []<>(polling => afterId <= last)

\* Polling passes over an event only in one of the known ways: in the first run of
\* the server, every event still on the bus that the cursor has moved past is
\* shown, unless it was pushed between the two critical sections of a poll, or
\* came after the last event of an answer that was full.
SkippedWithCause ==
    run = 0 =>
        \A i \in 1..Len(buf) :
            buf[i] <= afterId =>
                \/ \E k \in 1..Len(log) : log[k] = <<run, buf[i]>>
                \/ buf[i] \in between \cup cut
=============================================================================
