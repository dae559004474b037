---------------------------- MODULE EventWatcher ----------------------------
(***************************************************************************)
(* Client.SubscribeToJobEvent and Client.WatchEvent (src/unnamed/part_000 *)
(* 219-252).  The caller opens a NewJob log subscription on its own       *)
(* channel logsCh and then calls WatchEvent, which arms one timer and      *)
(* loops on a select between logsCh and timer.C: a log not flagged        *)
(* Removed is returned, a Removed one is dropped and the loop continues,  *)
(* the timer ends the wait with "watchEvent timed out".                   *)
(*                                                                         *)
(* The node is the environment: after the subscription is established it *)
(* forwards, in order, every matching log (a new event, or the Removed    *)
(* copy of a mined one after a reorg), and the subscription may           *)
(* drop (sub.Err(), which WatchEvent does not watch).  Time is discrete:  *)
(* steps of the watcher take no time.                                      *)
(***************************************************************************)
EXTENDS Naturals, Sequences

CONSTANTS
    EventTimeout,   \* c.eventTimeout, in ticks
    MaxEvents,      \* bound on the NewJob events the chain produces
    MaxReorgs,      \* bound on the Removed copies the node sends
    MaxClock        \* the clock stops here

VARIABLES
    pc,         \* the caller: "subscribe", "watch", "select", "done", "failed"
    subActive,  \* the node still forwards matching logs into logsCh
    queue,      \* logs the node has matched and not yet handed to logsCh
    sent,       \* every log the node sent to this subscription (history)
    nextId,     \* the next event the chain produces
    reorgs,     \* Removed copies sent so far
    clock,
    startAt,    \* clock when WatchEvent armed its timer
    timerAt,    \* clock at which timer.C becomes ready
    timerFired,
    result      \* what WatchEvent returned

vars == <<pc, subActive, queue, sent, nextId, reorgs, clock, startAt, timerAt,
          timerFired, result>>

Ids == 1..MaxEvents
Logs == [id : Ids, removed : BOOLEAN]
NoResult == [kind |-> "none"]
Results == {NoResult} \cup [kind : {"log"}, log : Logs]
                      \cup {[kind |-> "timeout"]}

Live(l) == ~l.removed

TypeOK ==
    /\ pc \in {"subscribe", "watch", "select", "done", "failed"}
    /\ subActive \in BOOLEAN
    /\ queue \in Seq(Logs)
    /\ sent \in Seq(Logs)
    /\ nextId \in 1..(MaxEvents + 1)
    /\ reorgs \in 0..MaxReorgs
    /\ clock \in 0..MaxClock
    /\ startAt \in 0..MaxClock
    /\ timerAt \in Nat
    /\ timerFired \in BOOLEAN
    /\ result \in Results

Init ==
    /\ pc = "subscribe"
    /\ subActive = FALSE
    /\ queue = <<>>
    /\ sent = <<>>
    /\ nextId = 1
    /\ reorgs = 0
    /\ clock = 0
    /\ startAt = 0
    /\ timerAt = 0
    /\ timerFired = FALSE
    /\ result = NoResult

-----------------------------------------------------------------------------
(* The caller *)

(* SubscribeToJobEvent: SubscribeFilterLogs on (jobsManagerAddr, NewJob,  *)
(* account) either establishes the subscription or returns its error.     *)
SubscribeToJobEvent ==
    /\ pc = "subscribe"
    /\ \/ /\ subActive' = TRUE
          /\ pc' = "watch"
       \/ /\ pc' = "failed"
          /\ UNCHANGED subActive
    /\ UNCHANGED <<queue, sent, nextId, reorgs, clock, startAt, timerAt,
                   timerFired, result>>

(* WatchEvent: timer = time.NewTimer(c.eventTimeout), then the loop.      *)
WatchEvent ==
    /\ pc = "watch"
    /\ pc' = "select"
    /\ startAt' = clock
    /\ timerAt' = clock + EventTimeout
    /\ UNCHANGED <<subActive, queue, sent, nextId, reorgs, clock, timerFired,
                   result>>

(* Fault variant: a Removed log is returned like any other.               *)
RecvLogAny ==
    /\ pc = "select"
    /\ queue # <<>>
    /\ queue' = Tail(queue)
    /\ pc' = "done"
    /\ result' = [kind |-> "log", log |-> Head(queue)]
    /\ UNCHANGED <<subActive, sent, nextId, reorgs, clock, startAt, timerAt,
                   timerFired>>

(* Fault variant: a Removed log re-arms the timer.                        *)
RecvLogResetTimer ==
    /\ pc = "select"
    /\ queue # <<>>
    /\ queue' = Tail(queue)
    /\ IF Live(Head(queue))
         THEN /\ pc' = "done"
              /\ result' = [kind |-> "log", log |-> Head(queue)]
              /\ UNCHANGED <<timerAt, timerFired>>
         ELSE /\ timerAt' = clock + EventTimeout
              /\ timerFired' = FALSE
              /\ UNCHANGED <<pc, result>>
    /\ UNCHANGED <<subActive, sent, nextId, reorgs, clock, startAt>>

(* case log := <-logsCh: if !log.Removed return log, nil; otherwise loop. *)
RecvLog ==
    /\ pc = "select"
    /\ queue # <<>>
    /\ queue' = Tail(queue)
    /\ IF Live(Head(queue))
         THEN /\ pc' = "done"
              /\ result' = [kind |-> "log", log |-> Head(queue)]
         ELSE UNCHANGED <<pc, result>>
    /\ UNCHANGED <<subActive, sent, nextId, reorgs, clock, startAt, timerAt,
                   timerFired>>

(* Fault variant: the timeout is logged but the loop goes on.             *)
TimerCaseLoop ==
    /\ pc = "select"
    /\ timerFired
    /\ UNCHANGED vars

(* case <-timer.C: return types.Log{}, "watchEvent timed out".            *)
TimerCase ==
    /\ pc = "select"
    /\ timerFired
    /\ pc' = "done"
    /\ result' = [kind |-> "timeout"]
    /\ UNCHANGED <<subActive, queue, sent, nextId, reorgs, clock, startAt,
                   timerAt, timerFired>>

-----------------------------------------------------------------------------
(* Environment: the chain, the node's subscription, the timer and time *)

(* The node sends log l to the subscription, if it is still active.       *)
Send(l) ==
    /\ subActive
    /\ queue' = Append(queue, l)
    /\ sent' = Append(sent, l)

(* A NewJob event for this account is mined.                              *)
NewJob ==
    /\ nextId <= MaxEvents
    /\ nextId' = nextId + 1
    /\ \/ Send([id |-> nextId, removed |-> FALSE])
       \/ ~subActive /\ UNCHANGED <<queue, sent>>
    /\ UNCHANGED <<pc, subActive, reorgs, clock, startAt, timerAt, timerFired,
                   result>>

(* A reorg retracts a mined event; the node sends the Removed copy to     *)
(* every matching subscription, also one opened after the event was mined. *)
Retract ==
    /\ reorgs < MaxReorgs
    /\ \E i \in 1..(nextId - 1) : Send([id |-> i, removed |-> TRUE])
    /\ reorgs' = reorgs + 1
    /\ UNCHANGED <<pc, subActive, nextId, clock, startAt, timerAt, timerFired,
                   result>>

(* The subscription fails (connection lost); logs no longer arrive.       *)
SubDrop ==
    /\ subActive
    /\ subActive' = FALSE
    /\ UNCHANGED <<pc, queue, sent, nextId, reorgs, clock, startAt, timerAt,
                   timerFired, result>>

TimerFire ==
    /\ pc \in {"select", "done"}
    /\ ~timerFired
    /\ clock = timerAt
    /\ timerFired' = TRUE
    /\ UNCHANGED <<pc, subActive, queue, sent, nextId, reorgs, clock, startAt,
                   timerAt, result>>

(* The watcher has something to do, or the timer is due, at this instant. *)
Urgent ==
    \/ pc \in {"subscribe", "watch"}
    \/ pc = "select" /\ (queue # <<>> \/ timerFired)
    \/ pc = "select" /\ ~timerFired /\ clock = timerAt

Tick ==
    /\ clock < MaxClock
    /\ ~Urgent
    /\ clock' = clock + 1
    /\ UNCHANGED <<pc, subActive, queue, sent, nextId, reorgs, startAt,
                   timerAt, timerFired, result>>

Next ==
    \/ SubscribeToJobEvent \/ WatchEvent \/ RecvLog \/ TimerCase
    \/ NewJob \/ Retract \/ SubDrop \/ TimerFire \/ Tick

(* The watcher's goroutine runs when runnable, timers fire and time       *)
(* passes.  The node is not assumed to produce any event.                  *)
Fairness ==
    /\ WF_vars(SubscribeToJobEvent) /\ WF_vars(WatchEvent)
    /\ WF_vars(RecvLog \/ TimerCase)
    /\ WF_vars(TimerFire) /\ WF_vars(Tick)

Spec == Init /\ [][Next]_vars /\ Fairness

-----------------------------------------------------------------------------
(* Properties *)

FirstLive(s) == Head(SelectSeq(s, Live))

(* I3 and spec.md 8: WatchEvent never returns a Removed log, and what it  *)
(* returns is the first non-removed log the subscription delivered: given *)
(* [removed, removed, valid] it returns the valid one.                    *)
ReturnsFirstLiveLog ==
    result.kind = "log" =>
        /\ Live(result.log)
        /\ result.log = FirstLive(sent)

(* spec.md 4.2: Removed logs are dropped without resetting the timeout    *)
(* clock; the watcher never waits past eventTimeout from its start.       *)
WithinDeadline ==
    pc = "select" => clock <= startAt + EventTimeout

(* Every WatchEvent call returns, whatever the node does.                 *)
WatchReturns ==
    pc = "select" ~> pc = "done"

=============================================================================
