----------------------------- MODULE TaskQueue ------------------------------
(***************************************************************************)
(* What the thread pool promises its users: tasks are started in the order *)
(* of a double-ended queue, at most MaxRunning of them run at a time, a    *)
(* task that has started is finished, and none starts or is accepted once  *)
(* the queue is shut.  Tasks are discarded only when the queue is shut and *)
(* nothing runs any more.                                                  *)
(***************************************************************************)
EXTENDS Naturals, Sequences, FiniteSets

CONSTANTS Tasks, MaxRunning

VARIABLES open, pending, running, done, dropped

tqVars == <<open, pending, running, done, dropped>>

Waiting == {pending[i] : i \in DOMAIN pending}

Init ==
    /\ open = TRUE
    /\ pending = <<>>
    /\ running = {} /\ done = {} /\ dropped = {}

\* A task joins the queue at its tail, or at its head.
Submit(t) ==
    /\ open
    /\ t \notin Waiting \cup running \cup done \cup dropped
    /\ pending' = Append(pending, t) \/ pending' = <<t>> \o pending
    /\ UNCHANGED <<open, running, done, dropped>>

Start ==
    /\ open /\ pending # <<>>
    /\ Cardinality(running) < MaxRunning
    /\ running' = running \cup {Head(pending)}
    /\ pending' = Tail(pending)
    /\ UNCHANGED <<open, done, dropped>>

Finish(t) ==
    /\ t \in running
    /\ running' = running \ {t}
    /\ done' = done \cup {t}
    /\ UNCHANGED <<open, pending, dropped>>

Shut ==
    /\ open
    /\ open' = FALSE
    /\ UNCHANGED <<pending, running, done, dropped>>

Discard ==
    /\ ~open /\ running = {}
    /\ dropped' = dropped \cup Waiting
    /\ pending' = <<>>
    /\ UNCHANGED <<open, running, done>>

Next ==
    \/ \E t \in Tasks : Submit(t) \/ Finish(t)
    \/ Start
    \/ Shut
    \/ Discard

Spec == Init /\ [][Next]_tqVars
=============================================================================
