---------------------------- MODULE AsyncContext ----------------------------
(***************************************************************************)
(* The runtime behind asynchronous calls from Java, Swift and Node: each   *)
(* call is a task with an id, by which it can be cancelled until its       *)
(* result is known.  The result is reported on a thread of its own.        *)
(***************************************************************************)
EXTENDS Naturals

CONSTANT MaxTasks

ASSUME TasksAssumption == MaxTasks \in Nat \ {0}

Ids == 1 .. MaxTasks

VARIABLES tasks,    \* the ids whose cancellation sender is in the map
          next,     \* next_raw_cancellation_id
          task      \* how far the task of each id is

contextVars == <<tasks, next, task>>

NoTask == [at |-> "none", closed |-> FALSE, outcome |-> "none"]

\* Faulty variant: ids of tasks that have ended are given out again.
RunFutureReused(i) ==
    /\ i \in Ids \ tasks /\ \A j \in Ids \ tasks : i =< j
    /\ UNCHANGED next
    /\ tasks' = tasks \cup {i}
    /\ task' = [task EXCEPT ![i] = [NoTask EXCEPT !.at = "running"]]

\* run_future_boxed: the sender is in the map before the task is spawned.
RunFuture(i) ==
    /\ i = next /\ i \in Ids /\ next' = next + 1
    /\ tasks' = tasks \cup {i}
    /\ task' = [task EXCEPT ![i] = [NoTask EXCEPT !.at = "running"]]

\* The future of the task completes: with its result, or, if the sender was dropped,
\* as cancelled.  Its report is spawned as a blocking task.
Finishes(i, outcome) ==
    /\ task[i].at = "running"
    /\ outcome = "cancelled" => task[i].closed
    /\ task' = [task EXCEPT ![i].at = "finished", ![i].outcome = outcome]
    /\ UNCHANGED <<tasks, next>>

\* Then the task removes its sender from the map.
Forget(i) ==
    /\ task[i].at \in {"finished", "reported"} /\ i \in tasks
    /\ tasks' = tasks \ {i}
    /\ UNCHANGED <<next, task>>

\* The thread of the report takes it.
TakeReport(i) ==
    /\ task[i].at = "finished"
    /\ task' = [task EXCEPT ![i].at = "reported"]
    /\ UNCHANGED <<tasks, next>>

\* cancel: the sender, if it is still in the map, is removed and dropped.
CancelTask(i) ==
    /\ tasks' = tasks \ {i}
    /\ task' = IF i \in tasks THEN [task EXCEPT ![i].closed = TRUE] ELSE task
    /\ UNCHANGED next

RuntimeSteps(i) ==
    \/ \E outcome \in {"value", "exception", "cancelled"} : Finishes(i, outcome)
    \/ Forget(i)
=============================================================================
