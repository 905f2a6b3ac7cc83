----------------------------- MODULE UpdateTask -----------------------------
(***************************************************************************)
(* What a task promises whoever starts it and listens to it, without       *)
(* queues, actions, threads or locks.  A task runs or is idle.  While it   *)
(* runs the progress only grows, and the status is the one the run began   *)
(* with.  The first action that fails breaks the run: nothing is switched  *)
(* after that, and the run ends as FAILED; a run that nothing broke ends   *)
(* as SUCCESSFUL.  A task nobody listens to keeps its status and progress. *)
(***************************************************************************)
EXTENDS Naturals

CONSTANT Task    \* the tasks

VARIABLE task    \* [running, broken, switched, heard, status, percent] of each

New == [running |-> FALSE, broken |-> FALSE, switched |-> FALSE, heard |-> FALSE,
        status |-> "INIT", percent |-> 0]

Become(k, v) == task' = [task EXCEPT ![k] = v]

\* The status and the progress after a report: without a listener there is none.
Tell(v, status, percent) ==
    IF v.heard THEN [v EXCEPT !.status = status, !.percent = percent] ELSE v

Init == task = [k \in Task |-> New]

Listen(k) == Become(k, [task[k] EXCEPT !.heard = TRUE])

Begin(k) ==
    /\ ~task[k].running
    /\ Become(k, Tell([task[k] EXCEPT !.running = TRUE, !.switched = FALSE],
                      "ONGOING", task[k].percent))

Progress(k) ==
    /\ task[k].running /\ ~task[k].broken /\ task[k].heard
    /\ \E p \in task[k].percent..100 : Become(k, [task[k] EXCEPT !.percent = p])

Switch(k) ==
    /\ task[k].running /\ ~task[k].broken
    /\ Become(k, [task[k] EXCEPT !.switched = TRUE])

Break(k) ==
    /\ task[k].running /\ ~task[k].broken
    /\ Become(k, [task[k] EXCEPT !.broken = TRUE])

End(k) ==
    /\ task[k].running
    /\ Become(k, Tell([task[k] EXCEPT !.running = FALSE, !.broken = FALSE],
                      IF task[k].broken THEN "FAILED" ELSE "SUCCESSFUL", 100))

Next == \E k \in Task :
            Listen(k) \/ Begin(k) \/ Progress(k) \/ Switch(k) \/ Break(k) \/ End(k)

Spec == Init /\ [][Next]_task
=============================================================================
