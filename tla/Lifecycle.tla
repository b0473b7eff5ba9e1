------------------------------ MODULE Lifecycle ------------------------------
(***************************************************************************)
(* The Run and Task statuses and the tables of legal status changes        *)
(* (app/state/machine.py).  Every other module takes them from here.       *)
(***************************************************************************)

\* Run: the legal targets of every status.
RunTransitions ==
  [ queued           |-> {"running", "cancelled"},
    running          |-> {"waiting_approval", "completed", "failed", "cancelled"},
    waiting_approval |-> {"running", "failed", "cancelled"},
    completed        |-> {},
    failed           |-> {},
    cancelled        |-> {} ]

\* Task: the legal targets of every status.
TaskTransitions ==
  [ pending          |-> {"ready", "blocked", "cancelled"},
    ready            |-> {"running", "blocked", "cancelled"},
    running          |-> {"waiting_approval", "blocked", "completed", "failed", "cancelled"},
    waiting_approval |-> {"running", "blocked", "failed", "cancelled"},
    blocked          |-> {"ready", "failed", "cancelled"},
    completed        |-> {},
    failed           |-> {},
    cancelled        |-> {} ]

RunStatus  == {"queued", "running", "waiting_approval", "completed", "failed", "cancelled"}
TaskStatus == {"pending", "ready", "running", "waiting_approval", "blocked",
               "completed", "failed", "cancelled"}

RunTerminal  == {"completed", "failed", "cancelled"}
TaskTerminal == {"completed", "failed", "cancelled"}
=============================================================================
