--------------------------- MODULE ScenarioService ---------------------------
(***************************************************************************)
(* What the scenario manager promises to whoever asks it to change a       *)
(* scenario.  One request is served at a time.  It leaves the scenario in  *)
(* the database as it was or as it was to be, and a reply OK says that it  *)
(* is as it was to be.  Actions begin only while the scenario is live: it  *)
(* gets live when a request sets it up and stays so until one takes it     *)
(* down or the process is restarted.  After a reply OK it is live if and   *)
(* only if it is enabled, and when it is not none of its actions runs.     *)
(* A set-up that fails when it is already live leaves something that is    *)
(* loose: it runs actions, whatever is asked for, until the next restart.  *)
(***************************************************************************)
CONSTANTS
  Threads,    \* the threads that run actions
  Server      \* the one that serves the requests

VARIABLES
  stored,     \* the scenario in the database: "absent", "enabled" or "disabled"
  serving,    \* what is served, or "none"
  goal,       \* what that is to leave
  promised,   \* what the last reply OK said, "none" after an ERROR
  live,       \* actions may begin
  acting,     \* the threads that run an action
  loose,      \* a set-up was abandoned when it was live
  astray      \* an action of it runs

vars == <<stored, serving, goal, promised, live, acting, loose, astray>>

\* Requests that set the scenario up, and that take it down.
Builders == {"create", "update", "enable"}
Cleaners == {"update", "delete", "disable"}
Changes == Builders \cup Cleaners

Init ==
  /\ stored = "absent" /\ promised = "none"
  /\ serving = "none" /\ goal = "absent"
  /\ live = FALSE /\ acting = {}
  /\ loose = FALSE /\ astray = FALSE

Ask(op, s) ==
  /\ serving = "none"
  /\ serving' = op /\ goal' = s
  /\ promised' = IF op = "message" THEN promised ELSE "none"
  /\ UNCHANGED <<stored, live, acting, loose, astray>>

Write ==
  /\ serving \in Changes
  /\ stored' = goal
  /\ UNCHANGED <<serving, goal, promised, live, acting, loose, astray>>

SetUp ==
  /\ serving \in Builders \cup {"load"}
  /\ goal = "enabled"
  /\ live' = TRUE
  /\ UNCHANGED <<stored, serving, goal, promised, acting, loose, astray>>

TakeDown ==
  /\ serving \in Cleaners
  /\ live' = FALSE
  /\ UNCHANGED <<stored, serving, goal, promised, acting, loose, astray>>

\* The server runs actions only for what it serves.
Act(t) ==
  /\ live
  /\ t = Server => serving # "none"
  /\ acting' = acting \cup {t}
  /\ UNCHANGED <<stored, serving, goal, promised, live, loose, astray>>

Rest(t) ==
  /\ acting' = acting \ {t}
  /\ UNCHANGED <<stored, serving, goal, promised, live, loose, astray>>

\* The reply OK.
Confirm ==
  /\ serving \in Changes
  /\ live = (goal = "enabled")
  /\ live \/ acting = {}
  /\ stored' = goal /\ promised' = goal
  /\ serving' = "none" /\ goal' = "absent"
  /\ UNCHANGED <<live, acting, loose, astray>>

\* The reply ERROR, after which a scenario that was to be created may be there or not, and
\* the end of what needs no reply.
Finish ==
  /\ serving # "none"
  /\ stored' = stored \/ (serving = "create" /\ stored' = "absent")
  /\ serving' = "none" /\ goal' = "absent"
  /\ UNCHANGED <<promised, live, acting, loose, astray>>

\* The reply ERROR to a set-up that fails late.
Abandon ==
  /\ serving \in {"create", "update", "load"} /\ live
  /\ stored' = stored \/ (serving = "create" /\ stored' = "absent")
  /\ serving' = "none" /\ goal' = "absent"
  /\ live' = FALSE /\ acting' = {}
  /\ loose => loose'
  /\ astray' <=> astray \/ acting # {}
  /\ UNCHANGED promised

\* What was abandoned acts or not.
Wander ==
  /\ astray' => loose
  /\ UNCHANGED <<stored, serving, goal, promised, live, acting, loose>>

\* The promise survives the process.
Restart ==
  /\ serving' = "load" /\ goal' = stored
  /\ live' = FALSE /\ acting' = {}
  /\ loose' = FALSE /\ astray' = FALSE
  /\ UNCHANGED <<stored, promised>>

Next ==
  \/ \E op \in Changes \cup {"message"}, s \in {"absent", "enabled", "disabled"} : Ask(op, s)
  \/ Write \/ SetUp \/ TakeDown \/ Confirm \/ Finish \/ Abandon \/ Wander \/ Restart
  \/ \E t \in Threads : Act(t) \/ Rest(t)

Spec == Init /\ [][Next]_vars

=============================================================================
