------------------------------ MODULE FollowModes ------------------------------
(***************************************************************************)
(* The follow modes of the web server (iot_robot_web): the change_mode     *)
(* tasks, the follow launch each of them may start, the status shown to    *)
(* the pages, and the shutdown of the server.                              *)
(*                                                                         *)
(* Everything but the graph timer runs on one asyncio thread: an action    *)
(* is what a task does from one await to the next.  A launch is named by   *)
(* the task that starts it.                                                *)
(***************************************************************************)
EXTENDS Naturals, Sequences, FiniteSets, SequencesExt

CONSTANTS
  Task,      \* the change_mode tasks; their number bounds the requests
  Main,      \* serve()
  Client,    \* the browsers
  Nobody,    \* no client, and no launch
  Mode,      \* the modes the pages ask for
  Drive,     \* the one that launches nothing
  Needs,     \* what follow_status waits for in each follow mode: nodes of its launch
  Faults     \* what a launch may do unasked: "exits", or "dies" and leaves its nodes

ASSUME ConstantsAssumption ==
  /\ Main \notin Task /\ Nobody \notin Task \cup Client
  /\ Drive \in Mode /\ Needs \in [Mode -> SUBSET {"follower", "detector"}]
  /\ Needs[Drive] = {} /\ Faults \subseteq {"exits", "dies"}

VARIABLES
  mode,       \* mode of the server and of the bridge, always set together
  status,     \* mode_status
  follow,     \* self.follow, Nobody for None
  ready,      \* follower_ready and detector_ready, as the graph timer last saw them
  driver,     \* holder of the driver lock
  queue,      \* the tasks inside or waiting for mode_lock; the first one holds it
  pc,         \* the await each task and serve() stopped at
  goal,       \* the client and the mode of each task
  target,     \* the launch each of them is stopping
  cancelled,  \* the tasks with a cancellation to be delivered
  stopped,    \* the event serve() waits for
  launch,     \* each launch process: not forked, up or gone
  handle,     \* its FollowProcess.process is set
  asked,      \* it got SIGINT
  nodes       \* the nodes of its process group that are alive

web == <<mode, status, follow, driver, queue, pc, goal, target, cancelled, stopped>>
processes == <<launch, handle, asked, nodes>>
vars == <<web, ready, processes>>

Running == pc[Main] # "gone"
Alive(p) == launch[p] = "up" \/ nodes[p] # {}

\* FollowProcess.kill: SIGKILL to the group.
Killed(p) ==
  /\ launch' = [launch EXCEPT ![p] = "gone"]
  /\ nodes' = [nodes EXCEPT ![p] = {}]

\* The task ends, and leaves mode_lock to the next one.
Leave(t) ==
  /\ pc' = [pc EXCEPT ![t] = "done"]
  /\ \/ t \notin ToSet(queue) /\ UNCHANGED queue  \* it took the lock and leaves it at once
     \/ \E i \in DOMAIN queue : queue[i] = t /\ queue' = RemoveAt(queue, i)

\* It waits for mode_lock, or goes on holding it.
Queued(a) == IF a # Main /\ pc[a] = "idle" THEN Append(queue, a) ELSE queue

-----------------------------------------------------------------------------
(* change_mode and stop_follow *)

\* may_control
MayControl(c) == driver \in {Nobody, c}

\* change_mode, once the old launch is stopped: the fork may fail.
Switch(t) ==
  /\ mode' = goal'[t].mode
  /\ \/ /\ mode' = Drive
        /\ status' = "ready" /\ follow' = Nobody
        /\ Leave(t) /\ UNCHANGED launch
     \/ /\ mode' # Drive
        /\ status' = "starting" /\ follow' = t
        /\ launch' = [launch EXCEPT ![t] = "up"]
        /\ pc' = [pc EXCEPT ![t] = "start"] /\ queue' = Queued(t)
     \/ /\ mode' # Drive
        /\ status' = "failed" /\ follow' = t
        /\ Leave(t) /\ UNCHANGED launch

\* shutdown, once the launch is stopped.
Clean ==
  /\ status' = IF follow = Nobody THEN status ELSE "stopping"
  /\ follow' = Nobody
  /\ pc' = [pc EXCEPT ![Main] = "cleanup"]
  /\ UNCHANGED <<mode, queue, launch>>

Proceed(a) == IF a = Main THEN Clean ELSE Switch(a)

\* FollowProcess.stop has a process to stop.
Stoppable == follow # Nobody /\ handle[follow]

\* stop_follow and FollowProcess.stop up to the first await, or to the end of stop_follow.
BeginStop(a) ==
  \/ /\ ~Stoppable
     /\ Proceed(a)
     /\ UNCHANGED <<target, asked, nodes>>
  \/ /\ Stoppable
     /\ status' = "stopping"
     /\ target' = [target EXCEPT ![a] = follow]
     /\ IF launch[follow] = "up"
        THEN /\ asked' = [asked EXCEPT ![follow] = TRUE]
             /\ pc' = [pc EXCEPT ![a] = "int"]
             /\ UNCHANGED <<launch, nodes>>
        ELSE /\ Killed(follow)
             /\ pc' = [pc EXCEPT ![a] = "read"]
             /\ UNCHANGED asked
     /\ queue' = Queued(a)
     /\ UNCHANGED <<mode, follow>>

\* The mode is on already.
NothingToDo(t) == goal'[t].mode = mode /\ status # "failed"

\* change_mode, once it holds mode_lock.
Enter(t) ==
  \/ /\ NothingToDo(t)
     /\ Leave(t)
     /\ UNCHANGED <<mode, status, follow, target, launch, asked, nodes>>
  \/ ~NothingToDo(t) /\ BeginStop(t)

Unstopped == <<ready, driver, cancelled, stopped, handle>>

\* A page asks for a mode: the task looks who is driving, and then takes mode_lock.
Request(t, c, m) ==
  /\ Running /\ pc[t] = "idle"
  /\ MayControl(c)
  /\ goal' = [goal EXCEPT ![t] = [client |-> c, mode |-> m]]
  /\ \/ queue = <<>> /\ Enter(t)
     \/ /\ queue # <<>>
        /\ queue' = Queued(t)
        /\ pc' = [pc EXCEPT ![t] = "wait"]
        /\ UNCHANGED <<mode, status, follow, target, launch, asked, nodes>>
  /\ UNCHANGED Unstopped

\* It gets mode_lock.
Wake(t) ==
  /\ pc[t] = "wait" /\ t = Head(queue) /\ t \notin cancelled
  /\ UNCHANGED <<goal, Unstopped>>
  /\ Enter(t)

\* Mutant: only the launch is waited for, and its group is never killed.
KillsRest_Never(a) == UNCHANGED <<launch, nodes>>
KillsRest(a) == Killed(target[a])

\* The launch exited in time; what it left behind is killed.
Exited(a) ==
  /\ pc[a] = "int" /\ launch[target[a]] = "gone" /\ a \notin cancelled
  /\ KillsRest(a)
  /\ pc' = [pc EXCEPT ![a] = "read"]
  /\ UNCHANGED <<mode, status, follow, queue, target, goal, asked, Unstopped>>

\* It did not.
TimedOut(a) ==
  /\ pc[a] = "int" /\ launch[target[a]] = "up" /\ a \notin cancelled
  /\ KillsRest(a)
  /\ pc' = [pc EXCEPT ![a] = "reap"]
  /\ UNCHANGED <<mode, status, follow, queue, target, goal, asked, Unstopped>>

Reaped(a) ==
  /\ pc[a] = "reap" /\ launch[target[a]] = "gone" /\ a \notin cancelled
  /\ pc' = [pc EXCEPT ![a] = "read"]
  /\ UNCHANGED <<mode, status, follow, queue, target, goal, launch, asked, nodes, Unstopped>>

\* The reader is done or takes too long.  A cancellation is swallowed here.
Drained(a) ==
  /\ pc[a] = "read"
  /\ UNCHANGED goal
  /\ Proceed(a)
  /\ cancelled' = cancelled \ {a}
  /\ UNCHANGED <<ready, driver, stopped, target, asked, nodes, handle>>

\* create_subprocess_exec returns.
Started(t) ==
  /\ pc[t] = "start" /\ t \notin cancelled
  /\ handle' = [handle EXCEPT ![t] = TRUE]
  /\ Leave(t)
  /\ UNCHANGED <<mode, status, follow, ready, driver, goal, target, cancelled, stopped,
                 launch, asked, nodes>>

\* A cancellation anywhere else ends the task; a launch that is starting is killed.
Cancel(t) ==
  /\ t \in cancelled /\ pc[t] \in {"wait", "int", "reap", "start"}
  /\ Leave(t)
  /\ cancelled' = cancelled \ {t}
  /\ launch' = IF pc[t] = "start" THEN [launch EXCEPT ![t] = "gone"] ELSE launch
  /\ UNCHANGED <<mode, status, follow, ready, driver, goal, target, stopped,
                 handle, asked, nodes>>

-----------------------------------------------------------------------------
(* The status *)

\* on_graph_timer, on the ROS thread.
GraphTimer ==
  /\ Running
  /\ ready' = UNION {nodes[p] : p \in Task}
  /\ UNCHANGED <<web, processes>>

\* Mutant: a launch that is gone is not noticed while its nodes are alive.
Failed_NoNodes == launch[follow] = "gone" /\ ~Needs[mode] \subseteq ready
\* ~follow.running
Failed == launch[follow] = "gone"

\* telemetry: follow_status, for any page.
Telemetry ==
  /\ pc[Main] = "serve"
  /\ mode # Drive /\ status \notin {"stopping", "failed"} /\ Stoppable
  /\ \/ Failed /\ status' = "failed"
     \/ ~Failed /\ Needs[mode] \subseteq ready /\ status' = "running"
  /\ UNCHANGED <<mode, follow, ready, driver, queue, pc, goal, target, cancelled, stopped,
                 processes>>

-----------------------------------------------------------------------------
(* serve and shutdown *)

\* SIGINT, or the ROS thread ended.
Stop ==
  /\ Running /\ stopped' = TRUE
  /\ UNCHANGED <<mode, status, follow, ready, driver, queue, pc, goal, target, cancelled,
                 processes>>

\* SIGTERM: kill_follow first.
Terminate ==
  /\ Running /\ stopped' = TRUE
  /\ IF Stoppable THEN Killed(follow) ELSE UNCHANGED <<launch, nodes>>
  /\ UNCHANGED <<mode, status, follow, ready, driver, queue, pc, goal, target, cancelled,
                 handle, asked>>

\* shutdown: every task is cancelled, and the pages are closed.
Shutdown ==
  /\ pc[Main] = "serve" /\ stopped
  /\ pc' = [pc EXCEPT ![Main] = "closing"]
  /\ cancelled' = ToSet(queue)
  /\ UNCHANGED <<mode, status, follow, ready, driver, queue, goal, target, stopped, processes>>

Closed ==
  /\ pc[Main] = "closing"
  /\ BeginStop(Main)
  /\ UNCHANGED <<goal, Unstopped>>

\* Mutant: a launch is not told when its parent dies.
Orphaned_Unasked(p) == asked[p]
\* PR_SET_PDEATHSIG: a launch gets SIGINT when the web node is gone.
Orphaned(p) == asked[p] \/ launch'[p] = "up"

Gone ==
  /\ pc' = [a \in DOMAIN pc |-> "gone"]
  /\ queue' = <<>> /\ cancelled' = {}
  /\ asked' = [p \in Task |-> Orphaned(p)]
  /\ UNCHANGED <<mode, status, follow, ready, driver, goal, target, stopped, handle>>

\* The last kill_follow, and the process exits.
Exit ==
  /\ pc[Main] = "cleanup"
  /\ IF Stoppable THEN Killed(follow) ELSE UNCHANGED <<launch, nodes>>
  /\ Gone

\* A crash, or kill -9.
Crash == Running /\ UNCHANGED <<launch, nodes>> /\ Gone

-----------------------------------------------------------------------------
(* The launches, and the driver *)

\* Connecting the pipes takes far less time than a launch needs to start a node.
NodeStarts(p, n) ==
  /\ launch[p] = "up" /\ ~asked[p] /\ (handle[p] \/ ~Running)
  /\ n \in Needs[goal[p].mode] \ nodes[p]
  /\ nodes' = [nodes EXCEPT ![p] = @ \cup {n}]
  /\ UNCHANGED <<web, ready, launch, handle, asked>>

\* The launch shuts its nodes down and exits.
LaunchExits(p) ==
  /\ launch[p] = "up" /\ (asked[p] \/ "exits" \in Faults)
  /\ Killed(p)
  /\ UNCHANGED <<web, ready, handle, asked>>

\* The launch dies and leaves its nodes running.
LaunchDies(p) ==
  /\ launch[p] = "up" /\ "dies" \in Faults
  /\ launch' = [launch EXCEPT ![p] = "gone"]
  /\ UNCHANGED <<web, ready, handle, asked, nodes>>

\* Somebody takes or leaves the controls.
DriverChanges ==
  /\ Running
  /\ driver' \in (Client \cup {Nobody}) \ {driver}
  /\ UNCHANGED <<mode, status, follow, ready, queue, pc, goal, target, cancelled, stopped,
                 processes>>

-----------------------------------------------------------------------------
Init ==
  /\ mode = Drive /\ status = "ready" /\ follow = Nobody
  /\ ready = {} /\ driver = Nobody
  /\ queue = <<>> /\ cancelled = {} /\ stopped = FALSE
  /\ pc = [a \in Task \cup {Main} |-> IF a = Main THEN "serve" ELSE "idle"]
  /\ goal = [t \in Task |-> [client |-> Nobody, mode |-> Drive]]
  /\ target = [a \in Task \cup {Main} |-> Nobody]
  /\ launch = [p \in Task |-> "none"]
  /\ handle = [p \in Task |-> FALSE] /\ asked = [p \in Task |-> FALSE]
  /\ nodes = [p \in Task |-> {}]

Stopping(a) == Exited(a) \/ TimedOut(a) \/ Reaped(a) \/ Drained(a)
TaskStep(t) == Wake(t) \/ Stopping(t) \/ Started(t) \/ Cancel(t)
MainStep == Shutdown \/ Closed \/ Stopping(Main) \/ Exit
World ==
  \/ \E p \in Task : LaunchExits(p) \/ LaunchDies(p)
  \/ \E p \in Task, n \in {"follower", "detector"} : NodeStarts(p, n)
  \/ DriverChanges \/ Stop \/ Terminate \/ Crash

Next ==
  \/ \E t \in Task, c \in Client, m \in Mode : Request(t, c, m)
  \/ \E t \in Task : TaskStep(t)
  \/ MainStep \/ GraphTimer \/ Telemetry \/ World

Spec == Init /\ [][Next]_vars

\* The event loop runs what is ready, and its timeouts expire.
Fairness ==
  /\ \A t \in Task : WF_vars(TaskStep(t))
  /\ WF_vars(MainStep) /\ WF_vars(Telemetry)
FairSpec == Spec /\ Fairness

-----------------------------------------------------------------------------
Awaits == {"idle", "wait", "int", "reap", "read", "start", "done",
           "serve", "closing", "cleanup", "gone"}
\* Types, who holds mode_lock, and that nothing runs of a process that was not forked.
TypeOK ==
  /\ mode \in Mode /\ follow \in Task \cup {Nobody} /\ driver \in Client \cup {Nobody}
  /\ status \in {"ready", "starting", "running", "stopping", "failed"}
  /\ pc \in [Task \cup {Main} -> Awaits]
  /\ \A t \in Task : pc[t] \in {"int", "reap", "read", "start"} => queue # <<>> /\ t = Head(queue)
  /\ \A t \in Task : t \in ToSet(queue) <=> pc[t] \notin {"idle", "done", "gone"}
  /\ \A p \in Task : launch[p] = "none" => nodes[p] = {} /\ ~handle[p] /\ ~asked[p]
  /\ ready \subseteq {"follower", "detector"} /\ cancelled \subseteq Task /\ stopped \in BOOLEAN

\* No detector or follower is left behind by a switch: until the server shuts down, what is
\* alive belongs to the launch of the mode the pages show, so in Drive nothing does
\* (docs/web.md:258-259).
OnlyCurrent ==
  Running /\ ~stopped => \A p \in Task : Alive(p) => p = follow /\ goal[p].mode = mode

\* Every request is served in the end, whatever the old launch does with SIGINT
\* (docs/web.md:210).
Served == \A t \in Task : pc[t] \notin {"idle", "done"} ~> pc[t] \in {"done", "gone"}

\* A launch that is gone is shown as failed, unless it is replaced or the server stops
\* (web_controller.py:861-864).
FailureShown ==
  \A p \in Task : follow = p /\ handle[p] /\ launch[p] = "gone"
                 ~> status = "failed" \/ follow # p \/ stopped \/ ~Running

\* Launches that obey SIGINT and leave no nodes behind do not outlive the web node by long,
\* however it ends (docs/web.md:155-157).
Obeys == \A p \in Task : []<>(asked[p] => launch[p] # "up") /\ [](launch[p] = "gone" => nodes[p] = {})
GoneAfterExit == Obeys => \A p \in Task : ~Running ~> ~Alive(p)

\* What is alive belongs to the mode shown, in a state that is well formed.
FollowSafety == TypeOK /\ OnlyCurrent
=============================================================================
