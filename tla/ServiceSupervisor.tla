------------------------- MODULE ServiceSupervisor -------------------------
(***************************************************************************)
(* The supervisor of an embedded service (src/lib/services/                *)
(* ServiceSupervisor.ts), its health poller (healthCheck.ts) and the probe *)
(* of the port before a spawn (portProbe.ts), as bootstrap.ts configures   *)
(* them.                                                                   *)
(*                                                                         *)
(* A process is absent, up (alive, not listening), sick (holds the port,   *)
(* fails the health check), serving, or dead (it exited, the exit event    *)
(* has not been handled).  Foreign is a process the supervisor did not     *)
(* spawn.  Everything the code does between two waits for a process, a     *)
(* timer or the network is one action; the status row in the database is   *)
(* written in the same steps as the state and is left out.                 *)
(***************************************************************************)
EXTENDS Naturals, Sequences, FiniteSets

CONSTANTS Children,   \* processes the supervisor can have alive at a time
          Foreign, NoProc,
          Adopts,     \* OMNIROUTE_ADOPT_EXISTING_SERVICE
          Threshold,  \* FAILURE_THRESHOLD
          MaxPolls,   \* bound: health polls in flight
          MaxOps      \* bound: operations that wait for the lock

Procs == Children \cup {Foreign}

ASSUME SupervisorAssumption ==
    /\ Foreign \notin Children /\ NoProc \notin Procs
    /\ Adopts \in BOOLEAN
    /\ Threshold \in Nat \ {0} /\ MaxPolls \in Nat \ {0} /\ MaxOps \in Nat \ {0}

VARIABLES state, child, pid, adopted,
          checker,   \* HealthChecker: active, consecutiveFailures, currentHealth
          polls,     \* health polls in flight, by the answer on its way
          proc,      \* the processes
          termed,    \* children whose ChildProcess.killed is set
          killed,    \* processes that were sent SIGKILL
          ops,       \* operationLock: the operations in their order
          pc,        \* where the operation at the head waits
          target,    \* the process it waits for, or has looked up
          overtaken  \* ghost: a start was set to error before it spawned

vars == <<state, child, pid, adopted, checker, polls, proc, termed, killed, ops, pc, target, overtaken>>

Listening == {p \in Procs : proc[p] \in {"sick", "serving"}}
Serving == {p \in Procs : proc[p] = "serving"}
Alive == {p \in Procs : proc[p] \in {"up", "sick", "serving"}}

Starting == {"probing", "resolving", "resolved", "killing", "waiting"}

(* Besides the types: the state shows an operation only while it runs.     *)
TypeOK ==
    /\ state \in {"stopped", "starting", "running", "stopping", "error"}
    /\ child \in Children \cup {NoProc} /\ pid \in Procs \cup {NoProc} /\ adopted \in BOOLEAN
    /\ checker \in [active : BOOLEAN, failures : 0..Threshold, health : {"unknown", "healthy", "unhealthy"}]
    /\ polls \in [{"ok", "bad"} -> 0..MaxPolls]
    /\ proc \in [Procs -> {"absent", "up", "sick", "serving", "dead"}] /\ Cardinality(Listening) <= 1
    /\ termed \subseteq Children /\ killed \subseteq Procs
    /\ ops \in Seq({"start", "stop"}) /\ Len(ops) <= MaxOps
    /\ pc \in Starting \cup {"free", "stopping"}
    /\ target \in Procs \cup {NoProc} /\ (pc \in {"killing", "stopping"} => target # NoProc)
    /\ (state = "starting" => pc \in Starting) /\ (state = "stopping" <=> pc = "stopping")
    /\ overtaken \in BOOLEAN

Init ==
    /\ state = "stopped" /\ child = NoProc /\ pid = NoProc /\ adopted = FALSE
    /\ checker = [active |-> FALSE, failures |-> 0, health |-> "unknown"]
    /\ polls = [a \in {"ok", "bad"} |-> 0]
    /\ proc \in {[p \in Procs |-> IF p = Foreign THEN s ELSE "absent"] : s \in {"absent", "sick", "serving"}}
    /\ termed = {} /\ killed = {} /\ ops = << >> /\ pc = "free" /\ target = NoProc /\ overtaken = FALSE

handle == <<child, pid, adopted>>
os == <<proc, termed, killed>>
lock == <<ops, pc, target>>

-----------------------------------------------------------------------------
(* HealthChecker.start and stop.                                           *)
Watch == checker' = IF checker.active THEN checker ELSE [active |-> TRUE, failures |-> 0, health |-> "unknown"]
Unwatch == checker' = [checker EXCEPT !.active = FALSE, !.health = "unknown"]

(* poll: sent while the poller is active; a serving process answers 2xx,   *)
(* anything else, and any answer that takes 5 s, is a failure.             *)
PollSent ==
    /\ checker.active /\ polls["ok"] + polls["bad"] < MaxPolls
    /\ \E a \in {"ok", "bad"} : /\ a = "ok" => Serving # {}
                                /\ polls' = [polls EXCEPT ![a] = @ + 1]
    /\ UNCHANGED <<state, handle, checker, os, lock, overtaken>>

(* The answer is applied, also when the poller was stopped meanwhile.      *)
PollOk ==
    /\ polls["ok"] > 0
    /\ polls' = [polls EXCEPT !["ok"] = @ - 1]
    /\ checker' = [checker EXCEPT !.failures = 0, !.health = "healthy"]
    /\ UNCHANGED <<state, handle, os, lock, overtaken>>

(* Mutant of PollBad: the state is only changed while the service starts.  *)
PollBadStarting ==
    /\ polls["bad"] > 0
    /\ polls' = [polls EXCEPT !["bad"] = @ - 1]
    /\ LET n == IF checker.failures < Threshold THEN checker.failures + 1 ELSE Threshold
           trips == n = Threshold /\ checker.health # "unhealthy" /\ state = "starting"
       IN  /\ state' = IF trips THEN "error" ELSE state
           /\ checker' = IF trips THEN [active |-> FALSE, failures |-> n, health |-> "unknown"]
                         ELSE [checker EXCEPT !.failures = n, !.health = IF n = Threshold THEN "unhealthy" ELSE @]
    /\ UNCHANGED <<handle, os, lock, overtaken>>

(* recordFailure; at the threshold onChange stops the poller and gives up. *)
PollBad ==
    /\ polls["bad"] > 0
    /\ polls' = [polls EXCEPT !["bad"] = @ - 1]
    /\ LET n == IF checker.failures < Threshold THEN checker.failures + 1 ELSE Threshold
           trips == n = Threshold /\ checker.health # "unhealthy" /\ state \in {"running", "starting"}
       IN  /\ state' = IF trips THEN "error" ELSE state
           /\ checker' = IF trips THEN [active |-> FALSE, failures |-> n, health |-> "unknown"]
                         ELSE [checker EXCEPT !.failures = n, !.health = IF n = Threshold THEN "unhealthy" ELSE @]
    /\ UNCHANGED <<handle, os, lock, overtaken>>

-----------------------------------------------------------------------------
(* withLock: operations run one at a time, in the order of the calls.      *)
Call(o) ==
    /\ Len(ops) < MaxOps
    /\ ops' = Append(ops, o)
    /\ UNCHANGED <<state, handle, checker, polls, os, pc, target, overtaken>>

Turn(o) == pc = "free" /\ ops # << >> /\ Head(ops) = o
Wait(where, p) == pc' = where /\ target' = p /\ UNCHANGED ops
Done == pc' = "free" /\ target' = NoProc /\ ops' = Tail(ops)

StartBegins ==
    /\ Turn("start")
    /\ \/ state \in {"running", "starting"} /\ Done /\ UNCHANGED <<state, adopted>>
       \/ state \notin {"running", "starting"} /\ state' = "starting" /\ adopted' = FALSE /\ Wait("probing", NoProc)
    /\ UNCHANGED <<child, pid, checker, polls, os, overtaken>>

(* spawn: a child with a pid, a child that only emits `error', or a throw. *)
(* Before it, SIGKILL was sent to the processes in gone.                   *)
Spawn(gone) ==
    \/ \E c \in Children \ {child} :
          /\ proc[c] = "absent"
          /\ child' = c /\ Watch /\ Wait("waiting", NoProc)
          /\ termed' = termed \ {c} /\ killed' = (killed \ {c}) \cup gone
          /\ proc' = [proc EXCEPT ![c] = "up"] /\ pid' = c /\ UNCHANGED state
    \/ \E c \in Children \ {child} :
          /\ proc[c] = "absent"
          /\ child' = c /\ Wait("waiting", NoProc)
          /\ checker' = [active |-> FALSE, health |-> "unknown",
                         failures |-> IF checker.active THEN checker.failures ELSE 0]
          /\ termed' = termed \ {c} /\ killed' = (killed \ {c}) \cup gone
          /\ pid' = NoProc /\ state' = "error" /\ UNCHANGED proc
    \/ /\ state' = "error" /\ Unwatch /\ Done
       /\ killed' = killed \cup gone /\ UNCHANGED <<child, pid, proc, termed>>

(* decidePreSpawn when the port is free, when it is held, and when an      *)
(* instance that answers may be adopted.                                   *)
ProbeFree ==
    /\ pc = "probing" /\ Listening = {}
    /\ Spawn({})
    /\ UNCHANGED <<adopted, polls>>
    /\ overtaken' = (overtaken \/ state = "error")

ProbeHeld ==
    /\ pc = "probing" /\ Listening # {} /\ state' = "error"
    /\ Done
    /\ UNCHANGED <<handle, checker, polls, os, overtaken>>

ProbeHealthy ==
    /\ pc = "probing" /\ Serving # {} /\ Adopts
    /\ Wait("resolving", NoProc)
    /\ UNCHANGED <<state, handle, checker, polls, os, overtaken>>

(* resolvePortPid, a child process of its own, finds the listener, or not. *)
Resolve ==
    /\ pc = "resolving"
    /\ \E p \in Listening \cup {NoProc} : Wait("resolved", p)
    /\ UNCHANGED <<state, handle, checker, polls, os, overtaken>>

(* The pid it found, of a process that may be gone by now, is adopted.     *)
Adopt ==
    /\ pc = "resolved"
    /\ Watch /\ state' = "running" /\ adopted' = TRUE /\ pid' = target
    /\ Done
    /\ UNCHANGED <<child, polls, os, overtaken>>

(* autoRestartAdopted: it is sent SIGTERM instead.                         *)
Replace ==
    /\ pc = "resolved" /\ target # NoProc
    /\ Wait("killing", target)
    /\ UNCHANGED <<state, handle, checker, polls, os, overtaken>>

(* killAdoptedPid ends, with SIGKILL when the process is still there.      *)
Replaced ==
    /\ pc = "killing"
    /\ Spawn(IF proc[target] = "absent" THEN {} ELSE {target})
    /\ UNCHANGED <<adopted, polls>>
    /\ overtaken' = (overtaken \/ state = "error")

(* waitForHealthy: healthy, given up (start resolves or throws), or not    *)
(* healthy in time, which counts as running.                               *)
StartEnds ==
    /\ pc = "waiting"
    /\ state' = IF state = "error" THEN "error" ELSE "running"
    /\ Done
    /\ UNCHANGED <<handle, checker, polls, os, overtaken>>
-----------------------------------------------------------------------------
(* Mutant of Stopped: the state is left at "stopping".                     *)
StoppedSilently == state' = "stopping" /\ child' = NoProc /\ pid' = NoProc /\ adopted' = FALSE /\ Done

(* The end of stop.                                                        *)
Stopped == state' = "stopped" /\ child' = NoProc /\ pid' = NoProc /\ adopted' = FALSE /\ Done

Over == state \in {"stopped", "stopping"}

(* killChild sends SIGTERM, unless there is no child (an adopted process   *)
(* is left alone) or it was sent one.                                      *)
StopBegins ==
    /\ Turn("stop")
    /\ \/ Over /\ Done /\ UNCHANGED <<state, handle, checker, termed>>
       \/ ~Over /\ Unwatch /\ child \in termed \cup {NoProc} /\ Stopped /\ UNCHANGED termed
       \/ /\ ~Over /\ Unwatch /\ child \notin termed \cup {NoProc}
          /\ state' = "stopping" /\ Wait("stopping", child)
          /\ termed' = IF proc[child] # "absent" THEN termed \cup {child} ELSE termed
          /\ UNCHANGED handle
    /\ UNCHANGED <<polls, proc, killed, overtaken>>

(* Mutant of StopTimeout: SIGKILL is sent and the exit event waited for.   *)
StopTimeoutUnresolved ==
    /\ pc = "stopping"
    /\ killed' = killed \cup {target}
    /\ UNCHANGED <<state, handle, checker, polls, proc, termed, lock, overtaken>>

(* stopTimeoutMs: SIGKILL unless ChildProcess.killed is set.               *)
StopTimeout ==
    /\ pc = "stopping"
    /\ killed' = IF target \in termed THEN killed ELSE killed \cup {target}
    /\ Stopped
    /\ UNCHANGED <<checker, polls, proc, termed, overtaken>>

(* Mutant of ExitEvent: the state is left as it is.                        *)
ExitEventSilent(c) ==
    /\ proc[c] = "dead"
    /\ proc' = [proc EXCEPT ![c] = "absent"]
    /\ Unwatch
    /\ \/ pc = "stopping" /\ target = c /\ Stopped
       \/ ~(pc = "stopping" /\ target = c) /\ child' = NoProc /\ pid' = NoProc /\ UNCHANGED <<state, adopted, lock>>
    /\ UNCHANGED <<polls, termed, killed, overtaken>>

(* The exit event of a child, whichever: handleExit, and the end of the    *)
(* stop that waits for it.                                                 *)
ExitEvent(c) ==
    /\ proc[c] = "dead"
    /\ proc' = [proc EXCEPT ![c] = "absent"]
    /\ Unwatch
    /\ \/ pc = "stopping" /\ target = c /\ Stopped
       \/ /\ ~(pc = "stopping" /\ target = c)
          /\ child' = NoProc /\ pid' = NoProc
          /\ state' = IF Over THEN state ELSE "error"
          /\ UNCHANGED <<adopted, lock>>
    /\ UNCHANGED <<polls, termed, killed, overtaken>>

-----------------------------------------------------------------------------
(* The processes: one can listen at a time, health comes and goes, and any *)
(* of them may exit.                                                       *)
Listens(p) ==
    /\ \/ proc[p] \in {"up", "sick"} /\ Listening \subseteq {p} /\ proc' = [proc EXCEPT ![p] = "serving"]
       \/ proc[p] = "serving" /\ proc' = [proc EXCEPT ![p] = "sick"]
    /\ UNCHANGED <<state, handle, checker, polls, termed, killed, lock, overtaken>>

Exits(p) ==
    /\ p \in Alive
    /\ proc' = [proc EXCEPT ![p] = IF p = Foreign THEN "absent" ELSE "dead"]
    /\ killed' = killed \ {p}
    /\ UNCHANGED <<state, handle, checker, polls, termed, lock, overtaken>>

Next ==
    \/ PollSent \/ PollOk \/ PollBad
    \/ \E o \in {"start", "stop"} : Call(o)
    \/ StartBegins \/ ProbeFree \/ ProbeHeld \/ ProbeHealthy
    \/ Resolve \/ Adopt \/ Replace \/ Replaced \/ StartEnds
    \/ StopBegins \/ StopTimeout
    \/ \E c \in Children : ExitEvent(c)
    \/ \E p \in Procs : Listens(p) \/ Exits(p)

Spec == Init /\ [][Next]_vars

Operation == StartBegins \/ ProbeFree \/ ProbeHeld \/ ProbeHealthy \/ Resolve \/ Adopt \/ Replace \/ Replaced
             \/ StartEnds \/ StopBegins \/ StopTimeout

(* Timers fire, probes and polls are answered or time out, and the event   *)
(* loop delivers exits.  Nothing is assumed of the processes.              *)
FairSpec ==
    /\ Spec
    /\ WF_vars(Operation) /\ WF_vars(PollSent) /\ WF_vars(PollOk) /\ WF_vars(PollBad)
    /\ \A c \in Children : WF_vars(ExitEvent(c))

-----------------------------------------------------------------------------
(* The status is honest: a service that is reported as running is polled,  *)
(* and is an adopted process or a child whose pid is reported and whose    *)
(* exit was not handled.  Exits and failed polls come from any process in  *)
(* any phase.  (The pid of an adopted process was looked up before it was  *)
(* adopted, and nothing is promised of it.)                                *)
StatusIsHonest ==
    state = "running" =>
        /\ checker.active
        /\ adopted \/ (child # NoProc /\ pid = child /\ proc[child] # "absent")

(* ... and when nothing listens on its port any more it stops being        *)
(* reported as running, unless something listens again.  (Not after the    *)
(* exit event of an earlier child, or its last poll, set a start to error  *)
(* before it spawned: the poller is then left active and `unhealthy', and  *)
(* the next start finds no change of health to act upon, for ever.)        *)
DeadIsNoticed == (state = "running" /\ Listening = {} /\ ~overtaken)
                     ~> (state # "running" \/ Listening # {} \/ overtaken)

(* Every start and stop ends, whatever the processes do.                   *)
OperationsEnd == pc # "free" ~> pc = "free"

(* docs/frameworks/EMBEDDED-SERVICES.md:281, "Sends SIGTERM, waits 15 s,   *)
(* then SIGKILL if still alive": once a stop is over, a child that is      *)
(* alive was sent SIGKILL.                                                 *)
StopKills == state = "stopped" => Alive \cap Children \subseteq killed
=============================================================================
