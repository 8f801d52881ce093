---------------------- MODULE ServiceSupervisorProofs -----------------------
(* Proofs, for any number of processes, polls in flight and operations in  *)
(* the lock's queue, of the safety properties of ServiceSupervisor.        *)
EXTENDS ServiceSupervisor, SequenceTheorems, FiniteSetTheorems, TLAPS

States == {"stopped", "starting", "running", "stopping", "error"}
Phases == {"absent", "up", "sick", "serving", "dead"}
Steps == {"free", "probing", "resolving", "resolved", "killing", "waiting", "stopping"}
Checkers == [active : BOOLEAN, failures : 0..Threshold, health : {"unknown", "healthy", "unhealthy"}]

(* TypeOK with the fields apart, and the count of polls as a sum.          *)
Typed ==
    /\ state \in States
    /\ child \in Children \cup {NoProc} /\ pid \in Procs \cup {NoProc} /\ adopted \in BOOLEAN
    /\ checker \in Checkers
    /\ polls \in [{"ok", "bad"} -> Nat] /\ polls["ok"] + polls["bad"] <= MaxPolls
    /\ proc \in [Procs -> Phases]
    /\ termed \subseteq Children /\ killed \subseteq Procs
    /\ ops \in Seq({"start", "stop"}) /\ Len(ops) <= MaxOps
    /\ pc \in Steps
    /\ target \in Procs \cup {NoProc}
    /\ overtaken \in BOOLEAN

(* At most one process listens on the port.                                *)
OnePort == \A p, q \in Listening : p = q

(* The lock: the operation at the head of the queue waits for a process in *)
(* two places, a stop only for the child it has signalled, and in between  *)
(* its steps there is an operation.                                        *)
Locked ==
    /\ pc \in {"killing", "stopping"} => target # NoProc
    /\ pc # "free" => ops # << >>
    /\ pc = "stopping" => target \in Children

(* What a running state rests on: the poller that the spawn or the         *)
(* adoption started, and a child that the exit event has not taken away.   *)
(* While a start waits for health in a state that is not error, all of     *)
(* that is already there.                                                  *)
ChildKnown == child # NoProc /\ pid = child /\ proc[child] # "absent"
Backed ==
    /\ state = "running" \/ (pc = "waiting" /\ state # "error") => checker.active /\ (adopted \/ ChildKnown)
    /\ pc = "waiting" => state \in {"starting", "error"}
    /\ pc \in {"probing", "resolving", "resolved", "killing"} => state \in {"starting", "error"} /\ ~adopted
    /\ state = "starting" => pc \in {"probing", "resolving", "resolved", "killing", "waiting"}
    /\ state = "stopping" <=> pc = "stopping"

(* The inductive invariant.                                                *)
IInv == Typed /\ OnePort /\ Locked /\ Backed

-----------------------------------------------------------------------------
(* The records of the health checker.                                      *)
LEMMA CheckerFields ==
    ASSUME NEW c \in Checkers
    PROVE  /\ c.active \in BOOLEAN /\ c.failures \in 0..Threshold
           /\ c.health \in {"unknown", "healthy", "unhealthy"}
  BY DEF Checkers

(* A poll's answer changes the count and the health and leaves the poller  *)
(* active.                                                                 *)
LEMMA CheckerUpdate ==
    ASSUME NEW c \in Checkers, NEW n \in 0..Threshold, NEW h \in {"unknown", "healthy", "unhealthy"}
    PROVE  /\ [c EXCEPT !.failures = n, !.health = h] \in Checkers
           /\ c.active => [c EXCEPT !.failures = n, !.health = h].active
<1>1. [c EXCEPT !.failures = n, !.health = h] \in Checkers
  BY DEF Checkers
<1>2. c.active => [c EXCEPT !.failures = n, !.health = h].active
  BY DEF Checkers
<1> QED
  BY <1>1, <1>2

(* HealthChecker.start and stop leave a checker; start leaves it active.   *)
LEMMA WatchType ==
    ASSUME checker \in Checkers
    PROVE  /\ Watch => checker' \in Checkers /\ checker'.active
           /\ Unwatch => checker' \in Checkers
<1>1. 0 \in 0..Threshold
  BY SupervisorAssumption
<1>2. ASSUME Watch PROVE checker' \in Checkers /\ checker'.active
  <2>1. [active |-> TRUE, failures |-> 0, health |-> "unknown"] \in Checkers
    BY <1>1 DEF Checkers
  <2> QED
    BY <1>2, <2>1 DEF Watch
<1>3. ASSUME Unwatch PROVE checker' \in Checkers
  BY <1>3 DEF Unwatch, Checkers
<1> QED
  BY <1>2, <1>3

(* The operation that holds the lock gives it up.                          *)
LEMMA DoneType ==
    ASSUME Typed, Done, ops # << >>
    PROVE  ops' \in Seq({"start", "stop"}) /\ Len(ops') <= MaxOps /\ pc' = "free" /\ target' = NoProc
<1>0. ops \in Seq({"start", "stop"}) /\ Len(ops) <= MaxOps /\ Len(ops) \in Nat /\ MaxOps \in Nat
  BY LenProperties, SupervisorAssumption DEF Typed
<1>1. Tail(ops) \in Seq({"start", "stop"}) /\ Len(Tail(ops)) = Len(ops) - 1
  BY <1>0, HeadTailProperties
<1> QED
  BY <1>0, <1>1 DEF Done

(* An operation is queued.                                                 *)
LEMMA CallIInv ==
    ASSUME IInv, NEW o \in {"start", "stop"}, Call(o)
    PROVE  IInv'
<1>0. ops \in Seq({"start", "stop"}) /\ Len(ops) <= MaxOps /\ Len(ops) \in Nat /\ MaxOps \in Nat
  BY LenProperties, SupervisorAssumption DEF IInv, Typed
<1>1. ops' \in Seq({"start", "stop"}) /\ Len(ops') = Len(ops) + 1 /\ Len(ops') <= MaxOps
  BY <1>0, AppendProperties DEF Call
<1>2. ops' # << >>
  BY <1>0, <1>1, EmptySeq
<1> QED
  BY <1>1, <1>2 DEF IInv, Typed, OnePort, Locked, Backed, ChildKnown, Listening, Call, handle, os

(* The polls: sent, answered, failed.                                      *)
LEMMA PollIInv ==
    ASSUME IInv, PollSent \/ PollOk \/ PollBad
    PROVE  IInv'
<1>0. /\ checker.active \in BOOLEAN /\ checker.failures \in 0..Threshold
      /\ checker.health \in {"unknown", "healthy", "unhealthy"}
      /\ Threshold \in Nat \ {0} /\ MaxPolls \in Nat
      /\ polls \in [{"ok", "bad"} -> Nat] /\ polls["ok"] + polls["bad"] <= MaxPolls
  BY SupervisorAssumption, CheckerFields DEF IInv, Typed
<1>1. CASE PollSent
  <2>1. polls' \in [{"ok", "bad"} -> Nat] /\ polls'["ok"] + polls'["bad"] <= MaxPolls
    BY <1>0, <1>1 DEF PollSent
  <2> QED
    BY <1>1, <2>1 DEF IInv, Typed, OnePort, Locked, Backed, ChildKnown, Listening, PollSent, handle, os, lock
<1>2. CASE PollOk
  <2>1. polls' \in [{"ok", "bad"} -> Nat] /\ polls'["ok"] + polls'["bad"] <= MaxPolls
    BY <1>0, <1>2 DEF PollOk
  <2>2. checker' \in Checkers /\ (checker.active => checker'.active)
    <3>1. checker \in Checkers /\ 0 \in 0..Threshold /\ checker' = [checker EXCEPT !.failures = 0, !.health = "healthy"]
      BY <1>0, <1>2 DEF PollOk, IInv, Typed
    <3> QED
      BY <3>1, CheckerUpdate
  <2> QED
    BY <1>2, <2>1, <2>2 DEF IInv, Typed, OnePort, Locked, Backed, ChildKnown, Listening, PollOk, handle, os, lock
<1>3. CASE PollBad
  <2>1. polls' \in [{"ok", "bad"} -> Nat] /\ polls'["ok"] + polls'["bad"] <= MaxPolls
    BY <1>0, <1>3 DEF PollBad
  <2>2. /\ checker' \in Checkers
        /\ state' = "error" \/ (state' = state /\ (checker.active => checker'.active))
    <3> DEFINE n == IF checker.failures < Threshold THEN checker.failures + 1 ELSE Threshold
               h == IF n = Threshold THEN "unhealthy" ELSE checker.health
    <3>1. n \in 0..Threshold /\ h \in {"unknown", "healthy", "unhealthy"}
      BY <1>0
    <3>2. \/ state' = "error" /\ checker' = [active |-> FALSE, failures |-> n, health |-> "unknown"]
          \/ state' = state /\ checker' = [checker EXCEPT !.failures = n, !.health = h]
      <4>1. CASE n = Threshold
        BY <1>3, <4>1 DEF PollBad
      <4>2. CASE n # Threshold
        BY <1>3, <4>2 DEF PollBad
      <4> QED
        BY <4>1, <4>2
    <3> HIDE DEF n, h
    <3>3. [active |-> FALSE, failures |-> n, health |-> "unknown"] \in Checkers
      BY <3>1 DEF Checkers
    <3>4. /\ [checker EXCEPT !.failures = n, !.health = h] \in Checkers
          /\ checker.active => [checker EXCEPT !.failures = n, !.health = h].active
      BY <3>1, CheckerUpdate DEF IInv, Typed
    <3> QED
      BY <3>2, <3>3, <3>4
  <2>3. state' = "error" \/ state' = state
    BY <2>2
  <2> QED
    BY <1>3, <2>1, <2>2, <2>3 DEF IInv, Typed, States, OnePort, Locked, Backed, ChildKnown, Listening, PollBad, handle, os, lock
<1> QED
  BY <1>1, <1>2, <1>3

(* A start begins, and ends.                                               *)
LEMMA StartIInv ==
    ASSUME IInv, StartBegins \/ StartEnds
    PROVE  IInv'
<1>1. CASE StartBegins
  <2>1. CASE Done /\ UNCHANGED <<state, adopted>>
    <3>1. ops # << >>
      BY <1>1 DEF StartBegins, Turn
    <3> QED
      BY <1>1, <2>1, <3>1, DoneType DEF StartBegins, IInv, Typed, Steps, OnePort, Locked, Backed, ChildKnown, Listening, os, Turn
  <2>2. CASE state' = "starting" /\ adopted' = FALSE /\ Wait("probing", NoProc)
    BY <1>1, <2>2 DEF StartBegins, Wait, IInv, Typed, States, Steps, OnePort, Locked, Backed, ChildKnown, Listening, os, Turn
  <2> QED
    BY <1>1, <2>1, <2>2 DEF StartBegins
<1>2. CASE StartEnds
  <2>1. ops # << >>
    BY <1>2 DEF StartEnds, IInv, Locked
  <2> QED
    BY <1>2, <2>1, DoneType DEF StartEnds, IInv, Typed, States, Steps, OnePort, Locked, Backed, ChildKnown, Listening, handle, os
<1> QED
  BY <1>1, <1>2

(* spawn, in the three ways it can end, from a start that has not spawned  *)
(* and has adopted nothing.                                                *)
LEMMA SpawnIInv ==
    ASSUME IInv, NEW gone \in SUBSET Procs, Spawn(gone), pc \in {"probing", "killing"},
           UNCHANGED <<adopted, polls>>, overtaken' \in BOOLEAN
    PROVE  IInv'
<1>0. /\ ops # << >> /\ checker \in Checkers /\ checker.failures \in 0..Threshold /\ 0 \in 0..Threshold
      /\ state \in {"starting", "error"} /\ Children \subseteq Procs /\ NoProc \notin Children
  BY SupervisorAssumption, CheckerFields DEF IInv, Typed, Locked, Backed, Procs
<1>1. ASSUME NEW c \in Children \ {child}, proc[c] = "absent", child' = c, Watch, Wait("waiting", NoProc),
             termed' = termed \ {c}, killed' = (killed \ {c}) \cup gone,
             proc' = [proc EXCEPT ![c] = "up"], pid' = c, UNCHANGED state
      PROVE  IInv'
  <2>1. checker' \in Checkers /\ checker'.active
    BY <1>0, <1>1, WatchType
  <2>2. Typed'
    BY <1>0, <1>1, <2>1 DEF IInv, Typed, Steps, Phases, Wait
  <2>3. OnePort'
    BY <1>0, <1>1 DEF IInv, Typed, OnePort, Listening
  <2>4. Locked' /\ Backed'
    BY <1>0, <1>1, <2>1 DEF IInv, Typed, Locked, Backed, ChildKnown, Wait
  <2> QED
    BY <2>2, <2>3, <2>4 DEF IInv
<1>2. ASSUME NEW c \in Children \ {child}, child' = c, Wait("waiting", NoProc),
             checker' = [active |-> FALSE, health |-> "unknown",
                         failures |-> IF checker.active THEN checker.failures ELSE 0],
             termed' = termed \ {c}, killed' = (killed \ {c}) \cup gone,
             pid' = NoProc, state' = "error", UNCHANGED proc
      PROVE  IInv'
  <2>1. checker' \in Checkers
    BY <1>0, <1>2 DEF Checkers
  <2> QED
    BY <1>0, <1>2, <2>1 DEF IInv, Typed, States, Steps, OnePort, Listening, Locked, Backed, ChildKnown, Wait
<1>3. ASSUME state' = "error", Unwatch, Done, killed' = killed \cup gone, UNCHANGED <<child, pid, proc, termed>>
      PROVE  IInv'
  <2>1. checker' \in Checkers
    BY <1>0, <1>3, WatchType
  <2>2. ops' \in Seq({"start", "stop"}) /\ Len(ops') <= MaxOps /\ pc' = "free" /\ target' = NoProc
    BY <1>0, <1>3, DoneType DEF IInv
  <2> QED
    BY <1>0, <1>3, <2>1, <2>2 DEF IInv, Typed, States, Steps, OnePort, Listening, Locked, Backed, ChildKnown
<1> QED
  BY <1>1, <1>2, <1>3 DEF Spawn

(* The probe of the port and what follows from it.                         *)
LEMMA ProbeIInv ==
    ASSUME IInv, ProbeFree \/ ProbeHeld \/ ProbeHealthy \/ Resolve \/ Adopt \/ Replace \/ Replaced
    PROVE  IInv'
<1>0. /\ pc # "free" => ops # << >>
      /\ pc \in {"probing", "resolving", "resolved", "killing"} => state \in {"starting", "error"} /\ ~adopted
      /\ overtaken \in BOOLEAN /\ checker \in Checkers /\ Listening \subseteq Procs /\ target \in Procs \cup {NoProc}
      /\ NoProc \notin Procs
  BY SupervisorAssumption DEF IInv, Typed, Locked, Backed, Listening
<1>1. CASE ProbeFree
  BY <1>0, <1>1, SpawnIInv DEF ProbeFree
<1>2. CASE ProbeHeld
  <2>1. ops' \in Seq({"start", "stop"}) /\ Len(ops') <= MaxOps /\ pc' = "free" /\ target' = NoProc
    BY <1>0, <1>2, DoneType DEF ProbeHeld, IInv
  <2> QED
    BY <1>0, <1>2, <2>1 DEF ProbeHeld, IInv, Typed, States, Steps, OnePort, Listening, Locked, Backed, ChildKnown, handle, os
<1>3. CASE ProbeHealthy
  BY <1>0, <1>3 DEF ProbeHealthy, Wait, IInv, Typed, States, Steps, OnePort, Listening, Locked, Backed, ChildKnown, handle, os
<1>4. CASE Adopt
  <2>1. ops' \in Seq({"start", "stop"}) /\ Len(ops') <= MaxOps /\ pc' = "free" /\ target' = NoProc
    BY <1>0, <1>4, DoneType DEF Adopt, IInv
  <2>2. checker' \in Checkers /\ checker'.active
    BY <1>0, <1>4, WatchType DEF Adopt
  <2> QED
    BY <1>0, <1>4, <2>1, <2>2 DEF Adopt, IInv, Typed, States, Steps, OnePort, Listening, Locked, Backed, ChildKnown, os
<1>5. CASE Replace
  BY <1>0, <1>5 DEF Replace, Wait, IInv, Typed, States, Steps, OnePort, Listening, Locked, Backed, ChildKnown, handle, os
<1>6. CASE Replaced
  <2>1. target \in Procs
    BY <1>0, <1>6 DEF Replaced, IInv, Locked
  <2>2. (IF proc[target] = "absent" THEN {} ELSE {target}) \in SUBSET Procs
    BY <2>1
  <2>3. Spawn(IF proc[target] = "absent" THEN {} ELSE {target}) /\ pc = "killing"
        /\ UNCHANGED <<adopted, polls>> /\ overtaken' \in BOOLEAN
    BY <1>6, <1>0 DEF Replaced
  <2> QED
    BY <2>2, <2>3, SpawnIInv
<1>7. CASE Resolve
  <2>1. PICK p \in Procs \cup {NoProc} : Wait("resolved", p)
    BY <1>0, <1>7 DEF Resolve
  <2> QED
    BY <1>0, <1>7, <2>1 DEF Resolve, Wait, IInv, Typed, States, Steps, OnePort, Listening, Locked, Backed, ChildKnown, handle, os
<1> QED
  BY <1>1, <1>2, <1>3, <1>4, <1>5, <1>6, <1>7

(* A stop begins and ends, at its timeout or with the exit event.          *)
LEMMA StopIInv ==
    ASSUME IInv, \/ StopBegins \/ StopTimeout
                 \/ \E c \in Children : ExitEvent(c)
    PROVE  IInv'
<1>0. /\ pc # "free" => ops # << >>
      /\ overtaken \in BOOLEAN /\ checker \in Checkers /\ Children \subseteq Procs
      /\ NoProc \notin Procs /\ child \in Children \cup {NoProc} /\ target \in Procs \cup {NoProc}
  BY SupervisorAssumption DEF IInv, Typed, Locked, Procs
<1>1. ASSUME Stopped, ops # << >>
      PROVE  /\ ops' \in Seq({"start", "stop"}) /\ Len(ops') <= MaxOps /\ pc' = "free" /\ target' = NoProc
             /\ state' = "stopped" /\ child' = NoProc /\ pid' = NoProc /\ adopted' = FALSE
  BY <1>1, DoneType DEF Stopped, IInv
<1>2. CASE StopBegins
  <2>0. ops # << >>
    BY <1>2 DEF StopBegins, Turn
  <2>1. CASE Over /\ Done /\ UNCHANGED <<state, handle, checker, termed>>
    BY <1>2, <2>0, <2>1, DoneType DEF StopBegins, handle, IInv, Typed, Steps, OnePort, Listening, Locked, Backed, ChildKnown, Turn, Over
  <2>2. CASE ~Over /\ Unwatch /\ Stopped /\ UNCHANGED termed
    <3>1. checker' \in Checkers
      BY <1>0, <2>2, WatchType
    <3> QED
      BY <1>0, <1>1, <1>2, <2>0, <2>2, <3>1 DEF StopBegins, IInv, Typed, States, Steps, OnePort, Listening, Locked, Backed, ChildKnown
  <2>3. CASE /\ ~Over /\ Unwatch /\ child \notin termed \cup {NoProc}
             /\ state' = "stopping" /\ Wait("stopping", child)
             /\ termed' = (IF proc[child] # "absent" THEN termed \cup {child} ELSE termed)
             /\ UNCHANGED handle
    <3>1. checker' \in Checkers
      BY <1>0, <2>3, WatchType
    <3>2. child \in Children /\ termed' \subseteq Children
      BY <1>0, <2>3 DEF IInv, Typed
    <3> QED
      BY <1>0, <1>2, <2>0, <2>3, <3>1, <3>2 DEF StopBegins, Wait, handle, IInv, Typed, States, Steps, OnePort, Listening, Locked, Backed, ChildKnown
  <2> QED
    BY <1>2, <2>1, <2>2, <2>3 DEF StopBegins
<1>3. CASE StopTimeout
  <2>1. ops # << >> /\ target \in Procs
    BY <1>0, <1>3 DEF StopTimeout, IInv, Locked
  <2> QED
    BY <1>0, <1>1, <1>3, <2>1 DEF StopTimeout, IInv, Typed, States, Steps, OnePort, Listening, Locked, Backed, ChildKnown
<1>4. ASSUME NEW c \in Children, ExitEvent(c) PROVE IInv'
  <2>1. checker' \in Checkers
    BY <1>0, <1>4, WatchType DEF ExitEvent
  <2>2. proc' \in [Procs -> Phases] /\ OnePort'
    BY <1>0, <1>4 DEF ExitEvent, IInv, Typed, Phases, OnePort, Listening
  <2>3. pid' = NoProc
    BY <1>4 DEF ExitEvent, Stopped
  <2>4. CASE pc = "stopping" /\ target = c /\ Stopped
    BY <1>0, <1>1, <1>4, <2>1, <2>2, <2>4 DEF ExitEvent, IInv, Typed, States, Steps, Locked, Backed, ChildKnown
  <2>5. CASE child' = NoProc /\ state' = (IF Over THEN state ELSE "error") /\ UNCHANGED <<adopted, lock>>
    BY <1>0, <1>4, <2>1, <2>2, <2>3, <2>5 DEF ExitEvent, lock, Over, IInv, Typed, States, Locked, Backed, ChildKnown
  <2> QED
    BY <1>4, <2>4, <2>5 DEF ExitEvent
<1> QED
  BY <1>2, <1>3, <1>4

(* The processes listen, fail and exit.                                    *)
LEMMA ProcessIInv ==
    ASSUME IInv, NEW p \in Procs, Listens(p) \/ Exits(p)
    PROVE  IInv'
<1>1. CASE Listens(p)
  <2>1. proc' \in [Procs -> Phases]
    BY <1>1 DEF Listens, IInv, Typed, Phases
  <2>2. OnePort'
    BY <1>1 DEF Listens, IInv, Typed, OnePort, Listening
  <2>3. ChildKnown => ChildKnown'
    BY <1>1 DEF Listens, IInv, Typed, ChildKnown, Procs, handle
  <2> QED
    BY <1>1, <2>1, <2>2, <2>3 DEF Listens, IInv, Typed, Locked, Backed, handle, lock
<1>2. CASE Exits(p)
  <2>1. proc' \in [Procs -> Phases] /\ killed' \subseteq Procs
    BY <1>2 DEF Exits, IInv, Typed, Phases
  <2>2. OnePort'
    BY <1>2 DEF Exits, IInv, Typed, OnePort, Listening
  <2>3. ChildKnown => ChildKnown'
    BY <1>2, SupervisorAssumption DEF Exits, IInv, Typed, ChildKnown, Procs, handle
  <2> QED
    BY <1>2, <2>1, <2>2, <2>3 DEF Exits, IInv, Typed, Locked, Backed, handle, lock
<1> QED
  BY <1>1, <1>2

-----------------------------------------------------------------------------
LEMMA NextIInv == IInv /\ [Next]_vars => IInv'
<1> SUFFICES ASSUME IInv, [Next]_vars PROVE IInv'
  OBVIOUS
<1>1. CASE UNCHANGED vars
  BY <1>1 DEF vars, IInv, Typed, OnePort, Listening, Locked, Backed, ChildKnown
<1> QED
  BY <1>1, CallIInv, PollIInv, StartIInv, ProbeIInv, StopIInv, ProcessIInv DEF Next

LEMMA InitIInv == Init => IInv
<1> SUFFICES ASSUME Init PROVE IInv
  OBVIOUS
<1>1. checker \in Checkers
  BY SupervisorAssumption DEF Init, Checkers
<1>2. ops \in Seq({"start", "stop"}) /\ Len(ops) <= MaxOps
  BY SupervisorAssumption DEF Init
<1>3. polls \in [{"ok", "bad"} -> Nat] /\ polls["ok"] + polls["bad"] <= MaxPolls
  BY SupervisorAssumption DEF Init
<1>4. proc \in [Procs -> Phases] /\ OnePort
  BY DEF Init, Phases, OnePort, Listening
<1> QED
  BY <1>1, <1>2, <1>3, <1>4, SupervisorAssumption DEF Init, IInv, Typed, States, Steps, Locked, Backed, ChildKnown, Procs

(* The inductive invariant holds in every reachable state.                 *)
THEOREM SupervisorInvariance == Spec => []IInv
  BY InitIInv, NextIInv, PTL DEF Spec

(* The supervisor's fields, its queue of operations and the processes keep *)
(* their types: at most one process listens, and the state says starting   *)
(* or stopping only while an operation that will change it is under way.   *)
THEOREM SupervisorType == Spec => []TypeOK
<1>1. IInv => TypeOK
  <2> SUFFICES ASSUME IInv PROVE TypeOK
    OBVIOUS
  <2>1. polls \in [{"ok", "bad"} -> 0..MaxPolls]
    BY SupervisorAssumption DEF IInv, Typed
  <2>2. Cardinality(Listening) <= 1
    <3>1. CASE Listening = {}
      BY <3>1, FS_EmptySet
    <3>2. CASE Listening # {}
      <4>1. PICK p : Listening = {p}
        BY <3>2 DEF IInv, OnePort
      <4>2. Cardinality({p}) = 1
        BY FS_Singleton
      <4> QED
        BY <4>1, <4>2
    <3> QED
      BY <3>1, <3>2
  <2> QED
    BY <2>1, <2>2 DEF IInv, Typed, Locked, Backed, Starting, States, Steps, Phases, Checkers, TypeOK
<1> QED
  BY SupervisorInvariance, <1>1, PTL

(* What is reported as running is polled and is an adopted process, or the *)
(* child whose pid is reported and whose exit has not been handled         *)
(* (handleExit, onChange, start, stop in any order).                       *)
THEOREM StatusStaysHonest == Spec => []StatusIsHonest
<1>1. IInv => StatusIsHonest
  BY DEF IInv, Backed, ChildKnown, StatusIsHonest
<1> QED
  BY SupervisorInvariance, <1>1, PTL
=============================================================================
