--------------------------- MODULE WeightedLimit ---------------------------
(***************************************************************************)
(* What a concurrency limiter promises to whoever it protects: the clients *)
(* that run have a weight, the limit moves, and clients are let in only as *)
(* long as everything that runs then fits the limit.  A limit that falls   *)
(* expels nobody.  A client heavier than the limit may run alone, up to    *)
(* SoloLimit.  How clients wait, in which order they enter and why the     *)
(* limit moves is left open.                                               *)
(***************************************************************************)
EXTENDS Naturals, FiniteSets

CONSTANTS Clients, Weight, Limits, SoloLimit

VARIABLES running, limit

(* The weight of the clients in S, counted in units of weight.             *)
Load(S) == Cardinality(UNION {{c} \X (1..Weight[c]) : c \in S})

Init == running = {} /\ limit \in Limits

(* One step: some clients leave, the limit may move, some clients enter.   *)
Step ==
    /\ running' \subseteq Clients
    /\ limit' \in Limits
    /\ running' \subseteq running
       \/ Load(running') <= limit'
       \/ \E c \in Clients : running' = {c} /\ Weight[c] <= SoloLimit

Spec == Init /\ [][Step]_<<running, limit>>
=============================================================================
