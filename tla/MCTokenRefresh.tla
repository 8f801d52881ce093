--------------------------- MODULE MCTokenRefresh ---------------------------
(* Model-checking instance of TokenRefresh: a caller of each kind, of      *)
(* which a configuration takes some.                                       *)
EXTENDS TokenRefresh

CONSTANTS reactive, proactive, precheck, sweep, importer

MCKind == [k \in Callers |-> CASE k = reactive -> "reactive" [] k = proactive -> "proactive"
                               [] k = precheck -> "precheck" [] k = sweep -> "sweep" [] k = importer -> "import"]
=============================================================================
