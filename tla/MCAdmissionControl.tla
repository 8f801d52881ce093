------------------------- MODULE MCAdmissionControl -------------------------
(* Requests of cost 1, 1, 2 and 3 of three tenants; the two small ones     *)
(* belong to one tenant.                                                   *)
EXTENDS AdmissionControl

CONSTANTS a, b, c, s1, s2, mid, big

MCTenants == {a, b, c}
MCTenant == [r \in Reqs |-> CASE r = big -> c [] r = mid -> b [] OTHER -> a]
MCCost == [r \in Reqs |-> CASE r = big -> 3 [] r = mid -> 2 [] OTHER -> 1]
=============================================================================
