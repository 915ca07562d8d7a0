------------------------------- MODULE MCLogin ------------------------------
(* Two people, two browsers, two flows. *)
EXTENDS Login, TLC

CONSTANTS f1, f2, r1, r2, r3, b1, b2, u1, u2

\* A deployment with several tenants; a company that lets only one of the two
\* in and has no development login; the tests' deployment, in memory.
ThreeDeployments ==
  { [mode |-> "multi_tenant", memory |-> FALSE, devAuth |-> TRUE,
     devRole |-> "auditor", admitted |-> {u1, u2}, MaxDevLogins |-> 2],
    [mode |-> "single_company", memory |-> FALSE, devAuth |-> FALSE,
     devRole |-> "service_admin", admitted |-> {u2}, MaxDevLogins |-> 0],
    [mode |-> "single_company", memory |-> TRUE, devAuth |-> TRUE,
     devRole |-> "company_admin", admitted |-> {u1, u2}, MaxDevLogins |-> 1] }

Symmetry ==
  Permutations({f1, f2}) \cup Permutations(Requests) \cup Permutations({b1, b2})
=============================================================================
