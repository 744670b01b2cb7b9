---------------------------- MODULE MCDeployment ----------------------------
(* Two calls that share the CLI helper, over four requests: production over the CLI  *)
(* and by password, a production org named in a dev request, a validation, and one   *)
(* that the agent refuses.                                                           *)
EXTENDS Deployment, TLC

CONSTANTS c1, c2

Callers2 == {c1, c2}
Callers1 == {c1}

Of(environment, target, type, strategy) ==
  [orgId |-> TRUE, artifacts |-> TRUE, environment |-> environment, target |-> target,
   isProduction |-> target = "production", type |-> type, strategy |-> strategy]

SomeRequests ==
  {Of("production", "production", "sfdx", "full_deploy"),
   Of("production", "production", "username_password", "validate_only"),
   Of("dev", "production", "jwt", "full_deploy"),
   [Of("dev", "dev", "oauth2", "full_deploy") EXCEPT !.artifacts = FALSE]}

ProductionRequests == {Of("production", "production", "sfdx", "full_deploy")}

Symmetry == Permutations(Callers2)
=============================================================================
