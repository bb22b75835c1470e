---------------------------- MODULE MCAdmissions ----------------------------
\* Three small components that share nothing, each checked on its own within one
\* run: "part" is the component that moves, the others stay as they start.
EXTENDS OciPacing, LoginLimiter, Provisioning, TLC

VARIABLE part

MCLimit == [ip |-> 3, tenant |-> 4, identifier |-> 2, composite |-> 1]

\* Requests are interchangeable, and so are keys.
MCSymmetry == Permutations(Requests) \cup Permutations(ProvisionKeys)

MCInit ==
  /\ part \in {"oci", "login", "provision"}
  /\ Init /\ InitLimiter /\ InitProvisioning

MCNext ==
  /\ UNCHANGED part
  /\ \/ part = "oci" /\ Next /\ UNCHANGED <<limiterVars, provisioningVars>>
     \/ part = "login" /\ NextLimiter /\ UNCHANGED <<vars, provisioningVars>>
     \/ part = "provision" /\ NextProvisioning /\ UNCHANGED <<vars, limiterVars>>

MCSpec == MCInit /\ [][MCNext]_<<part, vars, limiterVars, provisioningVars>>

\* The variables of the three components keep their types, with the bound of the
\* table of login counters, which an attempt reaches between its keys.
AdmissionsTypeOK == TypeOK /\ LimiterTypeOK /\ ProvisioningTypeOK
=============================================================================
