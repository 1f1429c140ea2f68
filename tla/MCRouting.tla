------------------------------ MODULE MCRouting ------------------------------
(* What a request is routed by, each part on an instance of its own: an       *)
(* attempt of engine v2, the model registry, the registry's lock, and the     *)
(* cooldowns of a credential.  A behaviour is one of LayeredRouting, of       *)
(* ModelRegistry, of FirstAvailableModel or of AuthCooldown, as part says.    *)
(* Durations of cooldowns keep the order of those of the code, in units small *)
(* enough for every cooldown to run out.                                      *)
EXTENDS MCLayeredRouting, ModelRegistry, FirstAvailableModel, AuthCooldown

CONSTANTS g1, g2

VARIABLE part

\* g2 is g1 with a thinking suffix.
MCBase == (g1 :> g1) @@ (g2 :> g1)

mcVars == <<vars, registryVars, lockVars, cooldownVars, part>>

MCInit ==
    /\ part \in {"attempt", "registry", "lock", "cooldown"}
    /\ Init /\ RegistryInit /\ LockInit /\ CooldownInit
    /\ part # "attempt" => cooling = {} /\ offset = 0
    /\ part # "lock" => state = [m \in Resolvable |-> "up"]

MCNext ==
    /\ UNCHANGED part
    /\ \/ part = "attempt" /\ Next /\ UNCHANGED <<registryVars, lockVars, cooldownVars>>
       \/ part = "registry" /\ RegistryNext /\ UNCHANGED <<vars, lockVars, cooldownVars>>
       \/ part = "lock" /\ LockNext /\ UNCHANGED <<vars, registryVars, cooldownVars>>
       \/ part = "cooldown" /\ CooldownNext /\ UNCHANGED <<vars, registryVars, lockVars>>

MCSpec == MCInit /\ [][MCNext]_mcVars

\* Nothing tells the registry's clients, their providers or its workers apart;
\* every property here is about states and steps.
MCSymmetry == Permutations(Clients) \cup Permutations(Suppliers) \cup Permutations(Workers)
=============================================================================
