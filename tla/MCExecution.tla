----------------------------- MODULE MCExecution -----------------------------
(* Requests that fail over and retry, and the refresh of a credential, each   *)
(* part on an instance of its own: a behaviour is one of MixedExecute or of   *)
(* AuthRefresh, as part says.                                                 *)
EXTENDS AuthRefresh, MixedExecute, TLC

CONSTANTS a1, a2

VARIABLE part

MCSessionOf == [r \in Requests |-> CHOOSE s \in Sessions : TRUE]
MCRetries == [a \in Auths |-> 1]
MCPriority == (a1 :> 0) @@ (a2 :> 1)

\* The cooldown of a failure is one unit longer than MaxWait, so that a request
\* waits for it only when a unit has gone by; a rejected request leaves none.
MCCoolOf == [c \in Codes |-> MaxWait + 1]

MCInit == part \in {"execute", "refresh"} /\ Init /\ ExecuteInit

MCNext ==
    /\ UNCHANGED part
    /\ \/ part = "execute" /\ ExecuteNext /\ UNCHANGED vars
       \/ part = "refresh" /\ Next /\ UNCHANGED executeVars

\* The fairness of each part.
MCFairness ==
    /\ WF_executeVars(part = "execute" /\ GoesOn)
    /\ WF_vars(part = "refresh" /\ Working)
    /\ WF_vars(part = "refresh" /\ Writing)
    /\ WF_vars(part = "refresh" /\ Tick)

MCSpec == MCInit /\ [][MCNext]_<<vars, executeVars, part>> /\ MCFairness
=============================================================================
