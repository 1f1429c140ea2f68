--------------------------- MODULE MCCallsStreams ---------------------------
(* The slots of calls, the way of one streamed answer and its translation to *)
(* Claude's events, each on an instance of its own: a behaviour is one of    *)
(* ProviderSlots, of StreamPath or of ToClaude, as part says, and leaves the *)
(* variables of the others alone.                                            *)
EXTENDS ProviderSlots, MCStreamPath, ToClaude, TLC

CONSTANTS a1, a2, p1
VARIABLE part

MCProviderOf == (a1 :> p1) @@ (a2 :> p1)

mcVars == <<vars, streamVars, claudeVars, part>>

MCInit ==
    /\ Init /\ StreamInit /\ ClaudeInit
    /\ part \in {"slots", "stream", "claude"}
    /\ part # "stream" => setup = <<IFlowLoop, FALSE>>
    /\ part # "claude" => translator = "codex"

\* A stream and its translation may come to their end; a call may not.
MCNext ==
    \/ part = "slots" /\ Next /\ UNCHANGED <<streamVars, claudeVars, part>>
    \/ part = "stream" /\ StreamNext /\ UNCHANGED <<vars, claudeVars, part>>
    \/ part = "claude" /\ ClaudeNext /\ UNCHANGED <<vars, streamVars, part>>
    \/ part \in {"stream", "claude"} /\ UNCHANGED mcVars

\* The fairness of calls and streams, each in its part.
MCSpec ==
    /\ MCInit /\ [][MCNext]_mcVars
    /\ \A r \in Requests :
          /\ WF_vars(part = "slots" /\ Advance(r))
          /\ SF_vars(part = "slots" /\ Acquire(r))
    /\ WF_streamVars(part = "stream" /\ Running)

=============================================================================
