---------------------------- MODULE MCStreamPath ----------------------------
EXTENDS StreamPath

\* The loops that differ.
MCExecutors == {IFlowLoop, GeminiLoop, CodexLoop, CodexRelayLoop, ClaudeLoop,
                ClaudePassthroughLoop, ClaudeRelayLoop, CompatLoop, AIStudioLoop}
=============================================================================
