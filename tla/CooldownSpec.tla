---------------------------- MODULE CooldownSpec ----------------------------
(***************************************************************************)
(* What the rest of the proxy may assume about cooldowns of one credential *)
(* (sdk/cliproxy/auth): each model is blocked until some instant, success  *)
(* unblocks it, a failure blocks it for a bounded time or not at all, and  *)
(* a block ends by itself when its time has come.  A result also concerns  *)
(* the variants of its model that have had no result of their own.         *)
(***************************************************************************)
EXTENDS Naturals

CONSTANTS Graded, Base, MaxBlock

VARIABLES
    now,   \* the clock
    until  \* until[m]: end of the block of model m, 0 if it is not blocked

Init == now = 1 /\ until = [m \in Graded |-> 0]

\* The model of a result, with some of its variants.
Concerned(m) == {{m} \cup V : V \in SUBSET {v \in Graded : Base[v] = m}}

Put(S, t) == until' = [m \in Graded |-> IF m \in S THEN t ELSE until[m]]

Succeed(S) == Put(S, 0) /\ UNCHANGED now

Fail(S) ==
    /\ \E t \in {0} \cup now + 1 .. now + MaxBlock : Put(S, t)
    /\ UNCHANGED now

\* The credential is replaced by a fresh record.
Reset == until' = [m \in Graded |-> 0] /\ UNCHANGED now

Tick ==
    /\ now' = now + 1
    /\ until' = [m \in Graded |-> IF until[m] > now' THEN until[m] ELSE 0]

Next == Reset \/ Tick \/ \E m \in Graded : \E S \in Concerned(m) : Succeed(S) \/ Fail(S)

Spec == Init /\ [][Next]_<<now, until>>
=============================================================================
