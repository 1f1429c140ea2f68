-------------------------- MODULE MCCredentialSync --------------------------
EXTENDS CredentialSync, FiniteSets, TLC

CONSTANT MaxBusy

\* What is under way: writers, producers and MarkResult at work, and the places
\* between file and record that something waits in.
Busy ==
    Cardinality({w \in Writers : writer[w].pc # "idle"}
                \cup {p \in Producers : producer[p].pc # "idle"}
                \cup {place \in {"result", "waiting", "pending", "queue", "removing"} :
                         CASE place = "result" -> Locked
                           [] place = "waiting" -> events # << >>
                           [] place = "pending" -> pending # None
                           [] place = "queue" -> queue # << >>
                           [] place = "removing" -> removing # None})

\* After a race a behaviour is followed as long as a deletion lasts.  What a restart
\* makes of any file is seen without a race as well.
Followed == raced => deleted

\* Bound: at most MaxBusy of these nine at once.
Bounded == Followed /\ Busy <= MaxBusy

\* What is not followed any more need not be told apart further.
View == IF Followed THEN vars ELSE <<file>>

\* Nothing tells versions apart, and every property is about states and steps.
Symmetry == Permutations(Versions)
=============================================================================
