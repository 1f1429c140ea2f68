-------------------------- MODULE MCLayeredRouting --------------------------
(* Instances of LayeredRouting for TLC. *)
EXTENDS LayeredRouting, TLC

CONSTANTS a1, a2, a3, p1, p2, model, preview, up1, up2

\* Two credentials of one provider and one of another, for a model and its
\* fallback.  a1 serves both with one upstream model, an alias and its target;
\* a3 refuses the fallback (strict public routing).
MCProviderOf == (a1 :> p1) @@ (a2 :> p1) @@ (a3 :> p2)
MCCandidates == <<model, preview>>
MCSupports == (model :> {a1, a2, a3}) @@ (preview :> {a1, a2, a3})
MCResolve ==
    [a \in Auths |-> [n \in Names |->
        IF n = model \/ a = a1 THEN up1 ELSE IF a = a2 THEN up2 ELSE None]]
MCContended == {<<a1, model>>, <<a3, preview>>}

\* One credential, and an alias and its target.
OneProvider == (a1 :> p1)
OneSupports == [n \in Names |-> {a1}]
OneResolve == (a1 :> [n \in Names |-> up1])
NoContention == {}
=============================================================================
