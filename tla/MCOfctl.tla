------------------------------ MODULE MCOfctl -------------------------------
(* Instances of Ofctl.                                                     *)
EXTENDS Ofctl, TLC

CONSTANTS r1, r2, d1, d2

\* The reply_cls of the requests: r2 gets replies that it does not expect; one
\* asks for barrier replies or for the features of the switch.
SecondExpectsNone == (r1 :> "stats") @@ (r2 :> None)
BarrierFirst == (r1 :> "barrier") @@ (r2 :> None)
FeaturesSecond == [r \in Reqs |-> IF r = r1 THEN None ELSE "features"]
AllStats == [r \in Reqs |-> "stats"]
BarrierThenStats == (r1 :> "barrier") @@ (r2 :> "stats")
AllFeatures == [r \in Reqs |-> "features"]

\* The xids of the connections are apart.
Apart == [d \in Conns |-> IF d = d1 THEN 1 ELSE 6]

FirstMulti == [r \in Reqs |-> r = r1]

\* Bound: where another application sends a barrier there is one connection and
\* one request.
OthersAlone == others > 0 => d2 \notin identified /\ client[r2] = "idle"
=============================================================================
