----------------------------- MODULE MCEventBus -----------------------------
(***************************************************************************)
(* Instances of EventBus: who sends to whom.                               *)
(***************************************************************************)
EXTENDS EventBus

CONSTANTS a, b, c, d

\* Both clients send to a.
ClientsToA == {<<c, a>>, <<d, a>>}

\* One client sends to a, the other to b.
ClientsToBoth == {<<c, a>>, <<d, b>>}

\* b observes a.
AThenB == {<<a, b>>}

\* A client asks a, and a asks b.
AskAThenB == {<<c, a>>, <<a, b>>}

\* a and b ask each other.
AskEachOther == {<<a, b>>, <<b, a>>}

Nobody == {}
====
