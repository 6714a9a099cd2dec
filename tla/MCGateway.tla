----------------------------- MODULE MCGateway -----------------------------
(* Three connections: two viewers, two pushers, or one of each. *)
EXTENDS Gateway

CONSTANTS h1, h2, h3

Connections == {h1, h2, h3}
As(a, b, c) == [h \in Connections |-> CASE h = h1 -> a [] h = h2 -> b [] h = h3 -> c]

ClientMixes == {As({"stream"}, {"stream", "get"}, {"get"}),
                As({"post"}, {"post"}, {}),
                As({"stream"}, {"post"}, {})}
=============================================================================
