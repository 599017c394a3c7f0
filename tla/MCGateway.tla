----------------------------- MODULE MCGateway -----------------------------
(* Small sets of requests for the runs of the gateway.                      *)
EXTENDS Gateway, TLC

\* The session, the id and the source of every request that some run uses:
\* f Feishu messages (f1b redelivers f1), h HTTP requests that go through the
\* queue, x streaming requests, c lines typed into the CLI.
Attributes ==
  [f1 |-> <<"s1", "m1", "feishu">>, f1b |-> <<"s1", "m1", "feishu">>,
   f2 |-> <<"s1", "m2", "feishu">>, x1  |-> <<"s1", "m3", "stream">>,
   h1 |-> <<"s1", "m4", "http">>,   h2  |-> <<"s2", "m5", "http">>,
   c1 |-> <<"s1", "m6", "cli">>,    c2  |-> <<"s1", "m7", "cli">>]

MCSessionOf == [r \in Requests |-> Attributes[r][1]]
MCIdOf == [r \in Requests |-> Attributes[r][2]]
MCViaOf == [r \in Requests |-> Attributes[r][3]]
MCIds == {Attributes[r][2] : r \in Requests}
MCSessions == {Attributes[r][1] : r \in Requests}
=============================================================================
