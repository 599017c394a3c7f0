------------------------------- MODULE MCAgent -------------------------------
(* Two turns of a session, each with up to three rounds of tool calls.       *)
EXTENDS Agent

MCRetries == [m \in Models |-> IF m = "main" THEN 1 ELSE 0]
MCCosts == [role \in Roles |-> IF role = "user" THEN 2 ELSE 1]
MCCallLists == {<<>>, <<"tool">>, <<"tool", "switch">>}
=============================================================================
