---------------------------- MODULE MCSseReader ----------------------------
(* Small bodies of streamed answers.                                         *)
EXTENDS SseReader

\* A body of each provider with calls in parts, and one with a wide character.
Text(wide, crlf) == [type |-> "text", wide |-> wide, crlf |-> crlf]
Line(type) == [type |-> type, wide |-> FALSE, crlf |-> FALSE]
Part(i, id, name, args) ==
  [type |-> "part", wide |-> FALSE, crlf |-> FALSE,
   index |-> i, id |-> id, name |-> name, args |-> args]
MCBodies == {
  [reader |-> "anthropic",
   lines |-> <<Text(TRUE, TRUE), Part(2, "i2", "n2", Missing), Line("noise"),
               Part(2, Missing, Missing, "{"), Part(1, "i1", "n1", Missing),
               Part(2, Missing, Missing, "}"), Text(TRUE, FALSE), Line("end"),
               Text(FALSE, FALSE)>>],
  [reader |-> "openai",
   lines |-> <<Text(FALSE, TRUE), Part(1, "i1", "n1", "{"), Line("noise"),
               Part(0, "i0", "n0", Missing), Part(1, Missing, Missing, "}"),
               Part(0, Missing, Missing, "{"), Text(FALSE, FALSE), Line("end"),
               Text(FALSE, FALSE)>>]}
MCSplit == {[reader |-> "openai", lines |-> <<Text(TRUE, TRUE), Line("end")>>]}
=============================================================================
