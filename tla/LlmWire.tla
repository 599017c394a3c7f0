-------------------------------- MODULE LlmWire --------------------------------
(***************************************************************************)
(* What goes to the providers and what comes back in one piece             *)
(* (llm/openai_compat.rs, llm/anthropic.rs): the prompt of the agent in    *)
(* the form that each of the two protocols wants, and their answers as a   *)
(* response.                                                               *)
(*                                                                         *)
(* A message of a prompt is [role, text, images, calls, answers]: its text *)
(* ("" if empty), its images, the calls of an assistant (NoCalls or a      *)
(* sequence) and the call that a tool's message answers.                   *)
(***************************************************************************)
EXTENDS Naturals, Sequences, FiniteSets, SequencesExt

NoCalls == <<"no calls">>

Has(msg) == msg.calls # NoCalls /\ msg.calls # <<>>

TextPart(text) == IF text = "" THEN <<>> ELSE <<[type |-> "text", value |-> text]>>

ImageParts(images) == [i \in DOMAIN images |-> [type |-> "image", value |-> images[i]]]

-----------------------------------------------------------------------------
(* OpenAI: one message for each, content, calls and tool_call_id apart.     *)

\* to_oai_message; a content that is absent is <<>>.
ToOai(msg) ==
  [role    |-> msg.role,
   content |-> CASE msg.role = "user" /\ msg.images # <<>> ->
                      ImageParts(msg.images) \o TextPart(msg.text)
                 [] msg.role = "assistant" -> TextPart(msg.text)
                 [] OTHER -> <<[type |-> "text", value |-> msg.text]>>,
   calls   |-> IF msg.role = "assistant" THEN msg.calls ELSE NoCalls,
   answers |-> IF msg.role = "tool" THEN msg.answers ELSE ""]

OaiRequest(prompt) == [i \in DOMAIN prompt |-> ToOai(prompt[i])]

-----------------------------------------------------------------------------
(* Anthropic: the system's text is a field of its own, tool results are     *)
(* messages of the user, and everything is a block.                         *)

CallBlocks(calls) == [i \in DOMAIN calls |-> [type |-> "tool_use", value |-> calls[i]]]

\* to_ant_message; a content that is a plain string is one block of text.
ToAnt(msg) ==
  CASE msg.role = "user" /\ msg.images # <<>> ->
         [role |-> "user", blocks |-> ImageParts(msg.images) \o TextPart(msg.text)]
    [] msg.role = "assistant" /\ Has(msg) ->
         [role |-> "assistant", blocks |-> TextPart(msg.text) \o CallBlocks(msg.calls)]
    [] msg.role = "assistant" /\ ~Has(msg) ->
         [role |-> "assistant", blocks |-> <<[type |-> "text", value |-> msg.text]>>]
    [] msg.role = "tool" ->
         [role |-> "user",
          blocks |-> <<[type |-> "tool_result", value |-> msg.answers, text |-> msg.text]>>]
    [] OTHER -> [role |-> "user", blocks |-> <<[type |-> "text", value |-> msg.text]>>]

\* build_request_body; a request must have a message.
AntRequest(prompt) ==
  LET said == SelectSeq(prompt, LAMBDA m : m.role # "system")
      system == SelectSeq(prompt, LAMBDA m : m.role = "system")
  IN  [system   |-> [i \in DOMAIN system |-> system[i].text],
       messages |-> IF said = <<>>
                      THEN <<[role |-> "user",
                              blocks |-> <<[type |-> "text", value |-> "placeholder"]>>]>>
                      ELSE [i \in DOMAIN said |-> ToAnt(said[i])]]

-----------------------------------------------------------------------------
(* Answers in one piece.                                                    *)

\* parse_oai_response: the first choice; arguments that do not parse are null.
ParseOai(choices) ==
  IF choices = <<>> THEN [ok |-> FALSE]
  ELSE [ok |-> TRUE, text |-> choices[1].content,
        calls |-> [i \in DOMAIN choices[1].calls |->
                     LET c == choices[1].calls[i]
                     IN  [c EXCEPT !.args = IF c.args = "malformed" THEN "null" ELSE @]]]

\* parse_ant_response: the blocks of text joined, the calls in their order.
ParseAnt(blocks) ==
  [ok |-> TRUE,
   text |-> SelectSeq(blocks, LAMBDA b : b.type = "text"),
   calls |-> SelectSeq(blocks, LAMBDA b : b.type = "tool_use")]

-----------------------------------------------------------------------------
\* What a prompt says, message by message, apart from the system's.
Said(prompt) ==
  LET said == SelectSeq(prompt, LAMBDA m : m.role # "system")
  IN  [i \in DOMAIN said |->
         [text |-> said[i].text,
          images |-> IF said[i].role = "user" THEN said[i].images ELSE <<>>,
          calls |-> IF said[i].role = "assistant" /\ Has(said[i]) THEN said[i].calls ELSE <<>>,
          answers |-> IF said[i].role = "tool" THEN said[i].answers ELSE ""]]

Values(blocks, type) ==
  LET of == SelectSeq(blocks, LAMBDA b : b.type = type)
  IN  [i \in DOMAIN of |-> of[i].value]

FirstOr(seq, default) == IF seq = <<>> THEN default ELSE seq[1]

\* What the model of each provider reads.
OaiSays(prompt) ==
  LET said == SelectSeq(OaiRequest(prompt), LAMBDA m : m.role # "system")
  IN  [i \in DOMAIN said |->
         [text |-> FirstOr(Values(said[i].content, "text"), ""),
          images |-> Values(said[i].content, "image"),
          calls |-> IF said[i].calls = NoCalls THEN <<>> ELSE said[i].calls,
          answers |-> said[i].answers]]

AntSays(prompt) ==
  LET said == AntRequest(prompt).messages
  IN  [i \in DOMAIN said |->
         LET results == SelectSeq(said[i].blocks, LAMBDA b : b.type = "tool_result")
         IN  [text |-> IF results = <<>> THEN FirstOr(Values(said[i].blocks, "text"), "")
                       ELSE results[1].text,
              images |-> Values(said[i].blocks, "image"),
              calls |-> Values(said[i].blocks, "tool_use"),
              answers |-> FirstOr(Values(said[i].blocks, "tool_result"), "")]]

\* Every result follows the assistant message that made the call, with nothing
\* but results between.
ResultsFollow(messages) ==
  \A i \in DOMAIN messages : \A id \in ToSet(Values(messages[i].blocks, "tool_result")) :
    \E j \in 1 .. i - 1 :
      /\ id \in ToSet(Values(messages[j].blocks, "tool_use"))
      /\ \A k \in j + 1 .. i : Values(messages[k].blocks, "tool_result") # <<>>

(* A switch of the model, or the fallback, may hand a prompt to the other   *)
(* provider: both are told the same messages, in the same order, with their *)
(* images, calls and results; the system's text reaches Anthropic apart;    *)
(* and in a prompt whose results follow their calls (PromptPaired) they     *)
(* still do as blocks of Anthropic (openai_compat.rs, lines 390-462;        *)
(* anthropic.rs, lines 53-98, 395-479).                                     *)
ProvidersAgree(prompt) ==
  /\ OaiSays(prompt) = Said(prompt)
  /\ Said(prompt) # <<>> => AntSays(prompt) = Said(prompt)
  /\ Len(AntRequest(prompt).system)
       = Cardinality({i \in DOMAIN prompt : prompt[i].role = "system"})
  /\ ResultsFollow(AntRequest(prompt).messages)
=============================================================================
