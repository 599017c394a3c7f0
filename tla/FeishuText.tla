------------------------------ MODULE FeishuText ------------------------------
(***************************************************************************)
(* The texts that come from Feishu and go to it                            *)
(* (channel/feishu/types.rs): an event's payload becomes an inbound        *)
(* message, and a reply is split into the cards that module FeishuApi      *)
(* sends.                                                                  *)
(*                                                                         *)
(* A reply is a sequence of characters: a newline and a narrow one take    *)
(* one byte, a wide one takes three.  An inbound text is a sequence of     *)
(* pieces, each as the payload has it.                                     *)
(***************************************************************************)
EXTENDS Naturals, Sequences, FiniteSets, SequencesExt, FiniteSetsExt

Newline == "newline"
Wide == "wide"

\* Where the i-th character of a text ends; 0 is where the first one begins.
Offset(text, i) == i + 2 * Cardinality({j \in 1 .. i : text[j] = Wide})

SizeOf(text) == Offset(text, Len(text))

Boundaries(text) == {Offset(text, i) : i \in 0 .. Len(text)}

-----------------------------------------------------------------------------
(* split_markdown_chunks.  A slice that begins or ends inside a character   *)
(* panics in Rust; what is left is then not split.                          *)

\* The byte at which the search for a newline ends, and text is sliced.
SearchEnd(text, from, max) == Offset(text, from) + max

\* The characters of the search region.
Region(text, from, max) ==
  {i \in from + 1 .. Len(text) : Offset(text, i) <= SearchEnd(text, from, max)}

\* After the last newline of the region, or at its end.
Cut(text, from, max) ==
  LET region == Region(text, from, max)
      lines  == {i \in region : text[i] = Newline}
  IN  IF lines # {} THEN Max(lines) ELSE Max(region)

RestFits(text, from, max) == SizeOf(text) - Offset(text, from) <= max

\* The loop is over, with the rest as the last chunk or with a panic.
SplitOver(text, from, max) ==
  \/ RestFits(text, from, max)
  \/ SearchEnd(text, from, max) \notin Boundaries(text)

\* `start` after each round.
ChunkStarts(text, max) ==
  LET start[k \in 0 .. Len(text)] ==
        IF k = 0 THEN 0
        ELSE LET from == start[k - 1]
             IN  IF SplitOver(text, from, max) THEN from ELSE Cut(text, from, max)
  IN  start

\* The chunks, and whether the search sliced inside a character.
SplitMarkdown(text, max) ==
  LET start == ChunkStarts(text, max)
      cuts  == Min({k \in DOMAIN start : SplitOver(text, start[k], max)})
  IN  [chunks |-> [i \in 1 .. cuts + 1 |->
                     SubSeq(text, start[i - 1] + 1, IF i <= cuts THEN start[i] ELSE Len(text))],
       panics |-> ~RestFits(text, start[cuts], max)]

-----------------------------------------------------------------------------
(* into_inbound.  A payload is [type, json, raw, text, title, key, content, *)
(* paragraphs]: `raw` is its trimmed text when it is no JSON; a text, a     *)
(* title, a key or a plain content that is missing or blank is <<>>; the    *)
(* paragraphs are those of its content array, wrapped in a locale or not.   *)
(* A text is a sequence of "mention", "space" and words.                    *)

\* strip_at_placeholders: a mention goes, with one space after it.
StripMentions(text) ==
  LET Goes(i) == \/ text[i] = "mention"
                 \/ text[i] = "space" /\ i > 1 /\ text[i - 1] = "mention"
  IN  FlattenSeq([i \in DOMAIN text |-> IF Goes(i) THEN <<>> ELSE <<text[i]>>])

Blank(text) == \A i \in DOMAIN text : text[i] \in {"space", Newline}

\* One element of a paragraph; tags without text of their own are skipped, and
\* so is a block of code that has no "text" at all, which is a tag of its own here.
ElementText(e) ==
  CASE e.tag \in {"text", "markdown"} -> e.text \o e.content
    [] e.tag = "a"                    -> e.text
    [] e.tag = "code_block"       -> <<"fence">> \o e.text \o <<"fence">>
    [] OTHER                          -> <<>>

\* extract_post_text: each paragraph ends with a newline.
PostText(payload) ==
  FlattenSeq([p \in DOMAIN payload.paragraphs |->
                FlattenSeq([e \in DOMAIN payload.paragraphs[p] |->
                              ElementText(payload.paragraphs[p][e])]) \o <<Newline>>])

\* extract_fallback_text; only an unwrapped content array is looked at.
FallbackText(payload) ==
  CASE ~payload.json                 -> payload.raw
    [] ~Blank(payload.text)          -> payload.text
    [] ~Blank(payload.title)         -> payload.title
    [] ~Blank(payload.content)       -> payload.content
    [] payload.flat /\ ~Blank(PostText(payload)) -> PostText(payload)
    [] OTHER                         -> <<>>

Refuse == [kind |-> "none", text |-> <<>>]
TextOf(text) == IF Blank(text) THEN Refuse ELSE [kind |-> "text", text |-> text]

IntoInbound(payload) ==
  CASE payload.type = "text" /\ payload.json -> TextOf(StripMentions(payload.text))
    [] payload.type \in {"image", "file"} /\ payload.json /\ payload.key # <<>> ->
         [kind |-> payload.type, text |-> payload.key]
    [] payload.type = "post" /\ payload.json ->
         IF Blank(PostText(payload)) THEN TextOf(FallbackText(payload))
         ELSE TextOf(PostText(payload))
    [] payload.type = "other" -> TextOf(FallbackText(payload))
    [] OTHER -> Refuse

-----------------------------------------------------------------------------
(* Whatever was written, the cards together show the whole reply, none is   *)
(* too large, and each but the last ends where a line ends unless it is one *)
(* line by itself (lines 426-470).                                          *)
SplitWhole(text, max) ==
  LET split == SplitMarkdown(text, max)
      cards == split.chunks
  IN  ~split.panics =>
        /\ FlattenSeq(cards) = text
        /\ \A i \in DOMAIN cards : SizeOf(cards[i]) <= max
        /\ \A i \in 1 .. Len(cards) - 1 :
             Newline \in ToSet(cards[i]) => cards[i][Len(cards[i])] = Newline

(* A text is only cut between two characters ("Ensure we're at a char       *)
(* boundary", line 450).                                                    *)
SplitsBetweenCharacters(text, max) == ~SplitMarkdown(text, max).panics

(* A post is refused only when no element of it says anything: links and    *)
(* blocks of code count as well ("so we don't silently discard user         *)
(* messages", lines 189-194).                                               *)
PostIsRead(payload) ==
  payload.type = "post" /\ payload.json
    /\ (\E p \in DOMAIN payload.paragraphs : \E e \in DOMAIN payload.paragraphs[p] :
          payload.paragraphs[p][e].tag \in {"text", "markdown", "a", "code_block"}
            /\ ~Blank(payload.paragraphs[p][e].text))
    => IntoInbound(payload).kind = "text"
=============================================================================
