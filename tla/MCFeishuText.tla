---------------------------- MODULE MCFeishuText ----------------------------
(* Short replies of narrow and wide characters, in cards of four bytes.      *)
EXTENDS FeishuText

VARIABLE markdown

CardsInit == markdown \in SeqOf({Newline, "narrow", Wide}, 4)
CardsSpec == CardsInit /\ [][UNCHANGED markdown]_markdown

(* A reply is cut into cards between two characters only ("Ensure we're at  *)
(* a char boundary", channel/feishu/types.rs, line 450).                    *)
CardsCutCleanly == SplitsBetweenCharacters(markdown, 4)
=============================================================================
