------------------------------ MODULE CommandLine ------------------------------
(***************************************************************************)
(* How a command is read, as built for Unix: the segments of its chain,    *)
(* which is what the permissions are checked for                           *)
(* (tool/shell/permission.rs), whether it needs a shell (tool/shell.rs),   *)
(* and the tokens of a command that needs none (tool/tokenize.rs, which    *)
(* the custom tools use, too).  Each of these is a loop of its own over    *)
(* the characters that keeps its own account of the quotes; they must      *)
(* agree on what is quoted.  Here a text is a sequence of characters, the  *)
(* quotes are found by Marks, and each loop says which characters may be   *)
(* escaped and what it does out of quotes.                                 *)
(***************************************************************************)
EXTENDS Naturals, Sequences, SequencesExt, FiniteSetsExt

Apostrophe == "'"
Quote == "\""
Backslash == "\\"
Backtick == "backtick"
Whitespace == {" ", "\n"}

Positions(text) == [i \in 1 .. Len(text) |-> i]

-----------------------------------------------------------------------------
(* What each character is: a "quote"; a backslash that is an "escape", and  *)
(* the character it has "escaped"; or a character out of quotes or in       *)
(* either kind; and in the end, what is still open.  Only in double quotes  *)
(* does a backslash escape, and only some characters.                       *)
Marks(text, escapable) ==
  LET Mark(s, mark, place) == [marks |-> Append(s.marks, mark), place |-> place]
      Escapes(i) ==
        text[i] = Backslash /\ i < Len(text) /\ text[i + 1] \in escapable
      Read(s, i) ==
        CASE s.place = "escape" -> Mark(s, "escaped", "double")
          [] s.place = "double" /\ Escapes(i) -> Mark(s, "escape", "escape")
          [] \/ s.place = "double" /\ text[i] = Quote
             \/ s.place = "single" /\ text[i] = Apostrophe -> Mark(s, "quote", "out")
          [] s.place = "out" /\ text[i] = Quote -> Mark(s, "quote", "double")
          [] s.place = "out" /\ text[i] = Apostrophe -> Mark(s, "quote", "single")
          [] OTHER -> Mark(s, s.place, s.place)
  IN  FoldLeft(Read, [marks |-> <<>>, place |-> "out"], Positions(text))

Usual == {Quote, Backslash}
Quotes == {Quote, Apostrophe}

\* The characters with one of the marks.
Marked(text, escapable, some) ==
  LET marks == Marks(text, escapable).marks
  IN  {text[i] : i \in {j \in DOMAIN text : marks[j] \in some}}

-----------------------------------------------------------------------------
(* The chain.                                                               *)

Trim(text) ==
  LET solid == {i \in DOMAIN text : text[i] \notin Whitespace}
  IN  IF solid = {} THEN <<>> ELSE SubSeq(text, Min(solid), Max(solid))

\* split_command_chain: at `|`, `||`, `&&` and `;`, not at a single `&`; every
\* segment is trimmed, and empty ones are left out.
Chain(text) ==
  LET marks == Marks(text, Usual).marks
      Out(c, i) == i \in DOMAIN text /\ marks[i] = "out" /\ text[i] = c
      Twice(c, i) == Out(c, i) /\ Out(c, i + 1)
      Cut(s, skip) ==
        [segments |-> IF Trim(s.current) = <<>> THEN s.segments
                      ELSE Append(s.segments, Trim(s.current)),
         current |-> <<>>, skip |-> skip]
      Read(s, i) ==
        CASE i \in s.skip -> s
          [] Twice("|", i) \/ Twice("&", i) -> Cut(s, {i + 1})
          [] ~Twice("|", i) /\ (Out("|", i) \/ Out(";", i)) -> Cut(s, {})
          [] OTHER -> [s EXCEPT !.current = Append(@, text[i])]
      read == FoldLeft(Read, [segments |-> <<>>, current |-> <<>>, skip |-> {}],
                       Positions(text))
  IN  Cut(read, {}).segments

\* normalize_first_token: what the lists of commands are asked about, the first
\* word without the double quotes, then without the single quotes, around it.
Word(text) ==
  LET ends == {i \in DOMAIN text : text[i] \in Whitespace}
  IN  IF ends = {} THEN text ELSE SubSeq(text, 1, Min(ends) - 1)

Without(c, text) ==
  LET others == {i \in DOMAIN text : text[i] # c}
  IN  IF others = {} THEN <<>> ELSE SubSeq(text, Min(others), Max(others))

FirstWord(text) == Without(Apostrophe, Without(Quote, Word(text)))

-----------------------------------------------------------------------------
(* The plan.                                                                *)

\* requires_shell: whatever only a shell gives a meaning to, out of quotes, and
\* what it expands in double quotes.
RequiresShell(text) ==
  LET escapable == Usual \cup {"$", Backtick}
  IN  \/ Marked(text, escapable, {"out"})
           \cap {"\n", "|", "&", ";", "<", ">", "$", Backtick} # {}
      \/ Marked(text, escapable, {"double"}) \cap {"\n", "$", Backtick} # {}

\* reject_unquoted_shell_metacharacters
HasMetacharacter(text) ==
  Marked(text, Usual, {"out"}) \cap {"|", "&", ";", "<", ">", Backtick} # {}

Failed == [ok |-> FALSE, tokens |-> <<>>]

\* tokenize_quoted_args: separated by space out of quotes, without the quotes and
\* the escapes.  Quotes that hold nothing make no token.
Tokenize(text) ==
  LET read == Marks(text, Usual)
      Flush(s) == [tokens |-> IF s.current = <<>> THEN s.tokens
                              ELSE Append(s.tokens, s.current),
                   current |-> <<>>]
      Read(s, i) ==
        CASE read.marks[i] = "out" /\ text[i] \in Whitespace -> Flush(s)
          [] read.marks[i] \in {"quote", "escape"} -> s
          [] OTHER -> [s EXCEPT !.current = Append(@, text[i])]
      tokens == Flush(FoldLeft(Read, [tokens |-> <<>>, current |-> <<>>],
                               Positions(text))).tokens
  IN  IF read.place # "out" \/ tokens = <<>> THEN Failed
      ELSE [ok |-> TRUE, tokens |-> tokens]

-----------------------------------------------------------------------------
(* What the checks read is what the direct call reads.  A segment of a      *)
(* chain is split again by the check of its paths (shell.rs, 546-558): that *)
(* finds the segment itself, and only the last can end in open quotes.  A   *)
(* command that needs no shell is the only kind that runs below "full"      *)
(* (shell.rs, 1012-1018): it is its own only segment, has none of the       *)
(* characters that are refused, and runs as the tokens of that segment,     *)
(* the word the lists are asked about being its program when that word has  *)
(* no quotes.  Nothing is said of what a shell makes of a segment in        *)
(* "full" mode: it knows operators at which split_command_chain does not    *)
(* cut.                                                                     *)
DirectIsChecked(text) ==
  LET chain == Chain(text)
      word == FirstWord(Trim(text))
      run == Tokenize(text)
  IN  /\ \A i \in DOMAIN chain :
           /\ Chain(chain[i]) = <<chain[i]>>
           /\ i < Len(chain) => Marks(chain[i], Usual).place = "out"
      /\ ~RequiresShell(text) =>
           /\ chain = IF Trim(text) = <<>> THEN <<>> ELSE <<Trim(text)>>
           /\ ~HasMetacharacter(text)
           /\ run = Tokenize(Trim(text))
           /\ run.ok /\ ToSet(Word(Trim(text))) \cap Quotes = {} => Head(run.tokens) = word

(* A word survives quoting: in double quotes with its quotes and            *)
(* backslashes escaped, and, without apostrophes, in single ones, it is one *)
(* token and never split, whatever it holds; and in single quotes nothing   *)
(* is left for a shell (tokenize.rs, lines 10-38).                          *)
QuotingHolds(word) ==
  LET escaped == FoldLeft(LAMBDA s, c : s \o IF c \in Usual THEN <<Backslash, c>> ELSE <<c>>,
                          <<>>, word)
      double == <<Quote>> \o escaped \o <<Quote>>
      single == <<Apostrophe>> \o word \o <<Apostrophe>>
      One(text) == /\ Tokenize(text) = [ok |-> TRUE, tokens |-> <<word>>]
                   /\ Chain(text) = <<text>>
                   /\ ~HasMetacharacter(text)
  IN  word # <<>> =>
        /\ One(double)
        /\ Apostrophe \notin ToSet(word) => One(single) /\ ~RequiresShell(single)
=============================================================================
