----------------------------- MODULE MCServices -----------------------------
(* The services around the agent, each by itself over all of its own inputs: *)
(* `side` says which one runs.  On the side "texts" nothing runs: `sample`   *)
(* is the input of one of the pure functions.                                *)
EXTENDS FeishuApi, HttpReplies, Scheduler, Skills, AuditLog, Store, MCSseReader,
        MCShellRun, HttpForm, SkillSelection, LlmWire, FeishuText, CommandLine,
        Startup

VARIABLES side, sample

-----------------------------------------------------------------------------
(* Values of the constants.                                                 *)

\* A reply of two cards, another of one, and a reaction.
MCChunksOf == [c \in Calls |-> IF c = "long" THEN 2 ELSE 1]

\* Requests of every kind, one of them refused by the gateway.
MCKindOf == [r \in Requests |->
  CASE r \in {"j1", "j2"} -> "chat" [] r = "m1" -> "multipart" [] OTHER -> "stream"]
MCFaultOf == [r \in Requests |-> IF r = "j2" THEN 429 ELSE 0]

\* A cron task with a gap, whose schedule ends, a disabled task and an invalid one.
MCConfigs == <<
  [enabled |-> TRUE, every |-> 0, occurrences |-> {1, 3, 4}],
  [enabled |-> FALSE, every |-> 0, occurrences |-> {1}],
  [enabled |-> TRUE, every |-> 0, occurrences |-> Invalid]>>

\* Files of one skill in the sources 1 and 2.
MCSourceOf == [f \in Files |-> IF f = "c" THEN 2 ELSE 1]
MCDirOf == [f \in Files |-> "x"]

-----------------------------------------------------------------------------
(* Inputs of the pure functions.                                            *)

Tokenized == [of : {"token"}, left : SeqOf({0, 1}, 3), right : SeqOf({0, 1}, 3)]

FieldOf(name, text, readable, allowed, large) ==
  [name |-> name, text |-> text, readable |-> readable, allowed |-> allowed, large |-> large]
SomeFields ==
  {FieldOf("message", t, r, TRUE, FALSE) : t \in {"blank", "words"}, r \in BOOLEAN}
    \cup {FieldOf("image", "blank", TRUE, a, l) : a \in BOOLEAN, l \in BOOLEAN}
    \cup {FieldOf("file", "words", r, TRUE, l) : r \in BOOLEAN, l \in BOOLEAN}
    \cup {FieldOf("other", "words", TRUE, TRUE, FALSE)}
Forms == [of : {"form"}, fields : SeqOf(SomeFields, 3)]

Activations == [of : {"active"}, names : SeqOf({"a", "b", "c"}, 4), most : 0..2]

Sized == {[full |-> 4, short |-> 2, hidden |-> FALSE], [full |-> 2, short |-> 1, hidden |-> FALSE],
          [full |-> 2, short |-> 1, hidden |-> TRUE]}
Summaries == [of : {"summary"}, skills : SeqOf(Sized, 3), most : 0..3, chars : 0..9]

SkillOf(name, rank, description, words, keywords, triggers, extensions, priority) ==
  [name |-> name, rank |-> rank, hidden |-> FALSE, description |-> description, words |-> words,
   keywords |-> keywords, triggers |-> triggers, extensions |-> extensions, priority |-> priority]
SomeSkills == {
  SkillOf("plot", 1, "draws", {"chart"}, {"axis"}, {}, {"csv"}, 0),
  SkillOf("sum", 2, "", {}, {"total", "axis"}, {"add"}, {"csv"}, 50),
  SkillOf("tex", 3, "sets", {"page"}, {}, {"print"}, {"tex"}, 0)}
Terms == {"plot", "chart", "axis", "csv", "total", "add"}
Contexts == [user : SUBSET Terms, history : {{}, {"axis", "tex", "csv"}},
             workspace : {{}, {"csv"}}]
Mentions == [of : {"mention"}, context : Contexts, term : {"plot", "total", "add", "print"}]

Msg(role, text, images, made, answers) ==
  [role |-> role, text |-> text, images |-> images, calls |-> made, answers |-> answers]
SomeMessages == {
  Msg("system", "rules", <<>>, NoCalls, ""), Msg("user", "ask", <<>>, NoCalls, ""),
  Msg("user", "look", <<"img">>, NoCalls, ""), Msg("assistant", "say", <<>>, NoCalls, ""),
  Msg("assistant", "", <<>>, <<"c1", "c2">>, ""),
  Msg("tool", "r1", <<>>, NoCalls, "c1"), Msg("tool", "r2", <<>>, NoCalls, "c2")}
\* Results come right after the message that made the calls (Agent's PromptPaired).
Paired(prompt) ==
  \A i \in DOMAIN prompt : prompt[i].role = "tool" =>
    \E j \in 1 .. i - 1 : /\ Has(prompt[j])
                          /\ \A k \in j + 1 .. i : prompt[k].role = "tool"
Prompts == {p \in [of : {"prompt"}, messages : SeqOf(SomeMessages, 4)] : Paired(p.messages)}

Cards == [of : {"card"}, text : SeqOf({Newline, "narrow", Wide}, 6), max : 3..4]

Element(tag, text) == [tag |-> tag, text |-> text, content |-> <<>>]
SomeElements == {Element(tag, text) : tag \in {"text", "a", "code_block", "img"},
                                      text \in {<<>>, <<"word">>, <<"space">>}}
Payload(type, flat, title, paragraphs) ==
  [type |-> type, json |-> TRUE, raw |-> <<>>, text |-> <<>>, title |-> title, key |-> <<>>,
   content |-> <<>>, flat |-> flat, paragraphs |-> paragraphs]
SomePosts == {[of |-> "post", payload |-> Payload("post", flat, <<>>, paragraphs)] :
            flat \in BOOLEAN, paragraphs \in SeqOf(SeqOf(SomeElements, 1), 2)}

Commands == [of : {"command"},
             text : SeqOf({Apostrophe, Quote, Backslash, "|", "&", ";", "$", " ", "x"}, 4)]

Home(root) == [root |-> root, parts |-> <<"home">>]
Rel(parts) == [root |-> FALSE, parts |-> parts]
Value(ref, text) == [ref |-> ref, text |-> text]
Profile(parses, known) == [parses |-> parses, known |-> known, key |-> Value(TRUE, "KEY")]
SomeProfiles == {Profile(TRUE, TRUE), Profile(TRUE, FALSE), Profile(FALSE, TRUE)}
Llms == {[flat |-> {p}, tables |-> <<>>] : p \in SomeProfiles}
          \cup {[flat |-> {}, tables |-> t] :
                 t \in UNION {[names -> SomeProfiles] : names \in SUBSET {"default", "fast"}}}
SomeConfigs == [llm : Llms, active : {"default", "fast"}, fallback : {"", "default", "fast"},
            channelFeishu : {{}, {Value(TRUE, "SECRET")}}, feishu : {{}, {Value(FALSE, "s")}},
            dbPath : {Rel(<<".", "db">>)}, audited : BOOLEAN, auditFile : {Rel(<<"log">>)}]
Starts == [of : {"start"}, config : SomeConfigs, env : {<<>>, [v \in {"SECRET"} |-> "t"]},
           faults : {{}, {"audit"}, {"database"}}]

MaybePath(parts) == {{}, {Rel(parts)}}
Finds == [of : {"find"}, cli : MaybePath(<<"cli">>), variable : MaybePath(<<"var">>),
          existing : SUBSET {Rel(<<"var">>), Rel(<<"config.toml">>),
                             [root |-> TRUE, parts |-> <<"home", "config.toml">>]},
          bundled : {{}, {[root |-> TRUE, parts |-> <<"home", "skills">>]},
                     {[root |-> TRUE, parts |-> <<"bin", "skills">>]}},
          skillsDir : {Rel(<<".", "skills">>), Rel(<<"mine">>),
                       [root |-> TRUE, parts |-> <<"bin", "skills">>]}]

Samples == Starts \cup Finds \cup Commands \cup Tokenized \cup Forms \cup Activations \cup Summaries \cup Mentions
             \cup Prompts \cup Cards \cup SomePosts

-----------------------------------------------------------------------------
ServicesVars == <<side, sample, vars, httpVars, schedulerVars, skillVars, auditVars,
                  storeVars, sseVars, shellVars>>

ServicesInit ==
  /\ side \in {"api", "http", "scheduler", "skills", "audit", "messages", "memories",
               "sse", "shell", "texts"}
  /\ sample \in IF side = "texts" THEN Samples ELSE {[of |-> "nothing"]}
  /\ Init /\ HttpInit /\ SchedulerInit /\ SkillsInit /\ AuditInit /\ StoreInit
  /\ SseInit /\ ShellInit
  /\ side # "sse" => body = CHOOSE b \in Bodies : TRUE

ServicesNext ==
  /\ UNCHANGED <<side, sample>>
  /\ \/ /\ side = "api" /\ Next
        /\ UNCHANGED <<httpVars, schedulerVars, skillVars, auditVars, storeVars, sseVars, shellVars>>
     \/ /\ side = "http" /\ HttpNext
        /\ UNCHANGED <<vars, schedulerVars, skillVars, auditVars, storeVars, sseVars, shellVars>>
     \/ /\ side = "scheduler" /\ SchedulerNext
        /\ UNCHANGED <<vars, httpVars, skillVars, auditVars, storeVars, sseVars, shellVars>>
     \/ /\ side = "skills" /\ SkillsNext
        /\ UNCHANGED <<vars, httpVars, schedulerVars, auditVars, storeVars, sseVars, shellVars>>
     \/ /\ side = "audit" /\ AuditNext
        /\ UNCHANGED <<vars, httpVars, schedulerVars, skillVars, storeVars, sseVars, shellVars>>
     \/ /\ side = "messages" /\ MessagesNext
        /\ UNCHANGED <<vars, httpVars, schedulerVars, skillVars, auditVars, sseVars, shellVars>>
     \/ /\ side = "memories" /\ MemoriesNext
        /\ UNCHANGED <<vars, httpVars, schedulerVars, skillVars, auditVars, sseVars, shellVars>>
     \/ /\ side = "sse" /\ SseNext
        /\ UNCHANGED <<vars, httpVars, schedulerVars, skillVars, auditVars, storeVars, shellVars>>
     \/ /\ side = "shell" /\ ShellNext
        /\ UNCHANGED <<vars, httpVars, schedulerVars, skillVars, auditVars, storeVars, sseVars>>

\* On each side something that may happen by itself does happen, as long as
\* there is anything: all that the runs need, and less than each module's own
\* fairness, since every behaviour of these sides ends.
ServicesFairness ==
  /\ WF_vars(side = "api" /\ \E c \in Calls : pc[c] # "idle" /\ CallStep(c))
  /\ WF_httpVars(side = "http" /\ (\/ TakeNext
                                  \/ \E r \in Requests :
                                       HandlerStep(r) \/ ReplyStep(r) \/ CleanUp(r)))
  /\ WF_skillVars(side = "skills" /\ (\/ StartScan \/ Notify \/ Awake \/ Drain \/ Replace
                                     \/ \E f \in Files : ReadSkill(f)))
  /\ WF_shellVars(side = "shell" /\ \E c \in ShellCalls :
       \/ ShellStep(c) \/ Exit(c)
       \/ \E s \in Streams : Write(c, s) \/ Read(c, s) \/ ReadEnd(c, s))

ServicesSpec == ServicesInit /\ [][ServicesNext]_ServicesVars /\ ServicesFairness

-----------------------------------------------------------------------------
(* The pure functions against what they promise, for every sample; each     *)
(* operator named here says in its module what that is.                     *)
TextsExact ==
  CASE sample.of = "token"   -> TokenExact(sample.left, sample.right)
    [] sample.of = "command" -> DirectIsChecked(sample.text) /\ QuotingHolds(sample.text)
    [] sample.of = "start" ->
         StartsAlike(sample.config, sample.env, Home(TRUE), sample.faults)
    [] sample.of = "find" ->
         PlacesHold(sample.cli, sample.variable, Home(TRUE), sample.existing,
                    sample.bundled, sample.skillsDir)
    [] sample.of = "form"    -> FormExact(sample.fields)
    [] sample.of = "active"  -> ActiveExact(sample.names, sample.most)
    [] sample.of = "summary" -> SummaryFits(sample.skills, sample.most, sample.chars)
    [] sample.of = "mention" -> MentionHelps(SomeSkills, sample.context, sample.term)
    [] sample.of = "prompt"  -> ProvidersAgree(sample.messages)
    [] sample.of = "card"    -> SplitWhole(sample.text, sample.max)
    [] sample.of = "post"    -> PostIsRead(sample.payload)
    [] OTHER                 -> TRUE
=============================================================================
