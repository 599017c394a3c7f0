-------------------------------- MODULE Startup --------------------------------
(***************************************************************************)
(* What a configuration makes of a start: where the file is found          *)
(* (paths.rs), how its profiles and secrets are read (config/mod.rs), and  *)
(* what `serve`, `chat` and the session commands set up with them          *)
(* (main.rs, bootstrap and run_session_cmd).                               *)
(*                                                                         *)
(* What may be missing is a set of at most one element; so is what may     *)
(* fail, with the empty set for the error.  Of a profile only its secret   *)
(* counts, and whether it can be parsed and its provider is known.         *)
(***************************************************************************)
EXTENDS Naturals, Sequences, SequencesExt

First(options) == IF options = <<>> THEN {} ELSE {options[1]}
TheOne(option) == CHOOSE x \in option : TRUE

-----------------------------------------------------------------------------
(* Paths: [root, parts].  A leading "./" is dropped by resolve_path.        *)

ResolvePath(base, path) ==
  IF path.root THEN path
  ELSE [base EXCEPT !.parts = @ \o SelectSeq(path.parts, LAMBDA part : part # ".")]

\* find_config: a path on the command line is taken whether it exists or not.
FindConfig(cli, variable, home, existing) ==
  LET places == <<[root |-> FALSE, parts |-> <<"config.toml">>],
                  [home EXCEPT !.parts = Append(@, "config.toml")]>>
      asked  == IF variable = {} THEN <<>> ELSE <<TheOne(variable)>>
  IN  IF cli # {} THEN cli
      ELSE First(SelectSeq(asked \o places, LAMBDA path : path \in existing))

\* collect_skill_sources: a directory counts once, where it comes first.
SkillSources(bundled, home, workspace, skillsDir) ==
  LET named(name, dir) == [name |-> name, dir |-> dir]
      all == (IF bundled = {} THEN <<>> ELSE <<named("bundled", TheOne(bundled))>>)
               \o <<named("user", [home EXCEPT !.parts = Append(@, "skills")]),
                    named("workspace", ResolvePath(workspace, skillsDir))>>
      Push(seen, source) ==
        IF \E i \in DOMAIN seen : seen[i].dir = source.dir THEN seen ELSE Append(seen, source)
  IN  FoldLeft(Push, <<>>, all)

-----------------------------------------------------------------------------
(* The configuration.  A value is [ref, text]: a reference to a variable of *)
(* the environment, or itself.                                              *)

\* resolve_env: a reference to a variable that is not set is an error.
ResolveEnv(value, env) ==
  IF ~value.ref THEN {value.text}
  ELSE IF value.text \in DOMAIN env THEN {env[value.text]} ELSE {}

\* resolve_env_optional: it is empty then.
ResolveEnvOptional(value, env) ==
  LET text == ResolveEnv(value, env) IN IF text = {} THEN "" ELSE TheOne(text)

\* parse_llm_profiles: one flat profile, called "default", or named ones.
ParseLlmProfiles(llm) ==
  LET all == IF llm.flat # {} THEN [n \in {"default"} |-> TheOne(llm.flat)] ELSE llm.tables
  IN  IF DOMAIN all = {} \/ \E n \in DOMAIN all : ~all[n].parses THEN {} ELSE {all}

\* AppConfig::load_from_str: [channel.feishu] comes before [feishu]; its secret is
\* needed, those of the profiles are not; the active profile must be there.
LoadFromStr(config, env) ==
  LET raw    == ParseLlmProfiles(config.llm)
      feishu == IF config.channelFeishu # {} THEN config.channelFeishu ELSE config.feishu
      secret == UNION {ResolveEnv(f, env) : f \in feishu}
      profiles == [n \in DOMAIN TheOne(raw) |->
                     [key |-> ResolveEnvOptional(TheOne(raw)[n].key, env),
                      known |-> TheOne(raw)[n].known]]
  IN  IF raw = {} \/ (feishu # {} /\ secret = {}) THEN {}
      ELSE IF config.active \notin DOMAIN profiles THEN {}
      ELSE {[profiles |-> profiles, llm |-> profiles[config.active], feishu |-> secret]}

\* create_llm_client
CreateLlmClient(profile) == IF profile.known THEN {profile.key} ELSE {}

-----------------------------------------------------------------------------
(* The start.  `faults` are the parts that fail by themselves.              *)

\* The client to fall back to, and whether it is one the start fails for: a
\* profile that is not found is only warned of.
Fallback(config, profiles) ==
  IF config.fallback \in DOMAIN profiles
    THEN [client |-> CreateLlmClient(profiles[config.fallback]), wanted |-> TRUE]
    ELSE [client |-> {}, wanted |-> FALSE]

\* bootstrap: the directories, the configuration, the store and the clients are
\* needed, the audit log is not.  Its path is resolved twice.
Bootstrap(config, env, home, faults) ==
  LET loaded   == LoadFromStr(config, env)
      its      == TheOne(loaded)
      fallback == Fallback(config, its.profiles)
      audit    == ResolvePath(home, ResolvePath(home, config.auditFile))
  IN  IF \/ loaded = {} \/ faults \cap {"dirs", "database"} # {}
         \/ CreateLlmClient(its.llm) = {}
         \/ fallback.wanted /\ fallback.client = {}
        THEN {}
        ELSE {[llm |-> CreateLlmClient(its.llm), fallback |-> fallback.client,
               models |-> DOMAIN its.profiles, feishu |-> its.feishu,
               database |-> ResolvePath(home, config.dbPath),
               audit |-> IF config.audited /\ "audit" \notin faults THEN {audit} ELSE {}]}

\* run_session_cmd: the store alone.
SessionStore(config, env, home, faults) ==
  IF LoadFromStr(config, env) = {} \/ faults \cap {"dirs", "database"} # {} THEN {}
  ELSE {ResolvePath(home, config.dbPath)}

-----------------------------------------------------------------------------
(* A session command works on the database of the server, and whenever the  *)
(* server starts so does it (main.rs, lines 225 and 382-410); a profile *)
(* written flat is a profile called "default" (config/mod.rs, lines 69-102); *)
(* the audit log can fail without any other effect, and is where its path   *)
(* says although that is resolved twice, as long as the home is absolute;   *)
(* the model falls back only to a profile that was configured, never to     *)
(* itself unless told so.                                                   *)
StartsAlike(config, env, home, faults) ==
  LET started == Bootstrap(config, env, home, faults)
      named   == [config EXCEPT !.llm = [flat |-> {}, tables |->
                    [n \in {"default"} |-> TheOne(config.llm.flat)]]]
      quiet   == Bootstrap([config EXCEPT !.audited = FALSE], env, home, faults)
  IN  /\ {s.database : s \in started} \subseteq SessionStore(config, env, home, faults)
      /\ config.llm.flat # {} => started = Bootstrap(named, env, home, faults)
      /\ quiet = {[s EXCEPT !.audit = {}] : s \in started}
      /\ \A s \in started :
           /\ s.audit \subseteq {ResolvePath(home, config.auditFile)}
           /\ config.active \in s.models
           /\ s.fallback # {} <=> config.fallback \in s.models

(* A start from any place reads one file: the one asked for, or the first   *)
(* that exists (paths.rs, lines 132-173).  The directories of skills are    *)
(* distinct, none is lost, and they keep their order, on which it depends   *)
(* whose skill of a name counts (main.rs, lines 178-199).                   *)
PlacesHold(cli, variable, home, existing, bundled, skillsDir) ==
  LET found   == FindConfig(cli, variable, home, existing)
      sources == SkillSources(bundled, home, home, skillsDir)
      dirs    == [i \in DOMAIN sources |-> sources[i].dir]
  IN  /\ cli # {} => found = cli
      /\ cli = {} => found \subseteq existing
      /\ cli = {} /\ variable # {} /\ variable \subseteq existing => found = variable
      /\ IsInjective(dirs)
      /\ bundled \cup {ResolvePath(home, skillsDir)} \subseteq ToSet(dirs)
      /\ bundled # {} => sources[1].name = "bundled"
=============================================================================
