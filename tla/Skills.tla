--------------------------------- MODULE Skills ---------------------------------
(***************************************************************************)
(* The skill registry and its hot reload (skill.rs, main.rs): SKILL.md     *)
(* files in several source directories, the scan at the start, and in      *)
(* `serve` mode, when the rest of the program is built, a file watcher     *)
(* whose callback puts changes into a channel of four and drops them when  *)
(* it is full, and a task that waits for a change, lets others gather for  *)
(* a second, drains the channel and scans all sources anew.                *)
(*                                                                         *)
(* The scan reads the files one after the other while they go on changing; *)
(* only the replacement of the registry is atomic.  A later source         *)
(* overrides an earlier one; within a source the order of the directory    *)
(* listing decides, which is any.  Files may change at any time, before    *)
(* the first scan, between it and the watch, and in sources that are never *)
(* watched: nobody tells the task of those changes.                        *)
(***************************************************************************)
EXTENDS Naturals, FiniteSets

CONSTANTS
  Files,       \* the places of SKILL.md files
  SourceOf,    \* the number of a file's source; later ones override
  DirOf,       \* the name of a file's directory, the fallback for its skill
  Names,       \* the names of skills, and of directories
  NoName,      \* a frontmatter without a name
  NoFile,      \* no file, or no skill
  ChannelCap,  \* the capacity of the watcher's channel
  MaxEdits     \* bound of the model: the changes of files

ASSUME SkillsAssumption ==
  /\ SourceOf \in [Files -> Nat]
  /\ DirOf \in [Files -> Names] /\ NoName \notin Names
  /\ ChannelCap \in Nat \ {0}
  /\ MaxEdits \in Nat

\* A file: the name in its frontmatter, its flaw if it has one ("large",
\* "frontmatter" missing or invalid), and a revision that tells edits apart.
Skill == [name : Names \cup {NoName}, flaw : {"none", "large", "frontmatter"},
          rev : 0 .. MaxEdits]

VARIABLES
  onDisk,     \* the files as they are: a Skill or NoFile
  edits,      \* how often files were changed
  watched,    \* the sources under the watcher
  notices,    \* changes that the operating system has yet to report
  channel,    \* changes in the watcher's channel
  reloader,   \* "start", the first "scan", then the task's "idle", "debounce", "scan"
  toRead,     \* the files that the scan has yet to read
  found,      \* `skills` of scan_skills: what the scan has found, by name
  registry,   \* SkillRegistry.skills, by name
  unseen      \* history: the files changed outside the watch and not read since

skillVars == <<onDisk, edits, watched, notices, channel, reloader, toRead, found, registry, unseen>>

Sources == {SourceOf[f] : f \in Files}

-----------------------------------------------------------------------------
\* parse_frontmatter: the skill's name, or NoName when the file is skipped.
ParsedName(f, file) ==
  IF file = NoFile \/ file.flaw # "none" THEN NoName
  ELSE IF file.name = NoName THEN DirOf[f] ELSE file.name

Entry(f, file) == [file |-> f, rev |-> file.rev]

\* scan_skills, one file: it replaces a skill of that name found before.
Merge(skills, f, file) ==
  LET name == ParsedName(f, file)
  IN  IF name = NoName THEN skills ELSE [skills EXCEPT ![name] = Entry(f, file)]

Nothing == [n \in Names |-> NoFile]

\* The program is started; the files that are there were made by edits before.
SkillsInit ==
  /\ onDisk = [f \in Files |-> NoFile]
  /\ edits = 0 /\ watched = {} /\ notices = 0 /\ channel = 0
  /\ reloader = "start"
  /\ toRead = {} /\ found = Nothing /\ registry = Nothing
  /\ unseen = {}

\* SkillRegistry::scan in bootstrap().
StartScan ==
  /\ reloader = "start"
  /\ reloader' = "scan"
  /\ toRead' = Files
  /\ UNCHANGED <<onDisk, edits, watched, notices, channel, found, registry, unseen>>

\* spawn_skill_watcher in run_serve(): the sources that exist are watched, or
\* none when it fails.  run_chat() has no watcher.
Watch ==
  /\ reloader = "idle" /\ watched = {}
  /\ watched' \in SUBSET Sources
  /\ UNCHANGED <<onDisk, edits, notices, channel, reloader, toRead, found, registry, unseen>>

\* A user creates, changes or removes a file; the system reports it if watched.
Edit(f) ==
  /\ edits < MaxEdits
  /\ edits' = edits + 1
  /\ \/ \E name \in Names \cup {NoName}, flaw \in {"none", "large", "frontmatter"} :
          /\ name # NoName => flaw = "none"
          /\ onDisk' = [onDisk EXCEPT
                          ![f] = [name |-> name, flaw |-> flaw, rev |-> edits + 1]]
     \/ onDisk[f] # NoFile /\ onDisk' = [onDisk EXCEPT ![f] = NoFile]
  /\ IF SourceOf[f] \in watched
       THEN notices' = notices + 1 /\ UNCHANGED unseen
       ELSE unseen' = unseen \cup {f} /\ UNCHANGED notices
  /\ UNCHANGED <<watched, channel, reloader, toRead, found, registry>>

\* The watcher's callback: try_send, and a full channel drops the change.
Notify ==
  /\ notices > 0
  /\ notices' = notices - 1
  /\ channel' = IF channel < ChannelCap THEN channel + 1 ELSE channel
  /\ UNCHANGED <<onDisk, edits, watched, reloader, toRead, found, registry, unseen>>

\* rx.recv() yields the first change; the second of debounce begins.
Awake ==
  /\ reloader = "idle"
  /\ channel > 0
  /\ channel' = channel - 1
  /\ reloader' = "debounce"
  /\ UNCHANGED <<onDisk, edits, watched, notices, toRead, found, registry, unseen>>

\* The debounce is over: the channel is drained, then the scan begins.
Drain ==
  /\ reloader = "debounce"
  /\ channel' = 0
  /\ reloader' = "scan"
  /\ toRead' = Files
  /\ found' = Nothing
  /\ UNCHANGED <<onDisk, edits, watched, notices, registry, unseen>>

\* The scan reads the next file: source by source, in any order within one.
ReadSkill(f) ==
  /\ reloader = "scan"
  /\ f \in toRead
  /\ \A g \in toRead : SourceOf[f] <= SourceOf[g]
  /\ toRead' = toRead \ {f}
  /\ found' = Merge(found, f, onDisk[f])
  /\ unseen' = unseen \ {f}
  /\ UNCHANGED <<onDisk, edits, watched, notices, channel, reloader, registry>>

\* Mutation: the task waits for one change (if let) instead of each (while let).
ReplaceAndEnd ==
  /\ reloader = "scan"
  /\ toRead = {}
  /\ registry' = found
  /\ found' = Nothing
  /\ reloader' = IF watched = {} THEN "idle" ELSE "ended"
  /\ UNCHANGED <<onDisk, edits, watched, notices, channel, toRead, unseen>>

\* The first scan makes the registry, reload() replaces it.
Replace ==
  /\ reloader = "scan"
  /\ toRead = {}
  /\ registry' = found
  /\ found' = Nothing
  /\ reloader' = "idle"
  /\ UNCHANGED <<onDisk, edits, watched, notices, channel, toRead, unseen>>

\* Nothing has changed and nothing is to be done.
SkillsAtRest ==
  /\ notices = 0 /\ channel = 0 /\ reloader = "idle"
  /\ UNCHANGED skillVars

SkillsNext ==
  \/ \E f \in Files : Edit(f) \/ ReadSkill(f)
  \/ StartScan \/ Watch
  \/ Notify \/ Awake \/ Drain \/ Replace \/ SkillsAtRest

SkillsSpec == SkillsInit /\ [][SkillsNext]_skillVars

\* The program starts, the operating system reports, and the runtime runs the
\* task; the watch need never be there and nobody need ever change a file.
SkillsFairness ==
  /\ WF_skillVars(StartScan)
  /\ WF_skillVars(Notify) /\ WF_skillVars(Awake)
  /\ WF_skillVars(Drain) /\ WF_skillVars(Replace)
  /\ \A f \in Files : WF_skillVars(ReadSkill(f))

-----------------------------------------------------------------------------
\* The files that hold a valid skill of a name.
Holding(name) == {f \in Files : ParsedName(f, onDisk[f]) = name}

\* The registry shows each name exactly when some file holds it, with the
\* present revision of a file of the last source that does.
UpToDate ==
  \A name \in Names :
    IF Holding(name) = {} THEN registry[name] = NoFile
    ELSE \E f \in Holding(name) :
           /\ \A g \in Holding(name) : SourceOf[g] <= SourceOf[f]
           /\ registry[name] = Entry(f, onDisk[f])

(* With no change waiting in the system or in the channel and the task at    *)
(* rest, the registry shows the files as they are, later sources overriding  *)
(* earlier ones (skill.rs, lines 361-461): a dropped change has another in   *)
(* the channel ahead of the scan that it missed.  Excepted are changes made  *)
(* outside the watch that no scan has come upon: between the first scan      *)
(* (main.rs 326) and the watch (main.rs 421), in a source not there then,    *)
(* and in `chat` mode.                                                       *)
QuietIsCurrent ==
  notices = 0 /\ channel = 0 /\ reloader = "idle" /\ unseen = {} => UpToDate

(* "skill directories are hot-reloaded" (README.md, line 41): however        *)
(* changes are dropped by the full channel, gathered by the debounce or      *)
(* overtake the scan, the registry is current whenever all is quiet, and     *)
(* once the files rest it comes to show them and goes on showing them,       *)
(* unless the last changes to some file were made outside the watch.         *)
CatchesUp == []QuietIsCurrent /\ (<>[]UpToDate \/ <>[](unseen # {}))
=============================================================================
