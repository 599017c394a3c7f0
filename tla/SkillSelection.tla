----------------------------- MODULE SkillSelection -----------------------------
(***************************************************************************)
(* Which skills a turn is told about: the candidates and their ranking     *)
(* (agent/skill_match.rs), the summary that must fit the prompt            *)
(* (skill.rs, build_summary), and the skills that activate_skill keeps     *)
(* active (tool/skill_tool.rs).                                            *)
(*                                                                         *)
(* A text is the set of the terms it contains; a skill's name, description *)
(* and terms are such terms.  The size of a rendered summary is counted    *)
(* per part.                                                               *)
(***************************************************************************)
EXTENDS Integers, Sequences, FiniteSets, SequencesExt, FiniteSetsExt

-----------------------------------------------------------------------------
(* Candidates.  A context is [user, history, workspace]: the terms of the   *)
(* user's text and of the recent history, and the workspace's extensions.   *)

When(condition, points) == IF condition THEN points ELSE 0

\* So many points for each term that the user's text, or the history, contains.
Points(terms, context, inUser, inHistory) ==
  inUser * Cardinality(terms \cap context.user)
    + inHistory * Cardinality(terms \cap context.history)

\* score_description_match: the description itself, or else any of its terms.
DescriptionScore(skill, context) ==
  IF skill.description = "" THEN 0
  ELSE IF skill.description \in context.user
    THEN 50 + When(skill.description \in context.history, 25)
    ELSE When(skill.words \cap context.user # {}, 50)
           + When(skill.words \cap context.history # {}, 25)

\* score_extension_match: once for the texts, once for the workspace.
ExtensionScore(skill, context) ==
  When(skill.extensions \cap (context.user \cup context.history) # {}, 90)
    + When(skill.extensions \cap context.workspace # {}, 15)

\* What the texts say for a skill, its priority left aside.
Signals(skill, context) ==
  Points({skill.name}, context, 120, 60)
    + DescriptionScore(skill, context)
    + Points(skill.keywords, context, 80, 40)
    + Points(skill.triggers, context, 40, 20)
    + ExtensionScore(skill, context)

\* score_skill_candidate: a hidden skill, or one that nothing speaks for, is none.
IsCandidate(skill, context) == ~skill.hidden /\ Signals(skill, context) > 0

Score(skill, context) == skill.priority + Signals(skill, context)

\* The comparison of select_skill_candidate_matches; the rank of a name is its
\* place in the alphabet.
RanksBefore(a, b, context) ==
  \/ Score(a, context) > Score(b, context)
  \/ /\ Score(a, context) = Score(b, context)
     /\ \/ a.priority > b.priority
        \/ a.priority = b.priority /\ a.rank < b.rank

Ranked(skills, context) ==
  LET all == {s \in skills : IsCandidate(s, context)}
  IN  [i \in 1 .. Cardinality(all) |->
         CHOOSE s \in all :
           Cardinality({r \in all : RanksBefore(r, s, context)}) = i - 1]

Prefix(seq, n) == SubSeq(seq, 1, IF n < Len(seq) THEN n ELSE Len(seq))

Selected(skills, context, maxActive) == Prefix(Ranked(skills, context), maxActive)

-----------------------------------------------------------------------------
(* The summary.  A skill costs `full` with its description, `short` with    *)
(* its name and location alone; the frame of a summary costs something too. *)

FullFrame == 3
ShortFrame == 1

Size(skills, compact) ==
  FoldLeft(LAMBDA sum, s : sum + IF compact THEN s.short ELSE s.full,
           IF compact THEN ShortFrame ELSE FullFrame, skills)

\* The loop that takes the last skill off until the rest fits.
Compact(visible, maxChars) ==
  LET fits == {n \in 1 .. Len(visible) : Size(Prefix(visible, n), TRUE) <= maxChars}
  IN  IF fits = {} THEN <<>> ELSE Prefix(visible, Max(fits))

\* build_summary; no limit of characters is written as 0.
Summary(candidates, maxSkills, maxChars) ==
  LET visible == Prefix(SelectSeq(candidates, LAMBDA s : ~s.hidden), maxSkills)
  IN  IF visible = <<>> THEN [skills |-> <<>>, compact |-> FALSE]
      ELSE IF maxChars = 0 \/ Size(visible, FALSE) <= maxChars
        THEN [skills |-> visible, compact |-> FALSE]
        ELSE [skills |-> Compact(visible, maxChars), compact |-> TRUE]

-----------------------------------------------------------------------------
(* activate_skill.                                                          *)

\* Mutation: a skill that is active stays where it is in the queue.
ActivateOnce(active, name, maxActive) ==
  IF name \in ToSet(active) THEN active
  ELSE LET all == Append(active, name)
       IN  IF maxActive > 0 /\ Len(all) > maxActive THEN Tail(all) ELSE all

\* The name moves to the back, and the oldest one over the limit is released.
Activate(active, name, maxActive) ==
  LET all == Append(SelectSeq(active, LAMBDA n : n # name), name)
  IN  IF maxActive > 0 /\ Len(all) > maxActive THEN Tail(all) ELSE all

ActivateAll(names, maxActive) ==
  FoldLeft(LAMBDA active, name : Activate(active, name, maxActive), <<>>, names)

-----------------------------------------------------------------------------
(* The active skills after any activations are the ones activated last, in  *)
(* the order of their latest activation, as many as may be (lines 73-84).   *)
ActiveExact(names, maxActive) ==
  LET latest == {i \in DOMAIN names : \A j \in DOMAIN names :
                   j > i => names[j] # names[i]}
      recent == {i \in latest : maxActive = 0
                   \/ Cardinality({j \in latest : j > i}) < maxActive}
      active == ActivateAll(names, maxActive)
  IN  /\ Len(active) = Cardinality(recent)
      /\ \A i \in recent :
           active[Cardinality({j \in recent : j <= i})] = names[i]

(* A skill of which the user says one word more does not fall behind the     *)
(* others for it, unless the word is one of theirs or of a description,     *)
(* whose score has two levels (skill_match.rs, lines 214-340).              *)
MentionHelps(skills, context, term) ==
  LET more   == [context EXCEPT !.user = @ \cup {term}]
      says   == {s \in skills : term \in {s.name} \cup s.keywords \cup s.triggers \cup s.extensions}
      describes == {s \in skills : term \in {s.description} \cup s.words}
      Place(s, c) == {i \in DOMAIN Ranked(skills, c) : Ranked(skills, c)[i] = s}
  IN  \A s \in says :
        says = {s} /\ describes = {} /\ ~s.hidden =>
          /\ Cardinality(Place(s, more)) = 1
          /\ \A i \in Place(s, context), j \in Place(s, more) : j <= i

(* A summary never exceeds its limit; it shows the best candidates and      *)
(* leaves none out that would have fitted beside those it shows; and it     *)
(* gives up the descriptions only when they do not fit (skill.rs, lines     *)
(* 268-301).                                                                *)
SummaryFits(candidates, maxSkills, maxChars) ==
  LET shown == Summary(candidates, maxSkills, maxChars)
      open  == SelectSeq(candidates, LAMBDA s : ~s.hidden)
      most  == Prefix(open, maxSkills)
  IN  /\ IsPrefix(shown.skills, most)
      /\ maxChars > 0 /\ shown.skills # <<>> =>
           Size(shown.skills, shown.compact) <= maxChars
      /\ shown.compact => Size(most, FALSE) > maxChars
      /\ Len(shown.skills) < Len(most) =>
           Size(Prefix(most, Len(shown.skills) + 1), TRUE) > maxChars
=============================================================================
