----------------------------- MODULE AgentPack ------------------------------
(***************************************************************************)
(* What a run does with its agent pack: PackLoader.load reads it from disk,   *)
(* one await after another, while somebody may edit it, and                   *)
(* SystemPromptAssembler makes the system prompt of what was read.  A skill's *)
(* name is its directory's, and so is its category, so that every category    *)
(* has one skill.                                                             *)
(***************************************************************************)
EXTENDS Naturals, SequencesExt, FiniteSetsExt

CONSTANTS
  Docs,         \* bound: contents of AGENTS.md, see Blocks
  Categories,   \* bound: names under .agents/skills, numbered alphabetically
  MaxSkillSize, \* maxSkillSize of the loader; files have up to one byte more
  MaxLength,    \* maxPromptLength of the assembler, counted in skill bytes
  MaxEdits,     \* bound: edits of the pack while it is loaded
  None

VARIABLES
  rules,    \* the assembler's configuration
  disk,     \* the pack path, its AGENTS.md and its skills
  edits,    \* edits so far
  touched,  \* history: skills edited after their stat and before their read
  at,       \* what the load waits for, "done" or "failed"
  error,    \* the code of the error that ended the load
  identity, \* the AgentIdentity
  todo,     \* category directories still to be looked at
  measured, \* size of the skill file at its stat
  skills,   \* the skills read so far
  prompt    \* the sections of the full prompt

progress == <<error, identity, todo, measured, skills, prompt>>
vars == <<rules, disk, edits, touched, at, progress>>

-----------------------------------------------------------------------------
(* AGENTS.md is a sequence of blocks, with an empty line between any two.     *)

Heads  == {"stance", "rules", "other"}   \* ## Stance, ## Rules, ## ...
Blocks == Heads \cup {"title", "text", "bullets"}

\* Indices of the blocks of a kind.
Of(doc, kind) == {i \in DOMAIN doc : doc[i] = kind}
First(S) == IF S = {} THEN 0 ELSE Min(S)

\* Mutant of Section: a section goes on to the end of the file.
SectionToEnd(doc, head) ==
  LET h == First({i \in Of(doc, head) : i < Len(doc)}) IN
  IF h = 0 THEN {} ELSE (h + 1)..Len(doc)

\* The blocks after the first such heading up to the next heading.  The regular
\* expressions take at least one character before they look for "\n##", so the
\* block after the heading always belongs to it.
Section(doc, head) ==
  LET h == First({i \in Of(doc, head) : i < Len(doc)}) IN
  IF h = 0 THEN {}
  ELSE {i \in (h + 1)..Len(doc) : \A j \in (h + 2)..i : doc[j] \notin Heads}

\* description: "#\s+.+\n\n" is greedy, so the last block follows it.
parseIdentity(doc) ==
  [name        |-> First(Of(doc, "title")),
   description |-> IF Len(doc) > 1 /\ doc[1] = "title" THEN Len(doc) ELSE 0,
   stance      |-> Section(doc, "stance"),
   rules       |-> {i \in Section(doc, "rules") : doc[i] = "bullets"},
   rawContent  |-> doc]

-----------------------------------------------------------------------------
(* The disk.  An entry of the skills directory is absent, a file, or a        *)
(* directory, which may have a SKILL.md, of some size.                        *)

Sizes   == 0..(MaxSkillSize + 1)
Entries == [is : {"absent", "file"}, size : {None}]
             \cup [is : {"directory"}, size : Sizes \cup {None}]
Codes   == {"PACK_NOT_FOUND", "VALIDATION_ERROR", "SKILL_LOAD_ERROR", "ENOENT", "TOO_LONG"}
Packs   == [is : {"directory"}, agents : Docs \cup {None},
            skills : [Categories -> Entries] \cup {None}]
Disks   == Packs \cup [is : {"absent", "file"}, agents : {None}, skills : {None}]

\* None is no content of AGENTS.md, no directory, no size and no error.
ASSUME PackAssumption ==
  /\ IsFiniteSet(Categories) /\ Categories \subseteq Nat /\ Docs \subseteq Seq(Blocks)
  /\ MaxSkillSize \in Nat /\ MaxEdits \in Nat
  /\ None \notin Docs \cup [Categories -> Entries] \cup Codes \cup Nat

Present == {c \in Categories : disk.skills # None /\ disk.skills[c].is # "absent"}
HasSkill(c) == c \in Present /\ disk.skills[c].size # None
Skills == {c \in Categories : HasSkill(c)}

\* PackValidator.validateSync of a path that exists.
validateSync == [valid |-> disk.is = "directory" /\ disk.agents # None,
                 warnings |-> IF disk.skills = None THEN {"NO_SKILLS_DIRECTORY"} ELSE {}]

\* Somebody saves, moves or removes something of the pack.
Edit ==
  /\ edits < MaxEdits /\ at \notin {"done", "failed"}
  /\ edits' = edits + 1
  /\ \/ /\ disk' \in [is : {"absent"}, agents : {None}, skills : {None}]
             \cup {[disk EXCEPT !.agents = doc] : doc \in Docs \cup {None}}
             \cup {[disk EXCEPT !.skills = None]}
        /\ UNCHANGED touched
     \/ \E c \in Categories, entry \in Entries :
          /\ disk.skills # None /\ disk' = [disk EXCEPT !.skills[c] = entry]
          /\ touched' = IF at = "reading" /\ Head(todo) = c THEN touched \cup {c}
                                                           ELSE touched
  /\ disk' \in Disks \ {disk}
  /\ UNCHANGED <<rules, at, progress>>

-----------------------------------------------------------------------------
(* PackLoader.                                                                *)

Goes(next) == at' = next /\ UNCHANGED <<rules, disk, edits, touched>>

Fails(code) ==
  /\ Goes("failed") /\ error' = code
  /\ UNCHANGED <<identity, todo, measured, skills, prompt>>

\* existsSync of the pack and of AGENTS.md, then readFile is called.
load ==
  /\ at = "start"
  /\ \/ disk.is = "absent" /\ Fails("PACK_NOT_FOUND")
     \/ disk.is # "absent" /\ disk.agents = None /\ Fails("VALIDATION_ERROR")
     \/ disk.agents # None /\ Goes("agents") /\ UNCHANGED progress

\* AGENTS.md is read and parsed, and readdir of the skills directory is called,
\* if there is one.
AgentsRead ==
  /\ at = "agents"
  /\ \/ disk.agents = None /\ Fails("ENOENT")
     \/ /\ disk.agents # None
        /\ identity' = parseIdentity(disk.agents)
        /\ Goes(IF disk.skills = None THEN "loaded" ELSE "listing")
        /\ UNCHANGED <<error, todo, measured, skills, prompt>>

\* What the loop over the categories waits for.
Looping(rest) == IF rest = <<>> THEN "loaded" ELSE "category"

\* readdir gives the names in any order.
Listed ==
  /\ at = "listing"
  /\ \/ disk.skills = None /\ Fails("ENOENT")
     \/ /\ disk.skills # None
        /\ todo' \in SetToSeqs(Present)
        /\ Goes(Looping(todo'))
        /\ UNCHANGED <<error, identity, measured, skills, prompt>>

\* Mutant of CategoryLooked: a category without SKILL.md is an error.
CategoryStrict ==
  /\ at = "category"
  /\ \/ ~HasSkill(Head(todo)) /\ Fails("ENOENT")
     \/ HasSkill(Head(todo)) /\ Goes("measuring") /\ UNCHANGED progress

\* stat of the category; what is no directory or has no SKILL.md is passed over.
CategoryLooked ==
  LET c == Head(todo) IN
  /\ at = "category"
  /\ \/ c \notin Present /\ Fails("ENOENT")
     \/ HasSkill(c) /\ Goes("measuring") /\ UNCHANGED progress
     \/ /\ c \in Present /\ ~HasSkill(c)
        /\ todo' = Tail(todo)
        /\ Goes(Looping(todo'))
        /\ UNCHANGED <<error, identity, measured, skills, prompt>>

\* Mutant of validateSkillSize: there is no limit.
validateSkillSizeNever(size) == TRUE

validateSkillSize(size) == size <= MaxSkillSize

\* readSkillFile: stat, then readFile; any error is a SkillLoadError.
SkillMeasured ==
  LET c == Head(todo) IN
  /\ at = "measuring"
  /\ IF HasSkill(c) /\ validateSkillSize(disk.skills[c].size)
       THEN /\ measured' = disk.skills[c].size
            /\ Goes("reading")
            /\ UNCHANGED <<error, identity, todo, skills, prompt>>
       ELSE Fails("SKILL_LOAD_ERROR")

SkillRead ==
  LET c == Head(todo) IN
  /\ at = "reading"
  /\ \/ ~HasSkill(c) /\ Fails("SKILL_LOAD_ERROR")
     \/ /\ HasSkill(c)
        /\ skills' = Append(skills, [name |-> c, size |-> measured,
                                     content |-> disk.skills[c].size])
        /\ todo' = Tail(todo)
        /\ Goes(Looping(todo'))
        /\ UNCHANGED <<error, identity, measured, prompt>>

-----------------------------------------------------------------------------
(* SystemPromptAssembler.                                                     *)

\* Mutant of orderSkills: skills come as the directory listed them.
orderSkillsListed(seq) == seq

\* What the skills are compared by.
KeyOf(skill) == IF rules.skillOrdering = "size" THEN skill.size ELSE skill.name

\* Array.prototype.sort is stable: equals stay in the order they came in.
Before(seq, i, j) ==
  KeyOf(seq[i]) < KeyOf(seq[j]) \/ (KeyOf(seq[i]) = KeyOf(seq[j]) /\ i < j)
PlaceOf(seq, i) == 1 + Cardinality({j \in DOMAIN seq : Before(seq, j, i)})

orderSkills(seq) ==
  [k \in DOMAIN seq |-> seq[CHOOSE i \in DOMAIN seq : PlaceOf(seq, i) = k]]

TotalSize(seq) == FoldLeft(LAMBDA sum, skill : sum + skill.size, 0, seq)
LengthOf(seq) == FoldLeft(LAMBDA sum, skill : sum + skill.content, 0, seq)

\* identity, then skills if there are any, then the metadata if it is asked for.
buildFullPrompt ==
  <<[name |-> "identity", content |-> identity]>>
    \o (IF skills = <<>> THEN <<>>
        ELSE <<[name |-> "skills", content |-> orderSkills(skills)]>>)
    \o (IF rules.includeSkillMetadata
          THEN <<[name |-> "assembly-rules",
                  content |-> [skillCount |-> Len(skills), totalSize |-> TotalSize(skills)]]>>
          ELSE <<>>)

assemble ==
  /\ at = "loaded"
  /\ IF LengthOf(skills) > MaxLength
       THEN Fails("TOO_LONG")
       ELSE /\ prompt' = buildFullPrompt
            /\ Goes("done")
            /\ UNCHANGED <<error, identity, todo, measured, skills>>

Init ==
  /\ rules \in [skillOrdering : {"alphabetical", "category", "size"},
                includeSkillMetadata : BOOLEAN]
  /\ disk \in Disks /\ edits = 0 /\ touched = {}
  /\ at = "start" /\ error = None /\ identity = None
  /\ todo = <<>> /\ measured = 0 /\ skills = <<>> /\ prompt = <<>>

Loads == \/ load \/ AgentsRead \/ Listed \/ CategoryLooked
         \/ SkillMeasured \/ SkillRead \/ assemble

Over == at \in {"done", "failed"}

Next == Loads \/ Edit \/ (Over /\ UNCHANGED vars)

Spec == Init /\ [][Next]_vars

-----------------------------------------------------------------------------
PackTypeOK ==
  /\ rules.skillOrdering \in {"alphabetical", "category", "size"}
  /\ disk \in Disks /\ edits \in 0..MaxEdits /\ touched \subseteq Categories
  /\ at \in {"start", "agents", "listing", "category", "measuring", "reading",
             "loaded", "done", "failed"}
  /\ at = "failed" <=> error \in Codes
  /\ error \in Codes \cup {None}
  /\ identity = None \/ identity.rawContent \in Docs
  /\ todo \in Seq(Categories) /\ measured \in Sizes
  /\ skills \in Seq([name : Categories, size : Sizes, content : Sizes])
  /\ at # "failed" => (at \in {"category", "measuring", "reading"} <=> todo # <<>>)

\* A pack nobody edits meanwhile is loaded just when the validator accepts it, no
\* skill is too large and the prompt not too long; it then has all its skills; and
\* the error, if there is one, is one of the pack errors.
UneditedOutcome ==
  edits = 0 /\ Over =>
    /\ (at = "done") = (/\ validateSync.valid
                        /\ \A c \in Skills : disk.skills[c].size <= MaxSkillSize
                        /\ ~(LengthOf(skills) > MaxLength))
    /\ at = "done" => {skills[i].name : i \in DOMAIN skills} = Skills
    /\ error # "ENOENT"

\* A skill is larger than the limit only if it was itself edited between its stat
\* and its read.
LimitHolds ==
  \A i \in DOMAIN skills :
    skills[i].content > MaxSkillSize => skills[i].name \in touched

\* The prompt has every loaded skill once, in an order that does not depend on how
\* the directory was listed, unless skills are ordered by size.
CanonicalPrompt ==
  at = "done" /\ skills # <<>> =>
    LET shown == prompt[2].content IN
    /\ ToSet(shown) = ToSet(skills) /\ Len(shown) = Len(skills)
    /\ \A i, j \in DOMAIN shown :
         i < j => IF rules.skillOrdering = "size" THEN shown[i].size <= shown[j].size
                                                  ELSE shown[i].name < shown[j].name

\* The heading a block stands under.
HeadOf(doc, i) == Max({0} \cup {j \in 1..(i - 1) : doc[j] \in Heads})

\* If no section of AGENTS.md is empty, stance and rules are what stands under the
\* first heading of that name and under no other heading.
SectionsRead ==
  identity # None =>
    LET doc == identity.rawContent
        under(head) == {i \in DOMAIN doc : /\ doc[i] \notin Heads
                                           /\ HeadOf(doc, i) > 0
                                           /\ HeadOf(doc, i) = First(Of(doc, head))}
    IN  (\A i \in DOMAIN doc : doc[i] \in Heads =>
                                 i < Len(doc) /\ doc[i + 1] \notin Heads)
          => /\ identity.stance = under("stance")
             /\ identity.rules = under("rules") \cap Of(doc, "bullets")
=============================================================================
