--------------------------- MODULE AgentPackProofs ---------------------------
(***************************************************************************)
(* AgentPack for any names, contents, sizes and number of edits: what a load *)
(* of an edited pack can let in, what a load of an unedited one comes to, and *)
(* what is read of AGENTS.md.                                                *)
(***************************************************************************)
EXTENDS AgentPack, FiniteSetTheorems, SequenceTheorems, WellFoundedInduction, TLAPS

-----------------------------------------------------------------------------
(* Names and skills.                                                         *)

Distinct(t) == \A i, j \in DOMAIN t : t[i] = t[j] => i = j

\* readdir names everything that is there, once.
LEMMA Listings ==
  ASSUME NEW S, IsFiniteSet(S), NEW t \in SetToSeqs(S)
  PROVE  t \in Seq(S) /\ ToSet(t) = S /\ Distinct(t)
<1> DEFINE n == Cardinality(S)
<1>1. n \in Nat
  BY FS_CardinalityType
<1>2. IsFiniteSet(1..n) /\ Cardinality(1..n) = n
  BY <1>1, FS_Interval
<1>3. /\ t \in [1..n -> S]
      /\ \A i, j \in 1..n : i # j => t[i] # t[j]
  BY DEF SetToSeqs
<1> HIDE DEF n
<1>4. t \in Injection(1..n, S)
  <2>1. DOMAIN t = 1..n
    BY <1>3
  <2>2. QED
    BY <1>3, <2>1 DEF Injection, IsInjective
<1>5. t \in Surjection(1..n, S)
  BY <1>2, <1>4, FS_Injection DEF n
<1>6. t \in Seq(S)
  BY <1>1, <1>3
<1>7. ToSet(t) = S
  BY <1>3, <1>5 DEF ToSet, Surjection
<1>8. Distinct(t)
  BY <1>3 DEF Distinct
<1>9. QED
  BY <1>6, <1>7, <1>8

LEMMA Taking ==
  ASSUME NEW S, NEW t \in Seq(S), t # <<>>
  PROVE  /\ Head(t) \in S /\ Tail(t) \in Seq(S)
         /\ ToSet(t) = {Head(t)} \cup ToSet(Tail(t))
<1> DEFINE u == Tail(t)
<1>1. /\ Len(t) \in Nat \ {0} /\ Head(t) = t[1] /\ Head(t) \in S
      /\ u \in Seq(S) /\ Len(u) = Len(t) - 1
      /\ \A i \in 1..Len(u) : u[i] = t[i + 1]
  BY HeadTailProperties, EmptySeq
<1> HIDE DEF u
<1>2. DOMAIN t = 1..Len(t) /\ DOMAIN u = 1..Len(u)
  BY <1>1
<1>3. ASSUME NEW i \in 1..Len(t)
      PROVE  t[i] = t[1] \/ \E j \in 1..Len(u) : t[i] = u[j]
  <2>1. CASE i = 1
    BY <2>1
  <2>2. CASE i # 1
    <3>1. i - 1 \in 1..Len(u) /\ t[i] = u[i - 1]
      BY <1>1, <2>2
    <3>2. QED
      BY <3>1
  <2>3. QED
    BY <2>1, <2>2
<1>4. ASSUME NEW j \in 1..Len(u)
      PROVE  \E i \in 1..Len(t) : u[j] = t[i]
  <2>1. j + 1 \in 1..Len(t) /\ u[j] = t[j + 1]
    BY <1>1
  <2>2. QED
    BY <2>1
<1>5. 1 \in 1..Len(t)
  BY <1>1
<1>6. ToSet(t) = {Head(t)} \cup ToSet(u)
  <2>1. ASSUME NEW x \in ToSet(t)
        PROVE  x = t[1] \/ x \in ToSet(u)
    <3>1. PICK i \in 1..Len(t) : x = t[i]
      BY <1>2 DEF ToSet
    <3>2. QED
      BY <1>2, <1>3, <3>1 DEF ToSet
  <2>2. t[1] \in ToSet(t)
    BY <1>2, <1>5, Zenon DEF ToSet
  <2>3. ToSet(u) \subseteq ToSet(t)
    BY <1>2, <1>4, Zenon DEF ToSet
  <2>4. QED
    BY <1>1, <2>1, <2>2, <2>3
<1>7. QED
  BY <1>1, <1>6 DEF u

LEMMA Adding ==
  ASSUME NEW S, NEW s \in Seq(S), NEW x \in S
  PROVE  /\ Append(s, x) \in Seq(S)
         /\ DOMAIN Append(s, x) = DOMAIN s \cup {Len(s) + 1}
         /\ Len(s) + 1 \notin DOMAIN s /\ Append(s, x)[Len(s) + 1] = x
         /\ \A i \in DOMAIN s : Append(s, x)[i] = s[i]
<1> DEFINE t == Append(s, x)
<1>1. /\ t \in Seq(S) /\ Len(t) = Len(s) + 1 /\ t[Len(s) + 1] = x
      /\ \A i \in 1..Len(s) : t[i] = s[i]
  BY AppendProperties
<1> HIDE DEF t
<1>2. DOMAIN s = 1..Len(s) /\ DOMAIN t = 1..(Len(s) + 1) /\ Len(s) \in Nat
  BY <1>1
<1>3. QED
  BY <1>1, <1>2 DEF t

-----------------------------------------------------------------------------
(* Types.                                                                    *)

Loading == {"category", "measuring", "reading"}
Loaded  == [name : Categories, size : Sizes, content : Sizes]

LEMMA Entry ==
  ASSUME PackTypeOK, NEW c, HasSkill(c)
  PROVE  /\ c \in Categories /\ disk.skills[c].size \in Sizes
         /\ c \in Present /\ c \in Skills
<1>1. c \in Categories /\ disk.skills # None /\ disk.skills[c].size # None
      /\ c \in Present /\ c \in Skills
  BY DEF HasSkill, Present, Skills
<1>2. disk.skills \in [Categories -> Entries]
  BY <1>1 DEF PackTypeOK, Disks, Packs
<1>3. disk.skills[c].size \in Sizes
  BY <1>1, <1>2, PackAssumption DEF Entries
<1>4. QED
  BY <1>1, <1>3, PackAssumption

LEMMA Bounds ==
  MaxSkillSize \in Nat /\ MaxEdits \in Nat /\ Categories \subseteq Nat
BY PackAssumption

LEMMA ADirectory ==
  ASSUME PackTypeOK, disk.agents # None \/ disk.skills # None
  PROVE  disk.is = "directory"
BY DEF PackTypeOK, Disks, Packs

LEMMA Waits ==
  \A rest : /\ Looping(rest) \in {"category", "loaded"}
            /\ Looping(rest) = "category" <=> rest # <<>>
BY DEF Looping

LEMMA FinitePresent == IsFiniteSet(Present) /\ Present \subseteq Categories
BY PackAssumption, FS_Subset DEF Present

LEMMA Errors == \A code \in Codes : code # None
BY PackAssumption

LEMMA TypesStart ==
  ASSUME Init
  PROVE  PackTypeOK
<1>1. 0 \in 0..MaxEdits /\ 0 \in Sizes
  BY PackAssumption DEF Sizes
<1>2. <<>> \in Seq(Categories) /\ <<>> \in Seq(Loaded)
  BY EmptySeq
<1>3. None \notin Codes
  BY PackAssumption
<1>4. QED
  BY <1>1, <1>2, <1>3 DEF Init, PackTypeOK, Loaded

LEMMA TypesKept ==
  ASSUME PackTypeOK, [Next]_vars
  PROVE  PackTypeOK'
<1>1. ASSUME NEW code \in Codes, Fails(code)
      PROVE  PackTypeOK'
  BY <1>1, PackAssumption DEF Fails, Goes, PackTypeOK
<1>2. /\ {"PACK_NOT_FOUND", "VALIDATION_ERROR", "SKILL_LOAD_ERROR", "ENOENT", "TOO_LONG"} = Codes
  BY DEF Codes
<1>3. CASE load
  <2>1. CASE disk.agents # None
    <3>1. at = "start" /\ at' = "agents" /\ UNCHANGED <<rules, disk, edits, touched, progress>>
      BY <1>3, <2>1, ADirectory DEF load, Goes
    <3>2. QED
      BY <3>1 DEF progress, PackTypeOK
  <2>2. QED
    BY <1>1, <1>2, <1>3, <2>1 DEF load
<1>4. CASE AgentsRead
  <2>1. CASE disk.agents = None
    BY <1>1, <1>2, <1>4, <2>1 DEF AgentsRead
  <2>2. CASE disk.agents # None
    <3>1. disk.agents \in Docs
      BY <2>2 DEF PackTypeOK, Disks, Packs
    <3>2. identity'.rawContent \in Docs
      BY <1>4, <2>2, <3>1 DEF AgentsRead, parseIdentity
    <3>3. QED
      BY <1>4, <2>2, <3>2 DEF AgentsRead, Goes, PackTypeOK
  <2>3. QED
    BY <2>1, <2>2
<1>5. CASE Listed
  <2>1. CASE disk.skills = None
    BY <1>1, <1>2, <1>5, <2>1 DEF Listed
  <2>2. CASE disk.skills # None
    <3>1. todo' \in Seq(Categories)
      BY <1>5, <2>2, Listings, FinitePresent, SeqMonotonic DEF Listed
    <3>2. /\ at = "listing" /\ at' = Looping(todo')
          /\ UNCHANGED <<rules, disk, edits, touched, error, identity, measured, skills, prompt>>
      BY <1>5, <2>2 DEF Listed, Goes
    <3>3. QED
      BY <3>1, <3>2, Waits DEF PackTypeOK
  <2>3. QED
    BY <2>1, <2>2
<1>6. CASE CategoryLooked
  <2>1. CASE Head(todo) \notin Present
    BY <1>1, <1>2, <1>6, <2>1 DEF CategoryLooked, HasSkill
  <2>2. CASE HasSkill(Head(todo))
    BY <1>6, <2>2 DEF CategoryLooked, Goes, progress, PackTypeOK, HasSkill
  <2>3. CASE Head(todo) \in Present /\ ~HasSkill(Head(todo))
    <3>1. todo' = Tail(todo) /\ Tail(todo) \in Seq(Categories)
      BY <1>6, <2>3, Taking DEF CategoryLooked, PackTypeOK
    <3>2. /\ at = "category" /\ at' = Looping(todo')
          /\ UNCHANGED <<rules, disk, edits, touched, error, identity, measured, skills, prompt>>
      BY <1>6, <2>3 DEF CategoryLooked, Goes, HasSkill
    <3>3. QED
      BY <3>1, <3>2, Waits DEF PackTypeOK
  <2>4. QED
    BY <2>1, <2>2, <2>3
<1>7. CASE SkillMeasured
  <2>1. CASE HasSkill(Head(todo)) /\ validateSkillSize(disk.skills[Head(todo)].size)
    <3>1. measured' \in Sizes
      BY <1>7, <2>1, Entry, PackAssumption DEF SkillMeasured
    <3>2. QED
      BY <1>7, <2>1, <3>1 DEF SkillMeasured, Goes, PackTypeOK
  <2>2. QED
    BY <1>1, <1>2, <1>7, <2>1 DEF SkillMeasured
<1>8. CASE SkillRead
  <2>1. CASE ~HasSkill(Head(todo))
    BY <1>1, <1>2, <1>8, <2>1 DEF SkillRead
  <2>2. CASE HasSkill(Head(todo))
    <3>1. todo' = Tail(todo) /\ Tail(todo) \in Seq(Categories)
      BY <1>8, <2>2, Taking DEF SkillRead, PackTypeOK
    <3>2. /\ at = "reading" /\ at' = Looping(todo')
          /\ UNCHANGED <<rules, disk, edits, touched, error, identity, measured, prompt>>
          /\ skills' = Append(skills, [name |-> Head(todo), size |-> measured,
                                       content |-> disk.skills[Head(todo)].size])
      BY <1>8, <2>2 DEF SkillRead, Goes
    <3>3. measured \in Sizes
      BY <3>2, PackAssumption DEF PackTypeOK
    <3>4. [name |-> Head(todo), size |-> measured,
           content |-> disk.skills[Head(todo)].size] \in Loaded
      BY <2>2, <3>3, Entry DEF Loaded
    <3>5. skills' \in Seq(Loaded)
      BY <3>2, <3>4, Adding DEF PackTypeOK, Loaded
    <3>6. QED
      BY <3>1, <3>2, <3>5, Waits DEF PackTypeOK, Loaded
  <2>3. QED
    BY <2>1, <2>2
<1>9. CASE assemble
  <2>1. CASE LengthOf(skills) > MaxLength
    BY <1>1, <1>2, <1>9, <2>1 DEF assemble
  <2>2. CASE ~(LengthOf(skills) > MaxLength)
    BY <1>9, <2>2 DEF assemble, Goes, PackTypeOK
  <2>3. QED
    BY <2>1, <2>2
<1>10. CASE Edit
  <2>1. edits' \in 0..MaxEdits
    BY <1>10, Bounds DEF Edit, PackTypeOK
  <2>2. QED
    BY <1>10, <2>1 DEF Edit, progress, PackTypeOK
<1>11. CASE UNCHANGED vars
  BY <1>11 DEF vars, progress, PackTypeOK
<1>12. QED
  BY <1>3, <1>4, <1>5, <1>6, <1>7, <1>8, <1>9, <1>10, <1>11 DEF Next, Loads

\* Everything is of its type, and a load waits for a category just while there are
\* names left.
THEOREM PackTyped == Spec => []PackTypeOK
BY TypesStart, TypesKept, PTL DEF Spec

-----------------------------------------------------------------------------
(* The limit on skills.                                                      *)

\* A skill of too many bytes, read or about to be, was edited in its own window.
LimitInv ==
  /\ PackTypeOK /\ LimitHolds
  /\ at = "reading" /\ HasSkill(Head(todo)) /\ disk.skills[Head(todo)].size > MaxSkillSize
       => Head(todo) \in touched

LEMMA LimitKept ==
  ASSUME LimitInv, [Next]_vars
  PROVE  LimitInv'
<1>1. PackTypeOK'
  BY TypesKept DEF LimitInv
<1>2. ASSUME UNCHANGED <<skills, touched>>, at' # "reading"
      PROVE  LimitInv'
  BY <1>1, <1>2 DEF LimitInv, LimitHolds
<1>3. CASE Edit
  <2>1. UNCHANGED <<at, skills, todo>> /\ touched \subseteq touched'
    BY <1>3 DEF Edit, progress
  <2>2. LimitHolds'
    BY <2>1 DEF LimitInv, LimitHolds
  <2>3. ASSUME at = "reading", HasSkill(Head(todo))',
               disk'.skills[Head(todo)].size > MaxSkillSize
        PROVE  Head(todo) \in touched'
    <3>1. Head(todo) \in Categories /\ disk'.skills # None
      BY <2>1, <2>3 DEF HasSkill, Present
    <3>2. disk \in [is : {"directory", "absent", "file"}, agents : Docs \cup {None},
                    skills : [Categories -> Entries] \cup {None}]
      BY DEF LimitInv, PackTypeOK, Disks, Packs
    <3>3. CASE UNCHANGED touched /\ disk'.skills = disk.skills
      <4>1. HasSkill(Head(todo)) /\ disk.skills[Head(todo)].size > MaxSkillSize
        BY <2>1, <2>3, <3>3 DEF HasSkill, Present
      <4>2. QED
        BY <2>3, <3>3, <4>1 DEF LimitInv
    <3>4. ASSUME NEW c \in Categories, NEW entry \in Entries, disk.skills # None,
                 disk' = [disk EXCEPT !.skills[c] = entry],
                 touched' = IF at = "reading" /\ Head(todo) = c THEN touched \cup {c}
                                                                ELSE touched
          PROVE  Head(todo) \in touched'
      <4>1. CASE Head(todo) = c
        BY <2>3, <3>4, <4>1
      <4>2. CASE Head(todo) # c
        <5>1. disk'.skills[Head(todo)] = disk.skills[Head(todo)]
          BY <3>1, <3>2, <3>4, <4>2
        <5>2. HasSkill(Head(todo)) /\ disk.skills[Head(todo)].size > MaxSkillSize
          BY <2>1, <2>3, <3>1, <3>4, <5>1 DEF HasSkill, Present
        <5>3. QED
          BY <2>3, <3>4, <4>2, <5>2 DEF LimitInv
      <4>3. QED
        BY <4>1, <4>2
    <3>5. disk'.skills = None \/ (UNCHANGED touched /\ disk'.skills = disk.skills)
            \/ \E c \in Categories, entry \in Entries :
                 /\ disk.skills # None /\ disk' = [disk EXCEPT !.skills[c] = entry]
                 /\ touched' = IF at = "reading" /\ Head(todo) = c THEN touched \cup {c}
                                                                  ELSE touched
      BY <1>3, <3>2 DEF Edit
    <3>6. QED
      BY <3>1, <3>3, <3>4, <3>5
  <2>4. QED
    BY <1>1, <2>1, <2>2, <2>3 DEF LimitInv
<1>4. CASE load \/ AgentsRead \/ Listed \/ CategoryLooked \/ assemble
  <2>1. UNCHANGED <<skills, touched>> /\ at' # "reading"
    BY <1>4, Waits DEF load, AgentsRead, Listed, CategoryLooked, assemble, Fails, Goes, progress
  <2>2. QED
    BY <1>2, <2>1
<1>5. CASE SkillMeasured
  <2>1. UNCHANGED <<skills, touched, disk, todo>>
    BY <1>5 DEF SkillMeasured, Fails, Goes
  <2>2. ASSUME at' = "reading"
        PROVE  ~(disk.skills[Head(todo)].size > MaxSkillSize)
    <3>1. /\ HasSkill(Head(todo))
          /\ disk.skills[Head(todo)].size <= MaxSkillSize
      BY <1>5, <2>2 DEF SkillMeasured, Fails, Goes, validateSkillSize
    <3>2. disk.skills[Head(todo)].size \in Int /\ MaxSkillSize \in Int
      BY <3>1, Entry, PackAssumption DEF LimitInv, Sizes
    <3>3. QED
      BY <3>1, <3>2
  <2>3. QED
    BY <1>1, <2>1, <2>2 DEF LimitInv, LimitHolds
<1>6. CASE SkillRead
  <2>1. CASE ~HasSkill(Head(todo))
    <3>1. UNCHANGED <<skills, touched>> /\ at' # "reading"
      BY <1>6, <2>1 DEF SkillRead, Fails, Goes
    <3>2. QED
      BY <1>2, <3>1
  <2>2. CASE HasSkill(Head(todo))
    <3> DEFINE skill == [name |-> Head(todo), size |-> measured,
                         content |-> disk.skills[Head(todo)].size]
               next  == Len(skills) + 1
    <3>1. /\ at = "reading" /\ at' # "reading" /\ UNCHANGED touched
          /\ skills' = Append(skills, skill)
      BY <1>6, <2>2, Waits DEF SkillRead, Goes
    <3>2. skills \in Seq(Loaded) /\ skill \in Loaded
      <4>1. measured \in Sizes
        BY DEF LimitInv, PackTypeOK
      <4>2. QED
        BY <2>2, <4>1, Entry DEF LimitInv, PackTypeOK, Loaded
    <3>3. skill.content > MaxSkillSize => skill.name \in touched
      BY <2>2, <3>1 DEF LimitInv
    <3> HIDE DEF skill, next
    <3>4. /\ DOMAIN skills' = DOMAIN skills \cup {next} /\ next \notin DOMAIN skills
          /\ skills'[next] = skill /\ \A i \in DOMAIN skills : skills'[i] = skills[i]
      BY <3>1, <3>2, Adding DEF next
    <3>5. LimitHolds'
      BY <3>1, <3>3, <3>4 DEF LimitInv, LimitHolds
    <3>6. QED
      BY <1>1, <3>1, <3>5 DEF LimitInv
  <2>3. QED
    BY <2>1, <2>2
<1>7. CASE UNCHANGED vars
  BY <1>1, <1>7 DEF vars, progress, LimitInv, LimitHolds, HasSkill, Present
<1>8. QED
  BY <1>3, <1>4, <1>5, <1>6, <1>7 DEF Next, Loads

\* A skill is larger than the limit only if that very skill was edited between its
\* stat and its read (PackLoader.readSkillFile stats and then reads).
THEOREM LimitKeptToEdits == Spec => []LimitHolds
<1>1. Init => LimitInv
  BY TypesStart DEF Init, LimitInv, LimitHolds
<1>2. LimitInv => LimitHolds
  BY DEF LimitInv
<1>3. QED
  BY <1>1, <1>2, LimitKept, PTL DEF Spec

-----------------------------------------------------------------------------
(* A pack nobody edits.                                                      *)

Read == {skills[i].name : i \in DOMAIN skills}

TooLarge == \E c \in Skills : ~(disk.skills[c].size <= MaxSkillSize)

Unedited ==
  edits = 0 =>
    /\ at \in {"start", "agents", "listing"} => todo = <<>> /\ skills = <<>>
    /\ at \notin {"start", "failed"} => validateSync.valid
    /\ at = "listing" => disk.skills # None
    /\ at \in Loading \cup {"loaded", "done"} =>
         /\ Read \subseteq Skills /\ Skills \subseteq Read \cup ToSet(todo)
         /\ ToSet(todo) \subseteq Present
         /\ \A c \in Read : disk.skills[c].size <= MaxSkillSize
    /\ at \in {"measuring", "reading"} => HasSkill(Head(todo))
    /\ at = "reading" => disk.skills[Head(todo)].size <= MaxSkillSize
    /\ at = "done" => ~(LengthOf(skills) > MaxLength)
    /\ at = "failed" => /\ error # "ENOENT"
                        /\ ~validateSync.valid \/ TooLarge \/ LengthOf(skills) > MaxLength

\* A load that fails says why, and why is so.
Explained(code) ==
  code # "ENOENT" /\ (~validateSync.valid \/ TooLarge \/ LengthOf(skills) > MaxLength)

LEMMA FailsExplained ==
  ASSUME edits = 0, NEW code, Fails(code), Explained(code)
  PROVE  Unedited'
<1>1. at' = "failed" /\ error' = code /\ UNCHANGED <<disk, skills>>
  BY DEF Fails, Goes
<1>2. UNCHANGED <<validateSync, LengthOf(skills)>> /\ (TooLarge => TooLarge')
  BY <1>1 DEF validateSync, TooLarge, Skills, HasSkill, Present
<1>3. error' # "ENOENT"
  BY <1>1 DEF Explained
<1>4. (~validateSync.valid \/ TooLarge \/ LengthOf(skills) > MaxLength)'
  BY <1>2 DEF Explained
<1>5. QED
  BY <1>1, <1>3, <1>4 DEF Unedited, Loading

\* The next name is taken off, having been read or passed over.
LEMMA NameDone ==
  ASSUME PackTypeOK, Unedited, edits = 0, at \in Loading, disk' = disk, edits' = edits,
         todo' = Tail(todo), at' = Looping(todo'),
         \/ skills' = skills /\ ~HasSkill(Head(todo))
         \/ /\ Read' = Read \cup {Head(todo)} /\ HasSkill(Head(todo))
            /\ disk.skills[Head(todo)].size <= MaxSkillSize
  PROVE  Unedited'
<1>1. at' \in {"category", "loaded"}
  BY Waits
<1>2. ToSet(todo) = {Head(todo)} \cup ToSet(todo')
  BY Taking DEF PackTypeOK, Loading
<1>3. /\ Read \subseteq Skills /\ Skills \subseteq Read \cup ToSet(todo)
      /\ ToSet(todo) \subseteq Present /\ validateSync.valid
      /\ \A c \in Read : disk.skills[c].size <= MaxSkillSize
  BY DEF Unedited, Loading
<1>4. Skills' = Skills /\ Present' = Present /\ validateSync' = validateSync
  BY DEF Skills, HasSkill, Present, validateSync
<1>5. \/ Read' = Read /\ ~HasSkill(Head(todo))
      \/ /\ Read' = Read \cup {Head(todo)} /\ HasSkill(Head(todo))
         /\ disk.skills[Head(todo)].size <= MaxSkillSize
  BY DEF Read
<1>6. HasSkill(Head(todo)) => Head(todo) \in Skills
  BY Entry
<1>7. Head(todo) \in Skills => HasSkill(Head(todo))
  BY DEF Skills
<1>8. Read' \subseteq Skills' /\ Skills' \subseteq Read' \cup ToSet(todo')
  BY <1>2, <1>3, <1>4, <1>5, <1>6, <1>7 DEF Read
<1>9. /\ ToSet(todo') \subseteq Present'
      /\ \A c \in Read' : disk'.skills[c].size <= MaxSkillSize
  BY <1>2, <1>3, <1>4, <1>5
<1>10. QED
  BY <1>1, <1>3, <1>4, <1>8, <1>9 DEF Unedited

LEMMA UneditedKept ==
  ASSUME PackTypeOK, Unedited, [Next]_vars
  PROVE  Unedited'
<1>1. CASE Edit
  <2>1. edits' # 0
    BY <1>1, PackAssumption DEF Edit, PackTypeOK
  <2>2. QED
    BY <2>1 DEF Unedited
<1>2. CASE edits # 0 /\ Loads
  <2>1. edits' = edits
    BY <1>2 DEF Loads, load, AgentsRead, Listed, CategoryLooked, SkillMeasured, SkillRead,
                assemble, Fails, Goes
  <2>2. QED
    BY <1>2, <2>1 DEF Unedited
<1>3. CASE edits = 0 /\ load
  <2>1. CASE disk.agents # None
    <3>1. /\ at = "start" /\ at' = "agents" /\ UNCHANGED <<disk, edits, progress>>
      BY <1>3, <2>1, ADirectory DEF load, Goes
    <3>2. disk.is = "directory"
      BY <2>1, ADirectory
    <3>3. QED
      BY <1>3, <2>1, <3>1, <3>2 DEF Unedited, progress, validateSync, Loading
  <2>2. CASE disk.agents = None
    <3>1. PICK code \in {"PACK_NOT_FOUND", "VALIDATION_ERROR"} : Fails(code)
      BY <1>3, <2>2 DEF load
    <3>2. Explained(code)
      BY <2>2 DEF Explained, validateSync
    <3>3. QED
      BY <1>3, <3>1, <3>2, FailsExplained
  <2>3. QED
    BY <2>1, <2>2
<1>4. CASE edits = 0 /\ AgentsRead
  <2>1. /\ at = "agents" /\ validateSync.valid /\ todo = <<>> /\ skills = <<>>
        /\ disk.agents # None
    BY <1>4 DEF AgentsRead, Unedited, validateSync
  <2>2. /\ at' = IF disk.skills = None THEN "loaded" ELSE "listing"
        /\ UNCHANGED <<disk, edits, todo, skills>>
    BY <1>4, <2>1 DEF AgentsRead, Goes
  <2>3. disk.skills = None => Skills = {}
    BY DEF Skills, HasSkill, Present
  <2>4. Read = {} /\ ToSet(todo) = {}
    BY <2>1 DEF Read, ToSet
  <2>5. UNCHANGED <<Skills, Present, validateSync, Read, ToSet(todo)>>
    BY <2>2 DEF Skills, HasSkill, Present, validateSync, Read
  <2>6. QED
    BY <2>1, <2>2, <2>3, <2>4, <2>5 DEF Unedited, Loading
<1>5. CASE edits = 0 /\ Listed
  <2>1. /\ at = "listing" /\ validateSync.valid /\ todo = <<>> /\ skills = <<>>
        /\ disk.skills # None
    BY <1>5 DEF Listed, Unedited
  <2>2. /\ todo' \in SetToSeqs(Present) /\ at' = Looping(todo')
        /\ UNCHANGED <<disk, edits, skills>>
    BY <1>5, <2>1 DEF Listed, Goes
  <2>3. ToSet(todo') = Present /\ at' \in {"category", "loaded"}
    BY <2>2, Listings, FinitePresent, Waits
  <2>4. Read = {} /\ Skills \subseteq Present
    BY <2>1 DEF Read, Skills, HasSkill
  <2>5. UNCHANGED <<Skills, Present, validateSync, Read>>
    BY <2>2 DEF Skills, HasSkill, Present, validateSync, Read
  <2>6. QED
    BY <2>1, <2>3, <2>4, <2>5 DEF Unedited
<1>6. CASE edits = 0 /\ CategoryLooked
  <2>1. Head(todo) \in Present
    BY <1>6, Taking DEF CategoryLooked, Unedited, Loading, PackTypeOK
  <2>2. CASE HasSkill(Head(todo))
    <3>1. /\ at = "category" /\ at' = "measuring" /\ UNCHANGED <<disk, edits, progress>>
      BY <1>6, <2>1, <2>2 DEF CategoryLooked, Goes
    <3>2. UNCHANGED <<Skills, Present, validateSync, Read>> /\ HasSkill(Head(todo))'
      BY <2>2, <3>1 DEF Skills, HasSkill, Present, validateSync, Read, progress
    <3>3. QED
      BY <1>6, <3>1, <3>2 DEF Unedited, Loading, progress
  <2>3. CASE ~HasSkill(Head(todo))
    BY <1>6, <2>1, <2>3, NameDone DEF CategoryLooked, Goes, Loading
  <2>4. QED
    BY <2>2, <2>3
<1>7. CASE edits = 0 /\ SkillMeasured
  <2>1. HasSkill(Head(todo)) /\ at = "measuring"
    BY <1>7 DEF SkillMeasured, Unedited
  <2>2. CASE disk.skills[Head(todo)].size <= MaxSkillSize
    <3>1. at' = "reading" /\ UNCHANGED <<disk, edits, todo, skills>>
      BY <1>7, <2>1, <2>2 DEF SkillMeasured, Goes, validateSkillSize
    <3>2. UNCHANGED <<Skills, Present, validateSync, Read>> /\ HasSkill(Head(todo))'
      BY <2>1, <3>1 DEF Skills, HasSkill, Present, validateSync, Read
    <3>3. QED
      BY <1>7, <2>1, <2>2, <3>1, <3>2 DEF Unedited, Loading
  <2>3. CASE ~(disk.skills[Head(todo)].size <= MaxSkillSize)
    <3>1. Fails("SKILL_LOAD_ERROR")
      BY <1>7, <2>1, <2>3 DEF SkillMeasured, validateSkillSize
    <3>2. Head(todo) \in Skills
      BY <2>1, Entry
    <3>3. Explained("SKILL_LOAD_ERROR")
      BY <2>3, <3>2 DEF Explained, TooLarge
    <3>4. QED
      BY <1>7, <3>1, <3>3, FailsExplained
  <2>4. QED
    BY <2>2, <2>3
<1>8. CASE edits = 0 /\ SkillRead
  <2>1. /\ HasSkill(Head(todo)) /\ at = "reading"
        /\ disk.skills[Head(todo)].size <= MaxSkillSize
    BY <1>8 DEF SkillRead, Unedited
  <2> DEFINE skill == [name |-> Head(todo), size |-> measured,
                       content |-> disk.skills[Head(todo)].size]
             next  == Len(skills) + 1
  <2>2. /\ skills' = Append(skills, skill) /\ todo' = Tail(todo) /\ at' = Looping(todo')
        /\ UNCHANGED <<disk, edits>>
    BY <1>8, <2>1 DEF SkillRead, Goes
  <2>3. skills \in Seq(Loaded) /\ skill \in Loaded
    <3>1. measured \in Sizes
      BY <2>1, PackAssumption DEF PackTypeOK
    <3>2. QED
      BY <2>1, <3>1, Entry DEF PackTypeOK, Loaded
  <2>4. skill.name = Head(todo)
    OBVIOUS
  <2> HIDE DEF skill, next
  <2>5. /\ DOMAIN skills' = DOMAIN skills \cup {next} /\ next \notin DOMAIN skills
        /\ skills'[next] = skill /\ \A i \in DOMAIN skills : skills'[i] = skills[i]
    BY <2>2, <2>3, Adding DEF next
  <2>6. Read' = Read \cup {Head(todo)}
    BY <2>4, <2>5 DEF Read
  <2>7. QED
    BY <1>8, <2>1, <2>2, <2>6, NameDone DEF Loading
<1>9. CASE edits = 0 /\ assemble
  <2>1. CASE LengthOf(skills) > MaxLength
    <3>1. Fails("TOO_LONG") /\ Explained("TOO_LONG")
      BY <1>9, <2>1 DEF assemble, Explained
    <3>2. QED
      BY <1>9, <3>1, FailsExplained
  <2>2. CASE ~(LengthOf(skills) > MaxLength)
    <3>1. /\ at = "loaded" /\ at' = "done" /\ UNCHANGED <<disk, edits, todo, skills>>
      BY <1>9, <2>2 DEF assemble, Goes
    <3>2. UNCHANGED <<Skills, Present, validateSync, Read, LengthOf(skills)>>
      BY <3>1 DEF Skills, HasSkill, Present, validateSync, Read
    <3>3. QED
      BY <1>9, <2>2, <3>1, <3>2 DEF Unedited, Loading
  <2>3. QED
    BY <2>1, <2>2
<1>10. CASE UNCHANGED vars
  BY <1>10 DEF vars, progress, Unedited, Skills, HasSkill, Present, validateSync, Read,
               TooLarge
<1>11. QED
  BY <1>1, <1>2, <1>3, <1>4, <1>5, <1>6, <1>7, <1>8, <1>9, <1>10 DEF Next, Loads

\* A pack nobody edits while it is loaded is loaded just when the validator accepts it,
\* no skill is too large and the prompt is not too long, then with all its skills, and
\* a failure is one of the pack's errors, not one of the disk's.
THEOREM UneditedLoads == Spec => []UneditedOutcome
<1>1. Init => PackTypeOK /\ Unedited
  <2> SUFFICES ASSUME Init  PROVE Unedited
    BY TypesStart
  <2>1. QED
    BY DEF Init, Unedited, Loading
<1>2. PackTypeOK /\ Unedited /\ [Next]_vars => PackTypeOK' /\ Unedited'
  BY TypesKept, UneditedKept
<1>3. PackTypeOK /\ Unedited => UneditedOutcome
  <2> SUFFICES ASSUME PackTypeOK, Unedited, edits = 0, Over
               PROVE  /\ (at = "done") = (/\ validateSync.valid
                                          /\ \A c \in Skills :
                                               disk.skills[c].size <= MaxSkillSize
                                          /\ ~(LengthOf(skills) > MaxLength))
                      /\ at = "done" => Read = Skills
                      /\ error # "ENOENT"
    BY DEF UneditedOutcome, Read
  <2>1. CASE at = "done"
    <3>1. todo = <<>> /\ error # "ENOENT"
      BY <2>1 DEF PackTypeOK, Codes
    <3>2. ToSet(todo) = {}
      BY <3>1 DEF ToSet
    <3>3. /\ Read = Skills /\ validateSync.valid /\ ~(LengthOf(skills) > MaxLength)
          /\ \A c \in Skills : disk.skills[c].size <= MaxSkillSize
      BY <2>1, <3>2 DEF Unedited, Loading
    <3>4. QED
      BY <2>1, <3>1, <3>3
  <2>2. CASE at = "failed"
    BY <2>2 DEF Unedited, TooLarge
  <2>3. QED
    BY <2>1, <2>2 DEF Over
<1>4. QED
  BY <1>1, <1>2, <1>3, PTL DEF Spec

-----------------------------------------------------------------------------
(* What is read of AGENTS.md.                                                *)

LEMMA Least ==
  ASSUME NEW S \in SUBSET Nat, S # {}
  PROVE  \E x \in S : \A y \in S : x <= y
<1> DEFINE R == OpToRel(<, Nat)
<1>1. IsWellFoundedOn(R, Nat)
  BY NatLessThanWellFounded
<1>2. \A x, y \in Nat : x < y => <<x, y>> \in R
  BY DEF OpToRel
<1> HIDE DEF R
<1>3. PICK x \in S : \A y \in S : ~(<<y, x>> \in R)
  BY <1>1, WFMin
<1>4. ASSUME NEW y \in S
      PROVE  x <= y
  <2>1. x \in Nat /\ y \in Nat
    OBVIOUS
  <2>2. ~(y < x)
    BY <1>2, <1>3, <2>1, Zenon
  <2>3. QED
    BY <2>1, <2>2
<1>5. QED
  BY <1>4

LEMMA FirstIsLeast ==
  ASSUME NEW S \in SUBSET Nat, S # {}
  PROVE  First(S) \in S /\ \A y \in S : First(S) <= y
BY Least DEF First, Min

LEMMA MaxIsGreatest ==
  ASSUME NEW n \in Nat, NEW S \in SUBSET (0..n), S # {}
  PROVE  Max(S) \in S /\ \A y \in S : Max(S) >= y
<1> DEFINE T == {n - x : x \in S}
<1>1. T \in SUBSET Nat /\ T # {}
  <2>1. \A x \in S : n - x \in Nat
    OBVIOUS
  <2>2. PICK x : x \in S
    OBVIOUS
  <2>3. n - x \in T
    BY <2>2
  <2>4. QED
    BY <2>1, <2>3
<1>2. PICK t \in T : \A y \in T : t <= y
  BY <1>1, Least
<1>3. PICK x \in S : t = n - x
  BY <1>2
<1>4. ASSUME NEW y \in S
      PROVE  x >= y
  <2>1. n - x <= n - y
    BY <1>2, <1>3
  <2>2. QED
    BY <2>1
<1>5. QED
  BY <1>4 DEF Max

\* The last heading before a block, if there is one.
LEMMA LastHead ==
  ASSUME NEW doc \in Seq(Blocks), NEW i \in DOMAIN doc
  PROVE  LET m == HeadOf(doc, i) IN
         /\ m \in 0..(i - 1) /\ (m = 0 \/ doc[m] \in Heads)
         /\ \A j \in 1..(i - 1) : doc[j] \in Heads => j <= m
<1> DEFINE S == {0} \cup {j \in 1..(i - 1) : doc[j] \in Heads}
<1>1. i \in Nat \ {0}
  BY LenProperties
<1>2. S \in SUBSET (0..(i - 1)) /\ S # {} /\ i - 1 \in Nat
  BY <1>1
<1> HIDE DEF S
<1>3. Max(S) \in S /\ \A y \in S : Max(S) >= y
  BY <1>2, MaxIsGreatest
<1>4. Max(S) \in 0..(i - 1) /\ (Max(S) = 0 \/ doc[Max(S)] \in Heads)
  BY <1>2, <1>3 DEF S
<1>5. ASSUME NEW j \in 1..(i - 1), doc[j] \in Heads
      PROVE  j <= Max(S)
  <2>1. j \in S
    BY <1>5 DEF S
  <2>2. QED
    BY <1>3, <1>4, <2>1
<1>6. HeadOf(doc, i) = Max(S)
  BY DEF HeadOf, S
<1>7. QED
  BY <1>4, <1>5, <1>6

\* Of a file without empty sections, a section is what stands under its heading.
LEMMA SectionIsUnder ==
  ASSUME NEW doc \in Seq(Blocks), NEW head \in Heads,
         \A i \in DOMAIN doc : doc[i] \in Heads => i < Len(doc) /\ doc[i + 1] \notin Heads
  PROVE  Section(doc, head) =
           {i \in DOMAIN doc : /\ doc[i] \notin Heads
                               /\ HeadOf(doc, i) > 0
                               /\ HeadOf(doc, i) = First(Of(doc, head))}
<1> DEFINE S == Of(doc, head)
           h == First(S)
<1>1. DOMAIN doc = 1..Len(doc) /\ Len(doc) \in Nat
  OBVIOUS
<1>2. S \in SUBSET Nat /\ \A i \in S : i \in DOMAIN doc /\ doc[i] = head
  BY <1>1 DEF Of
<1>3. {i \in S : i < Len(doc)} = S
  BY <1>2
<1>4. Section(doc, head) =
        IF h = 0 THEN {}
        ELSE {i \in (h + 1)..Len(doc) : \A j \in (h + 2)..i : doc[j] \notin Heads}
  BY <1>3 DEF Section
<1>5. CASE S = {}
  <2>1. h = 0
    BY <1>5 DEF First
  <2> HIDE DEF h
  <2>2. QED
    BY <1>4, <2>1 DEF h
<1>6. CASE S # {}
  <2>1. h \in S
    BY <1>2, <1>6, FirstIsLeast
  <2> HIDE DEF h, S
  <2>2. h \in 1..Len(doc) /\ doc[h] \in Heads /\ h < Len(doc) /\ doc[h + 1] \notin Heads
    BY <1>1, <1>2, <2>1
  <2>3. Section(doc, head) =
          {i \in (h + 1)..Len(doc) : \A j \in (h + 2)..i : doc[j] \notin Heads}
    BY <1>4, <2>2
  <2>4. ASSUME NEW i \in 1..Len(doc), i > h, \A j \in (h + 2)..i : doc[j] \notin Heads
        PROVE  doc[i] \notin Heads /\ HeadOf(doc, i) = h
    <3>1. \A j \in (h + 1)..i : doc[j] \notin Heads
      <4> TAKE j \in (h + 1)..i
      <4>1. CASE j = h + 1
        BY <2>2, <4>1
      <4>2. CASE j # h + 1
        BY <2>2, <2>4, <4>2
      <4>3. QED
        BY <4>1, <4>2
    <3>2. i \in (h + 1)..i
      BY <2>2, <2>4
    <3> DEFINE m == HeadOf(doc, i)
    <3>3. /\ m \in 0..(i - 1) /\ (m = 0 \/ doc[m] \in Heads)
          /\ \A j \in 1..(i - 1) : doc[j] \in Heads => j <= m
      BY <1>1, LastHead
    <3> HIDE DEF m
    <3>4. h <= m
      BY <2>2, <2>4, <3>3
    <3>5. ~(m > h)
      BY <2>2, <3>1, <3>3
    <3>6. m = h
      BY <2>2, <3>3, <3>4, <3>5
    <3>7. QED
      BY <3>1, <3>2, <3>6 DEF m
  <2>5. ASSUME NEW i \in 1..Len(doc), doc[i] \notin Heads, HeadOf(doc, i) = h
        PROVE  i > h /\ \A j \in (h + 2)..i : doc[j] \notin Heads
    <3>1. h <= i - 1 /\ \A j \in 1..(i - 1) : doc[j] \in Heads => j <= h
      BY <1>1, <2>5, LastHead
    <3>2. QED
      BY <2>2, <2>5, <3>1
  <2>6. \A i \in 1..Len(doc) :
          (i > h /\ \A j \in (h + 2)..i : doc[j] \notin Heads)
            <=> (doc[i] \notin Heads /\ HeadOf(doc, i) = h)
    BY <2>4, <2>5
  <2>7. \A i : i \in (h + 1)..Len(doc) <=> i \in 1..Len(doc) /\ i > h
    BY <1>1, <2>2
  <2>8. h > 0
    BY <2>2
  <2>9. QED
    BY <1>1, <2>3, <2>6, <2>7, <2>8 DEF h, S
<1>7. QED
  BY <1>5, <1>6

IdentityOK == identity # None => \E doc \in Docs : identity = parseIdentity(doc)

\* If no section of AGENTS.md is empty, stance and rules are what stands under the
\* first heading of that name and under no other: although the regular expressions look
\* for the next heading one character late.
THEOREM SectionsAreRead == Spec => []SectionsRead
<1>1. Init => PackTypeOK /\ IdentityOK
  BY TypesStart DEF Init, IdentityOK
<1>2. ASSUME PackTypeOK, IdentityOK, [Next]_vars
      PROVE  PackTypeOK' /\ IdentityOK'
  <2>1. CASE AgentsRead /\ disk.agents # None
    <3>1. disk.agents \in Docs
      BY <1>2, <2>1 DEF PackTypeOK, Disks, Packs
    <3>2. identity' = parseIdentity(disk.agents)
      BY <2>1 DEF AgentsRead
    <3>3. QED
      BY <1>2, <3>1, <3>2, TypesKept DEF IdentityOK
  <2>2. CASE ~(AgentsRead /\ disk.agents # None)
    <3>1. identity' = identity
      BY <1>2, <2>2 DEF Next, Loads, load, AgentsRead, Listed, CategoryLooked, SkillMeasured,
                        SkillRead, assemble, Edit, Fails, Goes, progress, vars
    <3>2. QED
      BY <1>2, <3>1, TypesKept DEF IdentityOK
  <2>3. QED
    BY <2>1, <2>2
<1>3. ASSUME IdentityOK
      PROVE  SectionsRead
  <2> SUFFICES ASSUME identity # None
               PROVE  SectionsRead
    BY DEF SectionsRead
  <2>1. PICK doc \in Docs : identity = parseIdentity(doc)
    BY <1>3 DEF IdentityOK
  <2>2. doc \in Seq(Blocks)
    BY PackAssumption
  <2>3. /\ identity.rawContent = doc /\ identity.stance = Section(doc, "stance")
        /\ identity.rules = {i \in Section(doc, "rules") : doc[i] = "bullets"}
    BY <2>1 DEF parseIdentity
  <2>4. "stance" \in Heads /\ "rules" \in Heads
    BY DEF Heads
  <2>5. ASSUME \A i \in DOMAIN doc : doc[i] \in Heads =>
                                       i < Len(doc) /\ doc[i + 1] \notin Heads
        PROVE  \A head \in Heads : Section(doc, head) =
                 {i \in DOMAIN doc : /\ doc[i] \notin Heads
                                     /\ HeadOf(doc, i) > 0
                                     /\ HeadOf(doc, i) = First(Of(doc, head))}
    BY <2>2, <2>5, SectionIsUnder
  <2>6. \A T : T \subseteq DOMAIN doc =>
          {i \in T : doc[i] = "bullets"} = T \cap Of(doc, "bullets")
    BY DEF Of
  <2>7. QED
    BY <2>3, <2>4, <2>5, <2>6 DEF SectionsRead
<1>4. QED
  BY <1>1, <1>2, <1>3, PTL DEF Spec

-----------------------------------------------------------------------------
(* The order of the skills.                                                  *)

LEMMA Keys ==
  ASSUME NEW skill \in Loaded
  PROVE  KeyOf(skill) \in Nat
<1>1. skill.size \in Sizes /\ skill.name \in Categories
  BY DEF Loaded
<1>2. \A x \in Sizes : x \in Nat
  BY Bounds DEF Sizes
<1>3. skill.size \in Nat
  BY <1>1, <1>2
<1>4. skill.name \in Nat
  BY <1>1, Bounds
<1>5. QED
  BY <1>3, <1>4 DEF KeyOf

\* An interval from 1 has as many elements as its last.
LEMMA CountTo ==
  ASSUME NEW n \in Nat
  PROVE  IsFiniteSet(1..n) /\ Cardinality(1..n) = n
BY FS_Interval

\* Places tell the skills apart, and what comes before has the smaller one.
LEMMA Places ==
  ASSUME NEW seq \in Seq(Loaded), NEW i \in DOMAIN seq, NEW j \in DOMAIN seq
  PROVE  /\ PlaceOf(seq, i) \in 1..Len(seq)
         /\ Before(seq, i, j) => PlaceOf(seq, i) < PlaceOf(seq, j)
         /\ Before(seq, i, j) \/ Before(seq, j, i) \/ i = j
<1> DEFINE D == DOMAIN seq
           Less == [x \in D |-> {y \in D : Before(seq, y, x)}]
           size == [x \in D |-> Cardinality(Less[x])]
           k == [x \in D |-> KeyOf(seq[x])]
<1>1. D = 1..Len(seq) /\ Len(seq) \in Nat
  BY LenProperties
<1>2. IsFiniteSet(D) /\ Cardinality(D) = Len(seq)
  <2>1. IsFiniteSet(1..Len(seq)) /\ Cardinality(1..Len(seq)) = Len(seq)
    BY <1>1, CountTo
  <2>2. QED
    BY <1>1, <2>1
<1>3. \A x \in D : k[x] \in Nat
  <2>1. \A x \in D : seq[x] \in Loaded
    OBVIOUS
  <2>2. QED
    BY <2>1, Keys
<1>4. \A x, y \in D : Before(seq, x, y) <=> k[x] < k[y] \/ (k[x] = k[y] /\ x < y)
  BY DEF Before
<1>5. \A x \in D : PlaceOf(seq, x) = 1 + size[x]
  BY DEF PlaceOf
<1>6. \A x \in D : Less[x] \in SUBSET D
  OBVIOUS
<1>7. \A x, y \in D : y \in Less[x] <=> k[y] < k[x] \/ (k[y] = k[x] /\ y < x)
  BY <1>4
<1>8. \A x \in D : size[x] = Cardinality(Less[x])
  OBVIOUS
<1>9. i \in D /\ j \in D
  OBVIOUS
<1> HIDE DEF k, D, Less, size
<1>10. \A x \in D : x \notin Less[x] /\ x \in Nat
  BY <1>1, <1>3, <1>7
<1>11. \A x \in D : IsFiniteSet(Less[x]) /\ size[x] \in Nat
  BY <1>2, <1>6, <1>8, FS_Subset, FS_CardinalityType
<1>12. size[i] < Len(seq)
  <2>1. Less[i] \in SUBSET D /\ Less[i] # D
    BY <1>6, <1>9, <1>10
  <2>2. size[i] <= Len(seq) /\ size[i] # Len(seq)
    BY <1>2, <1>8, <1>9, <2>1, FS_Subset
  <2>3. QED
    BY <1>1, <1>9, <1>11, <2>2
<1>13. ASSUME Before(seq, i, j)
       PROVE  size[i] < size[j]
  <2>1. k[i] < k[j] \/ (k[i] = k[j] /\ i < j)
    BY <1>4, <1>9, <1>13
  <2>2. i \in Less[j]
    BY <1>7, <1>9, <2>1
  <2>3. ASSUME NEW x \in D, x \in Less[i]
        PROVE  x \in Less[j]
    <3>1. /\ k[x] \in Nat /\ k[i] \in Nat /\ k[j] \in Nat
          /\ x \in Nat /\ i \in Nat /\ j \in Nat
      BY <1>3, <1>9, <1>10
    <3>2. k[x] < k[i] \/ (k[x] = k[i] /\ x < i)
      BY <1>7, <1>9, <2>3
    <3>3. k[x] < k[j] \/ (k[x] = k[j] /\ x < j)
      BY <2>1, <3>1, <3>2
    <3>4. QED
      BY <1>7, <1>9, <3>3
  <2>4. Less[i] \in SUBSET Less[j] /\ Less[i] # Less[j]
    BY <1>6, <1>9, <1>10, <2>2, <2>3
  <2>5. size[i] <= size[j] /\ size[j] # size[i]
    BY <1>8, <1>9, <1>11, <2>4, FS_Subset
  <2>6. QED
    BY <1>9, <1>11, <2>5
<1>14. Before(seq, i, j) \/ Before(seq, j, i) \/ i = j
  <2>1. k[i] \in Nat /\ k[j] \in Nat /\ i \in Nat /\ j \in Nat
    BY <1>3, <1>9, <1>10
  <2>2. \/ k[i] < k[j] \/ (k[i] = k[j] /\ i < j)
        \/ k[j] < k[i] \/ (k[j] = k[i] /\ j < i)
        \/ i = j
    BY <2>1
  <2>3. QED
    BY <1>4, <1>9, <2>2
<1>15. PlaceOf(seq, i) = 1 + size[i] /\ PlaceOf(seq, j) = 1 + size[j]
       /\ size[i] \in Nat /\ size[j] \in Nat
  BY <1>5, <1>9, <1>11
<1>16. QED
  BY <1>1, <1>12, <1>13, <1>14, <1>15

\* What is shown is the skills in another order, of which each comes before the next.
LEMMA Ordered ==
  ASSUME NEW seq \in Seq(Loaded)
  PROVE  \E f \in [DOMAIN seq -> DOMAIN seq] :
           /\ orderSkills(seq) = [k \in DOMAIN seq |-> seq[f[k]]]
           /\ \A k, l \in DOMAIN seq : k < l => Before(seq, f[k], f[l])
           /\ \A i \in DOMAIN seq : \E k \in DOMAIN seq : f[k] = i
<1> DEFINE D == DOMAIN seq
           p == [i \in D |-> PlaceOf(seq, i)]
           f == [k \in D |-> CHOOSE i \in D : PlaceOf(seq, i) = k]
<1>1. D = 1..Len(seq) /\ Len(seq) \in Nat /\ IsFiniteSet(D)
  BY LenProperties, CountTo
<1>2. \A i \in D : p[i] \in D
  BY <1>1, Places
<1>3. \A i, j \in D : /\ Before(seq, i, j) => p[i] < p[j]
                      /\ Before(seq, i, j) \/ Before(seq, j, i) \/ i = j
  BY Places
<1>4. \A i, j \in D : p[i] = p[j] => i = j
  <2> HIDE DEF p
  <2>1. QED
    BY <1>1, <1>2, <1>3
<1>5. p \in [D -> D]
  BY <1>2
<1>6. \A k \in D : \E i \in D : p[i] = k
  <2> HIDE DEF p, D
  <2>1. p \in Injection(D, D)
    <3>1. DOMAIN p = D
      BY <1>5
    <3>2. QED
      BY <1>4, <1>5, <3>1 DEF Injection, IsInjective
  <2>2. p \in Surjection(D, D)
    BY <1>1, <2>1, FS_Injection
  <2>3. QED
    BY <2>2 DEF Surjection
<1>7. \A k \in D : f[k] \in D /\ p[f[k]] = k
  <2> TAKE k \in D
  <2>1. \E i \in D : PlaceOf(seq, i) = k
    BY <1>6
  <2>2. f[k] = CHOOSE i \in D : PlaceOf(seq, i) = k
    OBVIOUS
  <2> HIDE DEF f
  <2>3. f[k] \in D /\ PlaceOf(seq, f[k]) = k
    BY <2>1, <2>2
  <2>4. QED
    BY <2>3
<1>8. orderSkills(seq) = [k \in D |-> seq[f[k]]] /\ f \in [D -> D]
  <2>1. orderSkills(seq) = [k \in D |-> seq[CHOOSE i \in D : PlaceOf(seq, i) = k]]
    BY DEF orderSkills
  <2>2. \A k \in D : f[k] = CHOOSE i \in D : PlaceOf(seq, i) = k
    OBVIOUS
  <2>3. f \in [D -> D]
    <3>1. f = [k \in D |-> f[k]]
      OBVIOUS
    <3> HIDE DEF f
    <3>2. QED
      BY <1>7, <3>1
  <2> HIDE DEF f
  <2>4. QED
    BY <2>1, <2>2, <2>3, Zenon
<1> HIDE DEF p, f
<1>9. ASSUME NEW k \in D, NEW l \in D, k < l
      PROVE  Before(seq, f[k], f[l])
  <2>1. f[k] \in D /\ f[l] \in D /\ p[f[k]] = k /\ p[f[l]] = l
    BY <1>7
  <2>2. ~(p[f[l]] < p[f[k]]) /\ f[k] # f[l]
    BY <1>1, <1>9, <2>1
  <2>3. QED
    BY <1>3, <2>1, <2>2
<1>10. ASSUME NEW i \in D
       PROVE  \E k \in D : f[k] = i
  <2>1. p[i] \in D /\ p[f[p[i]]] = p[i] /\ f[p[i]] \in D
    BY <1>2, <1>7
  <2>2. QED
    BY <1>4, <2>1
<1>11. QED
  BY <1>8, <1>9, <1>10

-----------------------------------------------------------------------------
(* The prompt.                                                               *)

LEMMA RestDistinct ==
  ASSUME NEW S, NEW t \in Seq(S), t # <<>>, Distinct(t)
  PROVE  Distinct(Tail(t)) /\ Head(t) \notin ToSet(Tail(t))
<1> DEFINE u == Tail(t)
<1>1. /\ Len(t) \in Nat \ {0} /\ Head(t) = t[1]
      /\ u \in Seq(S) /\ Len(u) = Len(t) - 1
      /\ \A i \in 1..Len(u) : u[i] = t[i + 1]
  BY HeadTailProperties, EmptySeq
<1> HIDE DEF u
<1>2. DOMAIN t = 1..Len(t) /\ DOMAIN u = 1..Len(u)
  BY <1>1
<1>3. \A i, j \in 1..Len(t) : t[i] = t[j] => i = j
  BY <1>2 DEF Distinct
<1>4. \A i \in 1..Len(u) : i \in Nat /\ i + 1 \in 1..Len(t) /\ i + 1 # 1
  BY <1>1
<1>5. ASSUME NEW i \in 1..Len(u), NEW j \in 1..Len(u), u[i] = u[j]
      PROVE  i = j
  <2>1. i + 1 = j + 1
    BY <1>1, <1>3, <1>4, <1>5
  <2>2. QED
    BY <1>4, <2>1
<1>6. 1 \in 1..Len(t)
  BY <1>1
<1>7. ASSUME NEW i \in 1..Len(u)
      PROVE  u[i] # t[1]
  BY <1>1, <1>3, <1>4, <1>6
<1>8. t[1] \notin ToSet(u)
  BY <1>2, <1>7, Zenon DEF ToSet
<1>9. QED
  BY <1>1, <1>2, <1>5, <1>8 DEF Distinct, u

LEMMA OneMore ==
  ASSUME NEW skill \in Loaded, skills \in Seq(Loaded), skills' = Append(skills, skill),
         \A i, j \in DOMAIN skills : skills[i].name = skills[j].name => i = j,
         skill.name \notin Read
  PROVE  /\ \A i, j \in DOMAIN skills' : skills'[i].name = skills'[j].name => i = j
         /\ Read' = Read \cup {skill.name}
<1> DEFINE next == Len(skills) + 1
           was == [i \in DOMAIN skills |-> skills[i].name]
           is == [i \in DOMAIN skills' |-> skills'[i].name]
<1>1. /\ DOMAIN skills' = DOMAIN skills \cup {next} /\ next \notin DOMAIN skills
      /\ skills'[next] = skill /\ \A i \in DOMAIN skills : skills'[i] = skills[i]
  BY Adding
<1>2. /\ \A i \in DOMAIN skills : is[i] = was[i]
      /\ is[next] = skill.name
  BY <1>1
<1>3. /\ Read = {was[i] : i \in DOMAIN skills}
      /\ Read' = {is[i] : i \in DOMAIN skills'}
  BY DEF Read
<1>4. \A i, j \in DOMAIN skills : was[i] = was[j] => i = j
  OBVIOUS
<1>5. ASSUME \A i, j \in DOMAIN skills' : is[i] = is[j] => i = j
      PROVE  \A i, j \in DOMAIN skills' : skills'[i].name = skills'[j].name => i = j
  BY <1>5
<1> HIDE DEF next, was, is
<1>6. \A i, j \in DOMAIN skills' : is[i] = is[j] => i = j
  BY <1>1, <1>2, <1>3, <1>4
<1>7. Read' = Read \cup {skill.name}
  BY <1>1, <1>2, <1>3
<1>8. QED
  BY <1>5, <1>6, <1>7

\* Every name is read once, and the prompt is made of what was read.
PromptInv ==
  /\ PackTypeOK
  /\ \A i, j \in DOMAIN skills : skills[i].name = skills[j].name => i = j
  /\ Distinct(todo) /\ Read \cap ToSet(todo) = {}
  /\ at \in {"start", "agents", "listing"} => skills = <<>>
  /\ at = "done" => prompt = buildFullPrompt

\* The next name is taken off.
LEMMA NameTaken ==
  ASSUME PromptInv, at \in Loading
  PROVE  /\ Head(todo) \notin Read /\ Head(todo) \notin ToSet(Tail(todo))
         /\ Distinct(Tail(todo)) /\ ToSet(Tail(todo)) \subseteq ToSet(todo)
<1>1. todo \in Seq(Categories) /\ todo # <<>>
  BY DEF PromptInv, PackTypeOK, Loading
<1>2. ToSet(todo) = {Head(todo)} \cup ToSet(Tail(todo))
  BY <1>1, Taking
<1>3. QED
  BY <1>1, <1>2, RestDistinct DEF PromptInv

LEMMA SamePrompt ==
  ASSUME UNCHANGED <<rules, identity, skills>>
  PROVE  UNCHANGED buildFullPrompt
<1>1. UNCHANGED TotalSize(skills)
  OBVIOUS
<1>2. UNCHANGED orderSkills(skills)
  BY DEF orderSkills, PlaceOf, Before, KeyOf
<1>3. QED
  BY <1>1, <1>2 DEF buildFullPrompt

LEMMA PromptKept ==
  ASSUME PromptInv, [Next]_vars
  PROVE  PromptInv'
<1>1. PackTypeOK'
  BY TypesKept DEF PromptInv
<1>2. ASSUME UNCHANGED <<skills, todo>>, at' \in {"agents", "listing"} => at \in {"start", "agents"},
             at' # "start" \/ at = "start", at' # "done"
      PROVE  PromptInv'
  BY <1>1, <1>2 DEF PromptInv, Distinct, Read
<1>3. ASSUME NEW code, Fails(code)
      PROVE  PromptInv'
  BY <1>2, <1>3 DEF Fails, Goes
<1>4. CASE load
  BY <1>2, <1>3, <1>4 DEF load, Goes, progress
<1>5. CASE AgentsRead
  BY <1>2, <1>3, <1>5 DEF AgentsRead, Goes
<1>6. CASE Listed
  <2>1. CASE disk.skills = None
    BY <1>3, <1>6, <2>1 DEF Listed
  <2>2. CASE disk.skills # None
    <3>1. /\ at = "listing" /\ todo' \in SetToSeqs(Present) /\ at' = Looping(todo')
          /\ skills' = skills
      BY <1>6, <2>2 DEF Listed, Goes
    <3>2. skills = <<>> /\ Read' = {} /\ at' \in {"category", "loaded"}
      BY <3>1, Waits DEF PromptInv, Read
    <3>3. Distinct(todo')
      BY <3>1, Listings, FinitePresent
    <3>4. QED
      BY <1>1, <3>1, <3>2, <3>3 DEF PromptInv
  <2>3. QED
    BY <2>1, <2>2
<1>7. CASE CategoryLooked
  <2>1. CASE Head(todo) \notin Present
    BY <1>3, <1>7, <2>1 DEF CategoryLooked, HasSkill
  <2>2. CASE HasSkill(Head(todo))
    BY <1>2, <1>7, <2>2 DEF CategoryLooked, Goes, progress, HasSkill
  <2>3. CASE Head(todo) \in Present /\ ~HasSkill(Head(todo))
    <3>1. /\ at = "category" /\ todo' = Tail(todo) /\ at' = Looping(todo')
          /\ skills' = skills
      BY <1>7, <2>3 DEF CategoryLooked, Goes
    <3>2. at' \in {"category", "loaded"}
      BY <3>1, Waits
    <3>3. Distinct(todo') /\ ToSet(todo') \subseteq ToSet(todo) /\ Read' = Read
      BY <3>1, NameTaken DEF Loading, Read
    <3>4. QED
      BY <1>1, <3>1, <3>2, <3>3 DEF PromptInv
  <2>4. QED
    BY <2>1, <2>2, <2>3
<1>8. CASE SkillMeasured
  BY <1>2, <1>3, <1>8 DEF SkillMeasured, Goes
<1>9. CASE SkillRead
  <2>1. CASE ~HasSkill(Head(todo))
    BY <1>3, <1>9, <2>1 DEF SkillRead
  <2>2. CASE HasSkill(Head(todo))
    <3> DEFINE skill == [name |-> Head(todo), size |-> measured,
                         content |-> disk.skills[Head(todo)].size]
    <3>1. /\ at = "reading" /\ todo' = Tail(todo) /\ at' = Looping(todo')
          /\ skills' = Append(skills, skill)
      BY <1>9, <2>2 DEF SkillRead, Goes
    <3>2. at' \in {"category", "loaded"}
      BY <3>1, Waits
    <3>3. skills \in Seq(Loaded) /\ skill \in Loaded /\ skill.name = Head(todo)
      <4>1. measured \in Sizes
        BY <3>1, PackAssumption DEF PromptInv, PackTypeOK
      <4>2. QED
        BY <2>2, <4>1, Entry DEF PromptInv, PackTypeOK, Loaded
    <3> HIDE DEF skill
    <3>4. /\ Head(todo) \notin Read /\ Head(todo) \notin ToSet(todo')
          /\ Distinct(todo') /\ ToSet(todo') \subseteq ToSet(todo)
      BY <3>1, NameTaken DEF Loading
    <3>5. /\ \A i, j \in DOMAIN skills' : skills'[i].name = skills'[j].name => i = j
          /\ Read' = Read \cup {Head(todo)}
      BY <3>1, <3>3, <3>4, OneMore DEF PromptInv
    <3>6. Read' \cap ToSet(todo') = {}
      BY <3>4, <3>5 DEF PromptInv
    <3>7. QED
      BY <1>1, <3>2, <3>4, <3>5, <3>6 DEF PromptInv
  <2>3. QED
    BY <2>1, <2>2
<1>10. CASE assemble
  <2>1. CASE LengthOf(skills) > MaxLength
    BY <1>3, <1>10, <2>1 DEF assemble
  <2>2. CASE ~(LengthOf(skills) > MaxLength)
    <3>1. /\ at' = "done" /\ prompt' = buildFullPrompt
          /\ UNCHANGED <<rules, identity, todo, skills>>
      BY <1>10, <2>2 DEF assemble, Goes
    <3>2. buildFullPrompt' = buildFullPrompt
      BY <3>1, SamePrompt
    <3>3. QED
      BY <1>1, <3>1, <3>2 DEF PromptInv, Distinct, Read
  <2>3. QED
    BY <2>1, <2>2
<1>11. CASE Edit
  <2>1. UNCHANGED <<skills, todo, at>> /\ at # "done"
    BY <1>11 DEF Edit, progress
  <2>2. QED
    BY <1>1, <2>1 DEF PromptInv, Distinct, Read
<1>12. CASE UNCHANGED vars
  <2>1. UNCHANGED <<skills, todo, at, prompt, buildFullPrompt>>
    BY <1>12, SamePrompt DEF vars, progress
  <2>2. QED
    BY <1>1, <2>1 DEF PromptInv, Distinct, Read
<1>13. QED
  BY <1>4, <1>5, <1>6, <1>7, <1>8, <1>9, <1>10, <1>11, <1>12 DEF Next, Loads

LEMMA Second ==
  ASSUME NEW S, NEW a \in S, NEW b \in S, NEW c \in Seq(S)
  PROVE  ((<<a>> \o <<b>>) \o c)[2] = b
<1>1. <<a>> \in Seq(S) /\ <<b>> \in Seq(S) /\ Len(<<a>>) = 1 /\ Len(<<b>>) = 1
  OBVIOUS
<1> DEFINE d == <<a>> \o <<b>>
<1>2. d \in Seq(S) /\ Len(d) = 2 /\ d[2] = b
  BY <1>1, ConcatProperties
<1> HIDE DEF d
<1>3. (d \o c)[2] = d[2]
  <2>1. Len(c) \in Nat
    BY LenProperties
  <2>2. 2 \in 1..(Len(d) + Len(c))
    BY <1>2, <2>1
  <2>3. (d \o c)[2] = IF 2 <= Len(d) THEN d[2] ELSE c[2 - Len(d)]
    BY <1>2, <2>2, ConcatProperties, Zenon
  <2>4. QED
    BY <1>2, <2>3
<1>4. QED
  BY <1>2, <1>3 DEF d

\* The prompt shows every skill that was read, once, in the order of the names or of
\* the sizes, however readdir listed them (SystemPromptAssembler.orderSkills sorts, and
\* skills of one size keep the order of the listing).
THEOREM PromptIsCanonical == Spec => []CanonicalPrompt
<1>1. Init => PromptInv
  <2> SUFFICES ASSUME Init  PROVE PromptInv
    OBVIOUS
  <2>1. skills = <<>> /\ todo = <<>> /\ at = "start"
    BY DEF Init
  <2>2. Distinct(todo) /\ Read = {}
    BY <2>1 DEF Distinct, Read
  <2>3. QED
    BY <2>1, <2>2, TypesStart DEF PromptInv
<1>2. ASSUME PromptInv
      PROVE  CanonicalPrompt
  <2> SUFFICES ASSUME at = "done", skills # <<>>
               PROVE  LET shown == prompt[2].content IN
                      /\ ToSet(shown) = ToSet(skills) /\ Len(shown) = Len(skills)
                      /\ \A i, j \in DOMAIN shown :
                           i < j => IF rules.skillOrdering = "size"
                                      THEN shown[i].size <= shown[j].size
                                      ELSE shown[i].name < shown[j].name
    BY DEF CanonicalPrompt
  <2>1. skills \in Seq(Loaded) /\ prompt = buildFullPrompt
    BY <1>2 DEF PromptInv, PackTypeOK, Loaded
  <2>2. prompt[2].content = orderSkills(skills)
    <3> DEFINE a == [name |-> "identity", content |-> identity]
               b == [name |-> "skills", content |-> orderSkills(skills)]
               m == [name |-> "assembly-rules",
                     content |-> [skillCount |-> Len(skills), totalSize |-> TotalSize(skills)]]
               c == IF rules.includeSkillMetadata THEN <<m>> ELSE <<>>
    <3>1. prompt = (<<a>> \o <<b>>) \o c /\ b.content = orderSkills(skills)
      BY <2>1 DEF buildFullPrompt
    <3>2. c \in Seq({a, b, m})
      <4> HIDE DEF a, b, m
      <4>1. <<m>> \in Seq({a, b, m}) /\ <<>> \in Seq({a, b, m})
        BY EmptySeq
      <4>2. QED
        BY <4>1
    <3> HIDE DEF a, b, c, m
    <3>3. prompt[2] = b
      BY <3>1, <3>2, Second
    <3>4. QED
      BY <3>1, <3>3
  <2> DEFINE D == DOMAIN skills
             shown == orderSkills(skills)
  <2>3. PICK f \in [D -> D] :
          /\ shown = [k \in D |-> skills[f[k]]]
          /\ \A k, l \in D : k < l => Before(skills, f[k], f[l])
          /\ \A i \in D : \E k \in D : f[k] = i
    BY <2>1, Ordered
  <2> HIDE DEF shown
  <2>4. D = 1..Len(skills) /\ Len(skills) \in Nat
    BY <2>1, LenProperties
  <2>5. DOMAIN shown = D /\ Len(shown) = Len(skills)
    BY <2>3, <2>4
  <2>6. ToSet(shown) = ToSet(skills)
    <3>1. \A k \in D : shown[k] = skills[f[k]] /\ f[k] \in D
      BY <2>3
    <3>2. QED
      BY <2>3, <2>5, <3>1, Zenon DEF ToSet
  <2>7. ASSUME NEW i \in D, NEW j \in D, i < j
        PROVE  IF rules.skillOrdering = "size" THEN shown[i].size <= shown[j].size
                                               ELSE shown[i].name < shown[j].name
    <3>1. /\ f[i] \in D /\ f[j] \in D /\ Before(skills, f[i], f[j])
          /\ shown[i] = skills[f[i]] /\ shown[j] = skills[f[j]]
      BY <2>3, <2>7
    <3>2. skills[f[i]] \in Loaded /\ skills[f[j]] \in Loaded
      BY <2>1, <3>1
    <3>3. KeyOf(skills[f[i]]) \in Nat /\ KeyOf(skills[f[j]]) \in Nat
      BY <3>2, Keys
    <3>4. /\ KeyOf(skills[f[i]]) <= KeyOf(skills[f[j]])
          /\ KeyOf(skills[f[i]]) = KeyOf(skills[f[j]]) => f[i] < f[j]
      BY <3>1, <3>3 DEF Before
    <3>5. CASE rules.skillOrdering = "size"
      BY <3>1, <3>4, <3>5 DEF KeyOf
    <3>6. CASE rules.skillOrdering # "size"
      <4>1. f[i] # f[j]
        BY <2>4, <3>1, <3>3 DEF Before
      <4>2. skills[f[i]].name # skills[f[j]].name
        BY <1>2, <3>1, <4>1 DEF PromptInv
      <4>3. KeyOf(skills[f[i]]) = skills[f[i]].name /\ KeyOf(skills[f[j]]) = skills[f[j]].name
        BY <3>6 DEF KeyOf
      <4>4. QED
        BY <3>1, <3>3, <3>4, <3>6, <4>2, <4>3
    <3>7. QED
      BY <3>5, <3>6
  <2>8. QED
    BY <2>2, <2>5, <2>6, <2>7 DEF shown
<1>3. QED
  BY <1>1, <1>2, PromptKept, PTL DEF Spec

=============================================================================
