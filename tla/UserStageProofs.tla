--------------------------- MODULE UserStageProofs ---------------------------
(***************************************************************************)
(* Proofs about the stages of UserStage and the directories stage_prefix   *)
(* gives them, for every set of slots, stage names, users and legacy       *)
(* names.                                                                  *)
(***************************************************************************)
EXTENDS UserStage, TLAPS

\* The slots that hold a user stage.
UserSlots == {s \in Slots : stages[s] # None /\ stages[s].stage_type = "User"}

(***************************************************************************)
(* The inductive strengthening of StagePrefixesDisjoint: the catalog keeps *)
(* one stage per name among the named stages and one user stage per user,  *)
(* and a LegacyInternal stage keeps the name it was saved under by the     *)
(* older version, since no operation of this version makes one.            *)
(***************************************************************************)
IInv ==
    /\ TypeOK
    /\ \A s \in Slots : stages[s] # None /\ stages[s].stage_type = "LegacyInternal"
          => stages[s].stage_name \in LegacyNames
    /\ \A s, t \in Named : s # t => stages[s].stage_name # stages[t].stage_name
    /\ \A s, t \in UserSlots : s # t => stages[s].stage_name # stages[t].stage_name

-----------------------------------------------------------------------------
\* When one directory, as a sequence of path components, is a prefix of
\* another of two or three components.

LEMMA PrefixTwoTwo ==
    ASSUME NEW a, NEW b, NEW c, NEW d
    PROVE  IsPrefix(<<a, b>>, <<c, d>>) <=> (a = c /\ b = d)
BY DEF IsPrefix

LEMMA PrefixTwoThree ==
    ASSUME NEW a, NEW b, NEW c, NEW d, NEW e
    PROVE  IsPrefix(<<a, b>>, <<c, d, e>>) <=> (a = c /\ b = d)
BY DEF IsPrefix

LEMMA PrefixThreeTwo ==
    ASSUME NEW a, NEW b, NEW c, NEW d, NEW e
    PROVE  ~IsPrefix(<<a, b, c>>, <<d, e>>)
BY DEF IsPrefix

LEMMA PrefixThreeThree ==
    ASSUME NEW a, NEW b, NEW c, NEW d, NEW e, NEW f
    PROVE  IsPrefix(<<a, b, c>>, <<d, e, f>>) <=> (a = d /\ b = e /\ c = f)
BY DEF IsPrefix

\* The directory stage_prefix gives each kind of stage that has one.
LEMMA StagePrefixShape ==
    ASSUME NEW st \in StageInfo, st.stage_type # "External"
    PROVE  /\ st.stage_type = "LegacyInternal" => StagePrefix(st) = <<"stage", st.stage_name>>
           /\ st.stage_type = "Internal" => StagePrefix(st) = <<"stage", "internal", st.stage_name>>
           /\ st.stage_type = "User" => StagePrefix(st) = <<"stage", "user", st.stage_name>>
BY DEF StagePrefix, StageInfo, StageTypes

(* Under the hypothesis, two stages that each hold a directory hold        *)
(* disjoint ones when the catalog keeps names and users unique.            *)
LEMMA IInvDisjoint ==
    ASSUME "internal" \notin LegacyNames, "user" \notin LegacyNames, IInv
    PROVE  StagePrefixesDisjoint
<1> SUFFICES ASSUME NEW s \in Slots, NEW t \in Slots, s # t,
                    stages[s] # None, stages[t] # None,
                    stages[s].stage_type # "External", stages[t].stage_type # "External"
             PROVE  ~IsPrefix(StagePrefix(stages[s]), StagePrefix(stages[t]))
  BY DEF StagePrefixesDisjoint
<1>1. stages[s] \in StageInfo /\ stages[t] \in StageInfo
  BY DEF IInv, TypeOK
<1> DEFINE x == stages[s].stage_name
           y == stages[t].stage_name
<1>2. CASE stages[s].stage_type # "User" /\ stages[t].stage_type # "User"
  <2>1. x # y
    BY <1>2 DEF IInv, Named
  <2>2. x \in LegacyNames => x \notin {"internal", "user"}
    OBVIOUS
  <2>3. stages[s].stage_type = "LegacyInternal" => x \in LegacyNames
    BY DEF IInv
  <2>4. stages[t].stage_type = "LegacyInternal" => y \in LegacyNames
    BY DEF IInv
  <2>. QED
    BY <1>1, <1>2, <2>1, <2>2, <2>3, <2>4, StagePrefixShape, PrefixTwoTwo,
       PrefixTwoThree, PrefixThreeTwo, PrefixThreeThree DEF StageInfo, StageTypes
<1>3. CASE stages[s].stage_type = "User" /\ stages[t].stage_type = "User"
  <2>1. x # y
    BY <1>3 DEF IInv, UserSlots
  <2>. QED
    BY <1>1, <1>3, <2>1, StagePrefixShape, PrefixThreeThree
<1>4. CASE stages[s].stage_type = "User" /\ stages[t].stage_type # "User"
  <2>1. stages[t].stage_type = "LegacyInternal" => y \in LegacyNames
    BY DEF IInv
  <2>. QED
    BY <1>1, <1>4, <2>1, StagePrefixShape, PrefixThreeTwo, PrefixThreeThree
       DEF StageInfo, StageTypes
<1>5. CASE stages[s].stage_type # "User" /\ stages[t].stage_type = "User"
  <2>1. stages[s].stage_type = "LegacyInternal" => x \in LegacyNames
    BY DEF IInv
  <2>. QED
    BY <1>1, <1>5, <2>1, StagePrefixShape, PrefixTwoThree, PrefixThreeThree
       DEF StageInfo, StageTypes
<1>. QED
  BY <1>2, <1>3, <1>4, <1>5

-----------------------------------------------------------------------------
\* The catalog an upgrade leaves behind satisfies the invariant.
LEMMA InitIInv == Init => IInv
<1> SUFFICES ASSUME NEW legacy \in SUBSET Slots, NEW names \in [legacy -> LegacyNames],
                    \A s, t \in legacy : s # t => names[s] # names[t],
                    stages = [s \in Slots |-> IF s \in legacy
                                THEN [stage_name |-> names[s], stage_type |-> "LegacyInternal"]
                                ELSE None]
             PROVE  IInv
  BY DEF Init
<1>1. TypeOK
  BY DEF TypeOK, StageInfo, StageTypes
<1>2. Named = legacy /\ UserSlots = {}
  BY NoneAssumption DEF Named, UserSlots, StageInfo, StageTypes
<1>. QED
  BY <1>1, <1>2 DEF IInv

\* Creating a stage in a free slot adds it to the named or the user slots,
\* under a name the guard checked is not in use.
LEMMA CreateNamedIInv ==
    ASSUME IInv, NEW s \in Slots, NEW name \in StageNames,
           \/ CreateInternalStage(s, name)
           \/ CreateExternalStage(s, name)
    PROVE  IInv'
<1> DEFINE st == stages'[s]
<1>1. st \in StageInfo /\ st.stage_type \in {"Internal", "External"} /\ st.stage_name = name
  BY DEF CreateInternalStage, CreateExternalStage, NewInternalStage, NewExternalStage,
         StageInfo, StageTypes, IInv, TypeOK
<1>2. stages' = [stages EXCEPT ![s] = st] /\ stages[s] = None /\ name \notin NamesInUse
  BY DEF CreateInternalStage, CreateExternalStage
<1>3. TypeOK'
  BY <1>1, <1>2 DEF IInv, TypeOK
<1>4. Named' = Named \cup {s} /\ UserSlots' = UserSlots
  BY <1>1, <1>2, NoneAssumption DEF Named, UserSlots, IInv, TypeOK
<1>5. \A t \in Named : t # s /\ stages[t].stage_name # name
  BY <1>2 DEF NamesInUse, Named
<1>6. \A t \in Slots : t # s => stages'[t] = stages[t]
  BY <1>2 DEF IInv, TypeOK
<1>7. \A t \in Slots : stages'[t] # None /\ stages'[t].stage_type = "LegacyInternal"
         => stages'[t].stage_name \in LegacyNames
  BY <1>1, <1>6 DEF IInv
<1>8. \A t, u \in Named' : t # u => stages'[t].stage_name # stages'[u].stage_name
  BY <1>1, <1>4, <1>5, <1>6 DEF IInv, Named
<1>9. \A t, u \in UserSlots' : t # u => stages'[t].stage_name # stages'[u].stage_name
  <2>1. s \notin UserSlots
    BY <1>2 DEF UserSlots
  <2>. QED
    BY <1>4, <1>6, <2>1 DEF IInv, UserSlots
<1>. QED
  BY <1>3, <1>7, <1>8, <1>9 DEF IInv

LEMMA CreateUserIInv ==
    ASSUME IInv, NEW s \in Slots, NEW user \in UserNames, CreateUserStage(s, user)
    PROVE  IInv'
<1> DEFINE st == stages'[s]
<1>1. st = NewUserStage(user) /\ st \in StageInfo
  BY DEF CreateUserStage, NewUserStage, StageInfo, StageTypes, IInv, TypeOK
<1>2. stages' = [stages EXCEPT ![s] = st] /\ stages[s] = None /\ user \notin UsersWithStage
  BY DEF CreateUserStage
<1>3. TypeOK'
  BY <1>1, <1>2 DEF IInv, TypeOK
<1>4. Named' = Named /\ UserSlots' = UserSlots \cup {s}
  BY <1>1, <1>2, NoneAssumption DEF Named, UserSlots, NewUserStage, IInv, TypeOK
<1>5. \A t \in UserSlots : t # s /\ stages[t].stage_name # user
  BY <1>2 DEF UsersWithStage, UserSlots
<1>6. \A t \in Slots : t # s => stages'[t] = stages[t]
  BY <1>2 DEF IInv, TypeOK
<1>7. \A t \in Slots : stages'[t] # None /\ stages'[t].stage_type = "LegacyInternal"
         => stages'[t].stage_name \in LegacyNames
  BY <1>1, <1>6 DEF IInv, NewUserStage
<1>8. \A t, u \in Named' : t # u => stages'[t].stage_name # stages'[u].stage_name
  <2>1. s \notin Named
    BY <1>2 DEF Named
  <2>. QED
    BY <1>4, <1>6, <2>1 DEF IInv, Named
<1>9. \A t, u \in UserSlots' : t # u => stages'[t].stage_name # stages'[u].stage_name
  <2>1. stages'[s].stage_name = user
    BY <1>1 DEF NewUserStage
  <2>. QED
    BY <1>4, <1>5, <1>6, <2>1 DEF IInv, UserSlots
<1>. QED
  BY <1>3, <1>7, <1>8, <1>9 DEF IInv

LEMMA DropIInv ==
    ASSUME IInv, NEW s \in Slots, DropStage(s)
    PROVE  IInv'
<1>1. stages' = [stages EXCEPT ![s] = None]
  BY DEF DropStage
<1>2. TypeOK'
  BY <1>1 DEF IInv, TypeOK
<1>3. Named' = Named \ {s} /\ UserSlots' = UserSlots \ {s}
  BY <1>1 DEF Named, UserSlots, IInv, TypeOK
<1>. QED
  BY <1>1, <1>2, <1>3 DEF IInv, Named, UserSlots

LEMMA NextIInv == IInv /\ [Next]_stages => IInv'
<1> SUFFICES ASSUME IInv, [Next]_stages PROVE IInv'
  OBVIOUS
<1>1. CASE UNCHANGED stages
  BY <1>1 DEF IInv, TypeOK, Named, UserSlots
<1>. QED
  BY <1>1, CreateNamedIInv, CreateUserIInv, DropIInv DEF Next

(* With no legacy stage saved under the name "internal" or "user", no      *)
(* stage's directory contains another's (the run's StagePrefixesDisjoint), *)
(* for every catalog a tenant can reach by creating and dropping stages.   *)
(* The hypothesis is needed: MC_UserStage_Legacy shows the overlap when a  *)
(* legacy stage is named "internal".                                       *)
THEOREM StagePrefixesDisjointHolds ==
    ASSUME "internal" \notin LegacyNames, "user" \notin LegacyNames
    PROVE  Spec => []StagePrefixesDisjoint
<1>1. IInv => StagePrefixesDisjoint
  BY IInvDisjoint
<1>. QED
  BY <1>1, InitIInv, NextIInv, PTL DEF Spec


-----------------------------------------------------------------------------
(***************************************************************************)
(* UserStage implements StageDirs under DirOf.                             *)
(***************************************************************************)

\* Two stage records that could sit in the catalog together, with no legacy
\* stage named "internal" or "user", have directories neither of which
\* contains the other.
LEMMA PrefixesApart ==
    ASSUME "internal" \notin LegacyNames, "user" \notin LegacyNames,
           NEW x \in PrefixedStages, NEW y \in PrefixedStages,
           x.stage_type # "User" /\ y.stage_type # "User" => x.stage_name # y.stage_name,
           x.stage_type = "User" /\ y.stage_type = "User" => x.stage_name # y.stage_name,
           x.stage_type = "LegacyInternal" => x.stage_name \in LegacyNames,
           y.stage_type = "LegacyInternal" => y.stage_name \in LegacyNames
    PROVE  ~Dirs!Overlap(StagePrefix(x), StagePrefix(y))
<1>1. x \in StageInfo /\ y \in StageInfo /\ x.stage_type # "External" /\ y.stage_type # "External"
  BY DEF PrefixedStages
<1> DEFINE Apart == ~IsPrefix(StagePrefix(x), StagePrefix(y)) /\ ~IsPrefix(StagePrefix(y), StagePrefix(x))
<1> SUFFICES Apart
  BY DEF Apart, Dirs!Overlap, Dirs!IsPrefix, IsPrefix
<1>2. CASE x.stage_type # "User" /\ y.stage_type # "User"
  BY <1>1, <1>2, StagePrefixShape, PrefixTwoTwo, PrefixTwoThree, PrefixThreeTwo,
     PrefixThreeThree DEF StageInfo, StageTypes, Apart
<1>3. CASE x.stage_type = "User" /\ y.stage_type = "User"
  BY <1>1, <1>3, StagePrefixShape, PrefixThreeThree DEF Apart
<1>4. CASE x.stage_type = "User" /\ y.stage_type # "User"
  BY <1>1, <1>4, StagePrefixShape, PrefixTwoThree, PrefixThreeTwo, PrefixThreeThree
     DEF StageInfo, StageTypes, Apart
<1>5. CASE x.stage_type # "User" /\ y.stage_type = "User"
  BY <1>1, <1>5, StagePrefixShape, PrefixTwoThree, PrefixThreeTwo, PrefixThreeThree
     DEF StageInfo, StageTypes, Apart
<1>. QED
  BY <1>2, <1>3, <1>4, <1>5

\* Under the invariant, two distinct slots whose stages own directories
\* meet the conditions of PrefixesApart.
LEMMA SlotsApart ==
    ASSUME "internal" \notin LegacyNames, "user" \notin LegacyNames, IInv,
           NEW s \in Slots, NEW t \in Slots, s # t,
           DirOf[s] # None, DirOf[t] # None
    PROVE  ~Dirs!Overlap(DirOf[s], DirOf[t])
<1>1. stages[s] \in PrefixedStages /\ stages[t] \in PrefixedStages
      /\ DirOf[s] = StagePrefix(stages[s]) /\ DirOf[t] = StagePrefix(stages[t])
  BY DEF DirOf, IInv, TypeOK, PrefixedStages
<1>0. stages[s] # None /\ stages[t] # None
  BY <1>1, NoneAssumption DEF PrefixedStages
<1>2. stages[s].stage_type # "User" /\ stages[t].stage_type # "User"
        => stages[s].stage_name # stages[t].stage_name
  BY <1>0, <1>1 DEF IInv, Named, PrefixedStages
<1>3. stages[s].stage_type = "User" /\ stages[t].stage_type = "User"
        => stages[s].stage_name # stages[t].stage_name
  BY <1>0, <1>1 DEF IInv, UserSlots, PrefixedStages
<1>4. /\ stages[s].stage_type = "LegacyInternal" => stages[s].stage_name \in LegacyNames
      /\ stages[t].stage_type = "LegacyInternal" => stages[t].stage_name \in LegacyNames
  BY <1>0, <1>1 DEF IInv, PrefixedStages
<1>. QED
  BY <1>1, <1>2, <1>3, <1>4, PrefixesApart

LEMMA DirOfType == TypeOK => Dirs!TypeOK
BY DEF TypeOK, Dirs!TypeOK, DirOf, PrefixedStages

LEMMA InitDirs ==
    ASSUME "internal" \notin LegacyNames, "user" \notin LegacyNames
    PROVE  Init => Dirs!Init
<1> SUFFICES ASSUME Init PROVE Dirs!Init
  OBVIOUS
<1>1. IInv
  BY InitIInv
<1>2. Dirs!Disjoint
  BY <1>1, SlotsApart DEF Dirs!Disjoint, Dirs!Held
<1>. QED
  BY <1>1, <1>2, DirOfType DEF Dirs!Init, IInv


\* Creating an internal or user stage claims its stage_prefix: the slot held
\* no directory, and the new one overlaps none that another stage holds.
LEMMA ClaimDir ==
    ASSUME "internal" \notin LegacyNames, "user" \notin LegacyNames, IInv, IInv',
           NEW s \in Slots, stages[s] = None, NEW st \in PrefixedStages,
           stages' = [stages EXCEPT ![s] = st]
    PROVE  Dirs!Claim(s, StagePrefix(st))
<1>1. StagePrefix(st) # None
  BY NoneNotPrefix DEF PrefixedStages
<1>0. st \in StageInfo /\ st # None /\ st.stage_type # "External"
  BY NoneAssumption DEF PrefixedStages
<1>2. DirOf' = [DirOf EXCEPT ![s] = StagePrefix(st)]
  BY <1>0 DEF DirOf, IInv, TypeOK
<1>3. s \notin Dirs!Held
  BY DEF Dirs!Held, DirOf
<1>4. ASSUME NEW t \in Dirs!Held PROVE ~Dirs!Overlap(StagePrefix(st), DirOf[t])
  <2>1. t # s /\ t \in Slots /\ DirOf[t] # None
    BY <1>3 DEF Dirs!Held
  <2>2. stages[t] \in PrefixedStages /\ DirOf[t] = StagePrefix(stages[t])
    BY <2>1, NoneAssumption DEF DirOf, IInv, TypeOK, PrefixedStages
  <2>3. stages'[s] = st /\ stages'[t] = stages[t] /\ stages[t] # None
    BY <2>1, <2>2, NoneAssumption DEF IInv, TypeOK, PrefixedStages
  <2>4. st.stage_type # "User" /\ stages[t].stage_type # "User"
          => st.stage_name # stages[t].stage_name
    BY <1>0, <2>1, <2>3 DEF IInv, Named
  <2>5. st.stage_type = "User" /\ stages[t].stage_type = "User"
          => st.stage_name # stages[t].stage_name
    BY <1>0, <2>1, <2>3 DEF IInv, UserSlots
  <2>6. /\ st.stage_type = "LegacyInternal" => st.stage_name \in LegacyNames
        /\ stages[t].stage_type = "LegacyInternal" => stages[t].stage_name \in LegacyNames
    BY <1>0, <2>1, <2>3 DEF IInv
  <2>. QED
    BY <2>2, <2>4, <2>5, <2>6, PrefixesApart
<1>. QED
  BY <1>2, <1>3, <1>4 DEF Dirs!Claim

\* Every step of the catalog is a claim, a release or leaves DirOf alone.
LEMMA NextDirs ==
    ASSUME "internal" \notin LegacyNames, "user" \notin LegacyNames,
           IInv, [Next]_stages
    PROVE  [Dirs!Next]_DirOf
<1>0. IInv'
  BY NextIInv
<1>1. ASSUME NEW s \in Slots, NEW name \in StageNames, CreateInternalStage(s, name)
      PROVE  Dirs!Next
  <2>1. NewInternalStage(name) \in PrefixedStages /\ StagePrefix(NewInternalStage(name)) \in {StagePrefix(x) : x \in PrefixedStages}
    BY DEF NewInternalStage, PrefixedStages, StageInfo, StageTypes
  <2>. QED
    BY <1>0, <1>1, <2>1, ClaimDir DEF CreateInternalStage, Dirs!Next
<1>2. ASSUME NEW s \in Slots, NEW user \in UserNames, CreateUserStage(s, user)
      PROVE  Dirs!Next
  <2>1. NewUserStage(user) \in PrefixedStages /\ StagePrefix(NewUserStage(user)) \in {StagePrefix(x) : x \in PrefixedStages}
    BY DEF NewUserStage, PrefixedStages, StageInfo, StageTypes
  <2>. QED
    BY <1>0, <1>2, <2>1, ClaimDir DEF CreateUserStage, Dirs!Next
<1>3. ASSUME NEW s \in Slots, NEW name \in StageNames, CreateExternalStage(s, name)
      PROVE  UNCHANGED DirOf
  BY <1>3 DEF CreateExternalStage, NewExternalStage, DirOf, IInv, TypeOK
<1>4. ASSUME NEW s \in Slots, DropStage(s)
      PROVE  [Dirs!Next]_DirOf
  <2>1. CASE stages[s].stage_type = "External"
    BY <1>4, <2>1 DEF DropStage, DirOf, IInv, TypeOK
  <2>2. CASE stages[s].stage_type # "External"
    <3>1. s \in Dirs!Held
      <4>1. stages[s] \in PrefixedStages
        BY <1>4, <2>2 DEF DropStage, IInv, TypeOK, PrefixedStages
      <4>. QED
        BY <4>1, NoneNotPrefix, NoneAssumption DEF Dirs!Held, DirOf, PrefixedStages
    <3>2. DirOf' = [DirOf EXCEPT ![s] = None]
      BY <1>4 DEF DropStage, DirOf, IInv, TypeOK
    <3>. QED
      BY <3>1, <3>2 DEF Dirs!Release, Dirs!Next
  <2>. QED
    BY <2>1, <2>2
<1>5. CASE UNCHANGED stages
  BY <1>5 DEF DirOf
<1>. QED
  BY <1>1, <1>2, <1>3, <1>4, <1>5 DEF Next

(* With no legacy stage named "internal" or "user", the catalog and the   *)
(* stage constructors implement StageDirs under DirOf (the run's          *)
(* StageDirsSpec): every create of an internal or user stage claims a      *)
(* stage_prefix that overlaps no directory another stage owns, and a drop  *)
(* gives back only the dropped stage's directory.                          *)
THEOREM RefinesStageDirs ==
    ASSUME "internal" \notin LegacyNames, "user" \notin LegacyNames
    PROVE  Spec => StageDirsSpec
<1>1. IInv /\ [Next]_stages => [Dirs!Next]_DirOf
  BY NextDirs
<1>. QED
  BY <1>1, InitIInv, NextIInv, InitDirs, PTL DEF Spec, StageDirsSpec, Dirs!Spec

=============================================================================
