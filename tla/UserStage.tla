----------------------------- MODULE UserStage -----------------------------
(***************************************************************************)
(* The stages of a tenant and the directories they own, from              *)
(* src/meta/types/src/user_stage.rs: the constructors of UserStageInfo     *)
(* (261-287) and stage_prefix (302-311), the object-store directory of a   *)
(* stage's files.                                                          *)
(*                                                                         *)
(* A stage name contains no "/", so a directory "/stage/x/y/" is the       *)
(* sequence of its components <<"stage", x, y>>, and one directory string  *)
(* is a prefix of another exactly when its component sequence is.  The    *)
(* catalog that stores stages (outside src/) keeps one stage per name      *)
(* among the tenant's named stages and one user stage per user; stages     *)
(* saved by an older version come back as LegacyInternal.                  *)
(***************************************************************************)
EXTENDS Sequences, SequencesExt

CONSTANTS
    Slots,          \* catalog entries that may hold a stage
    StageNames,     \* names given in CREATE STAGE
    UserNames,      \* users, each of whom owns a user stage
    LegacyNames,    \* names of stages saved by a version before Internal
    None

StageTypes == {"LegacyInternal", "External", "Internal", "User"}
StageInfo == [stage_name : StageNames \cup UserNames \cup LegacyNames,
              stage_type : StageTypes]

ASSUME NoneAssumption == None \notin StageInfo

(* UserStageInfo::new_internal_stage (263-269). *)
NewInternalStage(name) == [stage_name |-> name, stage_type |-> "Internal"]

(* UserStageInfo::new_external_stage (271-278): the name is the storage    *)
(* and path the stage points to.                                           *)
NewExternalStage(name) == [stage_name |-> name, stage_type |-> "External"]

(* UserStageInfo::new_user_stage (281-287). *)
NewUserStage(user) == [stage_name |-> user, stage_type |-> "User"]

(* stage_prefix with an Internal stage placed beside the legacy ones, at   *)
(* "/stage/{name}/".                                                       *)
StagePrefixFlat(st) ==
    CASE st.stage_type \in {"LegacyInternal", "Internal"} -> <<"stage", st.stage_name>>
      [] st.stage_type = "User" -> <<"stage", "user", st.stage_name>>

(* UserStageInfo::stage_prefix (302-311).  It is not defined on External  *)
(* stages: the code panics with unreachable!.                             *)
StagePrefix(st) ==
    CASE st.stage_type = "LegacyInternal" -> <<"stage", st.stage_name>>
      [] st.stage_type = "Internal"       -> <<"stage", "internal", st.stage_name>>
      [] st.stage_type = "User"           -> <<"stage", "user", st.stage_name>>

\* None stands for Option::None, which is no directory.
ASSUME NoneNotPrefix == \A st \in StageInfo : st.stage_type # "External" => StagePrefix(st) # None

VARIABLE stages   \* slot -> UserStageInfo, or None

Named == {s \in Slots : stages[s] # None /\ stages[s].stage_type # "User"}
NamesInUse == {stages[s].stage_name : s \in Named}
UsersWithStage == {stages[s].stage_name :
                     s \in {t \in Slots : stages[t] # None /\ stages[t].stage_type = "User"}}

TypeOK == stages \in [Slots -> StageInfo \cup {None}]

(* After an upgrade, the catalog holds some stages saved by the older      *)
(* version, under distinct names.                                          *)
Init ==
    \E legacy \in SUBSET Slots :
       \E names \in [legacy -> LegacyNames] :
          /\ \A s, t \in legacy : s # t => names[s] # names[t]
          /\ stages = [s \in Slots |-> IF s \in legacy
                          THEN [stage_name |-> names[s], stage_type |-> "LegacyInternal"]
                          ELSE None]

CreateInternalStage(s, name) ==
    /\ stages[s] = None
    /\ name \notin NamesInUse
    /\ stages' = [stages EXCEPT ![s] = NewInternalStage(name)]

CreateExternalStage(s, name) ==
    /\ stages[s] = None
    /\ name \notin NamesInUse
    /\ stages' = [stages EXCEPT ![s] = NewExternalStage(name)]

CreateUserStage(s, user) ==
    /\ stages[s] = None
    /\ user \notin UsersWithStage
    /\ stages' = [stages EXCEPT ![s] = NewUserStage(user)]

DropStage(s) ==
    /\ stages[s] # None
    /\ stages' = [stages EXCEPT ![s] = None]

Next ==
    \E s \in Slots :
       \/ \E name \in StageNames : CreateInternalStage(s, name) \/ CreateExternalStage(s, name)
       \/ \E user \in UserNames : CreateUserStage(s, user)
       \/ DropStage(s)

Spec == Init /\ [][Next]_stages

-----------------------------------------------------------------------------
(* No stage's directory contains another's: for two stages that have a    *)
(* prefix (every type but External), neither stage_prefix is a prefix of  *)
(* the other, so listing or purging one stage never touches the files of  *)
(* another, whatever stages were saved before the upgrade.                 *)
StagePrefixesDisjoint ==
    \A s, t \in Slots :
       (s # t /\ stages[s] # None /\ stages[t] # None
          /\ stages[s].stage_type # "External" /\ stages[t].stage_type # "External")
         => ~IsPrefix(StagePrefix(stages[s]), StagePrefix(stages[t]))

-----------------------------------------------------------------------------
(***************************************************************************)
(* The directories the stages own: stage_prefix of every stage but an      *)
(* External one, which keeps its files at the location it points to.      *)
(***************************************************************************)
PrefixedStages == {st \in StageInfo : st.stage_type # "External"}

DirOf == [s \in Slots |-> IF stages[s] = None \/ stages[s].stage_type = "External"
                          THEN None ELSE StagePrefix(stages[s])]

Dirs == INSTANCE StageDirs WITH dir <- DirOf, Paths <- {StagePrefix(st) : st \in PrefixedStages}

(* The catalog with the stage constructors implements StageDirs: creating *)
(* an internal or user stage claims a directory that overlaps no stage's   *)
(* directory, creating or dropping an external stage touches none, and a   *)
(* drop gives back exactly the dropped stage's directory.                  *)
StageDirsSpec == Dirs!Spec

=============================================================================
