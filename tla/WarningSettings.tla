-------------------------- MODULE WarningSettings --------------------------
(***************************************************************************)
(* The warning state of a session (runtime_warning.cpp): one state for all *)
(* warnings, overrides by identifier, two modes and the last warning.  A   *)
(* script saves what `warning` returns, changes settings, and hands the    *)
(* saved structures back.                                                  *)
(***************************************************************************)
EXTENDS Integers, SequencesExt

CONSTANTS
  WarningIds,     \* identifiers of warnings
  MaxWarningSteps \* bound on operations

WarningModes == {"backtrace", "verbose"}
NoIdentifier == "none"

(* An identifier has a colon, so it is not the name of a setting.           *)
ASSUME WarningAssumption ==
  /\ WarningIds \cap (WarningModes \cup {"all", "last", NoIdentifier}) = {}
  /\ MaxWarningSteps \in Nat

VARIABLES
  warnings,        \* RuntimeWarningState
  saved,           \* a structure array the script keeps, and when it was made
  restored,        \* the one given back by the last operation
  warningSteps     \* how many operations were made

warningVars == <<warnings, saved, restored, warningSteps>>

Setting(identifier, enabled) == [identifier |-> identifier, enabled |-> enabled]
NothingSaved == [settings |-> <<>>, state |-> [all |-> TRUE], whole |-> FALSE]

Enabled(state, identifier) ==
  CASE identifier = "all" -> state.all
    [] identifier \in WarningModes -> state.modes[identifier]
    [] OTHER -> IF identifier \in DOMAIN state.overrides THEN state.overrides[identifier]
                ELSE state.all

Resolved(state, identifier) ==
  IF identifier # "last" THEN identifier
  ELSE IF state.last = NoIdentifier THEN "all" ELSE state.last

RemovedWarning(overrides, identifier) ==
  [other \in DOMAIN overrides \ {identifier} |-> overrides[other]]

KeepOverrides(state, enabled) == [state EXCEPT !.all = enabled]
SetAll(state, enabled) == [state EXCEPT !.all = enabled, !.overrides = <<>>]

(* An override that says what `all` says is none.                           *)
Overriding(overrides, identifier, enabled, all) ==
  IF enabled = all THEN RemovedWarning(overrides, identifier)
  ELSE [other \in DOMAIN overrides \cup {identifier} |->
          IF other = identifier THEN enabled ELSE overrides[other]]

SetSetting(state, identifier, enabled) ==
  CASE identifier = "all" -> SetAll(state, enabled)
    [] identifier \in WarningModes -> [state EXCEPT !.modes = [@ EXCEPT ![identifier] = enabled]]
    [] OTHER -> [state EXCEPT !.overrides = Overriding(@, identifier, enabled, state.all)]

(* allSettingsValue: the state of all, then the overrides in order.         *)
AllSettings(state) ==
  LET identifiers == SetToSeq(DOMAIN state.overrides)
  IN <<Setting("all", state.all)>>
       \o [i \in DOMAIN identifiers |-> Setting(identifiers[i], state.overrides[identifiers[i]])]

Restoring(state, setting) ==
  SetSetting(state, Resolved(state, setting.identifier), setting.enabled)

RestoredState(settings, state) ==
  LET after[n \in 0 .. Len(settings)] ==
        IF n = 0 THEN state ELSE Restoring(after[n - 1], settings[n])
  IN after[Len(settings)]

-----------------------------------------------------------------------------

WarningInit ==
  /\ warnings = [all |-> TRUE, overrides |-> <<>>, modes |-> [mode \in WarningModes |-> TRUE],
                 last |-> NoIdentifier]
  /\ saved = NothingSaved
  /\ restored = NothingSaved
  /\ warningSteps = 0

Operation == warningSteps < MaxWarningSteps /\ warningSteps' = warningSteps + 1

Save(settings, whole) ==
  saved' = [settings |-> settings, state |-> warnings, whole |-> whole]

QueryAll ==
  /\ Operation
  /\ Save(AllSettings(warnings), TRUE)
  /\ restored' = NothingSaved
  /\ UNCHANGED warnings

(* warning('on'), warning('off') and warning('query') of one setting.       *)
ChangeSetting ==
  /\ Operation
  /\ \E identifier \in WarningIds \cup WarningModes \cup {"all", "last"}, enabled, query, keep \in BOOLEAN :
       LET resolved == Resolved(warnings, identifier)
       IN /\ IF keep THEN Save(<<Setting(resolved, Enabled(warnings, resolved))>>, FALSE)
             ELSE UNCHANGED saved
          /\ warnings' = IF query THEN warnings ELSE SetSetting(warnings, resolved, enabled)
  /\ restored' = NothingSaved

Restore ==
  /\ Operation
  /\ saved # NothingSaved
  /\ warnings' = RestoredState(saved.settings, warnings)
  /\ restored' = saved
  /\ UNCHANGED saved

(* A message is kept as the last warning, shown or not.                     *)
Warn ==
  /\ Operation
  /\ \E identifier \in WarningIds \cup {NoIdentifier} :
       warnings' = [warnings EXCEPT !.last = identifier]
  /\ restored' = NothingSaved
  /\ UNCHANGED saved

WarningNext == QueryAll \/ ChangeSetting \/ Restore \/ Warn

WarningSpec == WarningInit /\ [][WarningNext]_warningVars

-----------------------------------------------------------------------------
(* Whatever happened in between: after warning(s) each warning is shown     *)
(* again as when s was made, all of them if s came from warning(), the one  *)
(* it names if it came from a change of that setting.                       *)
SettingsComeBack ==
  restored # NothingSaved =>
    \A identifier \in IF restored.whole THEN WarningIds \cup {"all"}
                      ELSE {restored.settings[1].identifier} :
      Enabled(warnings, identifier) = Enabled(restored.state, identifier)

=============================================================================
