--------------------------- MODULE KeyCountsProofs ---------------------------
(* The count of key presses, for every set of keys and any number of presses, *)
(* saves, crashes and restarts.                                              *)
EXTENDS KeyCounts, FiniteSetTheorems, TLAPS

\* A process that is down holds no key.
DownHoldsNone == main = "down" => mapper = None

Counted == TypeOK /\ NeverOvercounts

CountInv == Counted /\ DownHoldsNone

LEMMA ZeroCounts == Zero \in Counts /\ NoFile \in [valid : BOOLEAN, counts : Counts]
BY DEF Zero, NoFile, Counts

\* A key the mapper holds is one press ahead of its count.
LEMMA InFlightNat == \A key \in Keys : InFlight(key) \in 0 .. 1
BY DEF InFlight

LEMMA InitCount == Init => CountInv
<1> SUFFICES ASSUME Init PROVE CountInv
  OBVIOUS
<1>1. TypeOK
  BY ZeroCounts DEF Init, TypeOK, Zero, Counts
<1>2. NeverOvercounts
  BY KeysAssumption DEF Init, NeverOvercounts, InFlight, Zero, NoFile
<1>3. DownHoldsNone
  BY DEF Init, DownHoldsNone
<1> QED BY <1>1, <1>2, <1>3 DEF CountInv, Counted

\* What save leaves in the file is what it held or counts that are not above
\* the presses.
LEMMA SaveKeeps ==
  ASSUME Counted, NEW c \in Counts, NEW d, save(c, d),
         \A key \in Keys : c[key] <= pressed[key]
  PROVE  /\ file' \in [valid : BOOLEAN, counts : Counts] /\ dirty' \in BOOLEAN
         /\ \A key \in Keys : file'.counts[key] <= pressed[key]
<1>1. dirty' \in BOOLEAN
  BY DEF save
<1>2. CASE file' = file
  BY <1>1, <1>2 DEF Counted, TypeOK, NeverOvercounts
<1>3. CASE file' = NoFile
  BY <1>1, <1>3, ZeroCounts DEF Counted, TypeOK, NoFile, Zero, Counts
<1>4. CASE file' = [valid |-> TRUE, counts |-> c]
  BY <1>1, <1>4
<1> QED BY <1>2, <1>3, <1>4 DEF save

LEMMA StepCount == CountInv /\ [Next]_vars => CountInv'
<1> SUFFICES ASSUME CountInv, [Next]_vars PROVE CountInv'
  OBVIOUS
<1> USE DEF setting, counter, history
<1>t. TypeOK /\ NeverOvercounts
  BY DEF CountInv, Counted
<1>1. ASSUME NEW key \in Keys, Press(key) PROVE Counted'
  <2>1. TypeOK'
    BY <1>t, <1>1 DEF Press, TypeOK, Counts
  <2>2. NeverOvercounts'
    BY <1>t, <1>1, KeysAssumption DEF Press, TypeOK, Counts, NeverOvercounts, InFlight
  <2> QED BY <2>1, <2>2 DEF Counted
<1>2. ASSUME increment PROVE Counted'
  <2>1. TypeOK'
    BY <1>t, <1>2 DEF increment, TypeOK, Counts
  <2>2. NeverOvercounts'
    BY <1>t, <1>2, KeysAssumption DEF increment, TypeOK, Counts, NeverOvercounts, InFlight
  <2> QED BY <2>1, <2>2 DEF Counted
<1>c. counts \in Counts /\ \A key \in Keys : counts[key] <= pressed[key]
  BY <1>t, InFlightNat DEF NeverOvercounts, TypeOK, Counts
<1>z. Zero \in Counts /\ \A key \in Keys : Zero[key] <= pressed[key]
  BY <1>t, ZeroCounts DEF TypeOK, Counts, Zero
<1>3. ASSUME SaveTimer PROVE Counted'
  <2>1. save(counts, dirty) /\ UNCHANGED <<setting, counts, mapper, main, history>>
    BY <1>3 DEF SaveTimer
  <2>2. /\ file' \in [valid : BOOLEAN, counts : Counts] /\ dirty' \in BOOLEAN
        /\ \A key \in Keys : file'.counts[key] <= pressed[key]
    BY <2>1, <1>t, <1>c, SaveKeeps DEF Counted
  <2> QED BY <1>t, <2>1, <2>2 DEF Counted, TypeOK, NeverOvercounts, InFlight
<1>4. ASSUME LoadFromJson \/ SaveSettings PROVE Counted'
  BY <1>t, <1>4 DEF LoadFromJson, SaveSettings, Counted, TypeOK, NeverOvercounts, InFlight
<1>5. ASSUME SettingsChanged PROVE Counted'
  <2>1. CASE log_key_frequency
    BY <1>t, <1>5, <2>1 DEF SettingsChanged, Counted, TypeOK, NeverOvercounts, InFlight
  <2>2. CASE ~log_key_frequency
    <3>1. counts' = Zero /\ save(Zero, dirty)
      BY <1>5, <2>2 DEF SettingsChanged
    <3>2. /\ file' \in [valid : BOOLEAN, counts : Counts] /\ dirty' \in BOOLEAN
          /\ \A key \in Keys : file'.counts[key] <= pressed[key]
      BY <3>1, <1>t, <1>z, SaveKeeps DEF Counted
    <3>3. TypeOK'
      BY <1>t, <1>5, <1>z, <3>1, <3>2 DEF SettingsChanged, TypeOK
    <3>4. \A key \in Keys : Zero[key] + InFlight(key) <= pressed[key]
      BY <1>t, InFlightNat DEF NeverOvercounts, TypeOK, Counts, Zero
    <3> QED BY <1>5, <3>1, <3>2, <3>3, <3>4 DEF SettingsChanged, Counted, NeverOvercounts, InFlight
  <2> QED BY <2>1, <2>2
<1>6. ASSUME Exit PROVE Counted'
  <2>1. save(counts, dirty)
    BY <1>6 DEF Exit
  <2>2. /\ file' \in [valid : BOOLEAN, counts : Counts] /\ dirty' \in BOOLEAN
        /\ \A key \in Keys : file'.counts[key] <= pressed[key]
    BY <2>1, <1>t, <1>c, SaveKeeps DEF Counted
  <2>3. TypeOK'
    BY <1>t, <1>6, <1>z, <2>2 DEF Exit, TypeOK
  <2>4. NeverOvercounts'
    BY <1>t, <1>6, <1>z, <2>2, KeysAssumption DEF Exit, TypeOK, NeverOvercounts, InFlight, Zero, Counts
  <2> QED BY <2>3, <2>4 DEF Counted
<1>7. ASSUME Crash PROVE Counted'
  <2>1. file' \in [valid : BOOLEAN, counts : Counts]
        /\ \A key \in Keys : file'.counts[key] <= pressed[key]
    <3>1. CASE file' = file
      BY <1>t, <3>1 DEF TypeOK, NeverOvercounts
    <3>2. CASE file' = NoFile
      BY <1>z, <3>2, ZeroCounts DEF NoFile
    <3> QED BY <1>7, <3>1, <3>2 DEF Crash
  <2>3. settings_file' \in BOOLEAN
    <3>1. settings_file' = settings_file \/ settings_file' = FALSE
      BY <1>7 DEF Crash
    <3> QED BY <1>t, <3>1 DEF TypeOK
  <2>2. TypeOK'
    BY <1>t, <1>7, <1>z, <2>1, <2>3 DEF Crash, TypeOK
  <2>4. NeverOvercounts'
    BY <1>t, <1>7, <1>z, <2>1, KeysAssumption DEF Crash, TypeOK, NeverOvercounts, InFlight, Zero, Counts
  <2> QED BY <2>2, <2>4 DEF Counted
<1>8. ASSUME Start PROVE Counted'
  <2>1. mapper = None
    BY <1>8 DEF Start, CountInv, DownHoldsNone
  <2> QED BY <1>t, <1>8, <1>z, <2>1, KeysAssumption DEF Start, Counted, TypeOK, NeverOvercounts, InFlight, Counts
<1>9. ASSUME UNCHANGED vars PROVE Counted'
  BY <1>t, <1>9 DEF vars, Counted, TypeOK, NeverOvercounts, InFlight
<1>10. DownHoldsNone'
  BY DEF CountInv, DownHoldsNone, Next, vars, Press, increment, SaveTimer, LoadFromJson,
    SaveSettings, SettingsChanged, Exit, Crash, Start, Up
<1> QED
  BY <1>1, <1>2, <1>3, <1>4, <1>5, <1>6, <1>7, <1>8, <1>9, <1>10 DEF Next, CountInv

\* Over any crashes and restarts, no key is counted more often than it was
\* pressed while counting was on (KeyCounter, mapper.cpp:137-142).
THEOREM NeverCountedTwice == Spec => []NeverOvercounts
<1>1. CountInv => NeverOvercounts
  BY DEF CountInv, Counted
<1> QED BY <1>1, InitCount, StepCount, PTL DEF Spec

-----------------------------------------------------------------------------
(* The straggler. *)

\* A count with the press that is about to be added to it.
Total(key) == counts[key] + InFlight(key)

OnlyOne(one) == \A key \in Keys : Total(key) <= IF key = one THEN 1 ELSE 0

\* Cleared counts stay off until counting is on again, and no press but the one
\* in the mapper's hands when they were cleared is added.
ClearedInv ==
  cleared => /\ ~log_key_frequency /\ main # "down"
             /\ \E one \in Keys \cup {None} : OnlyOne(one)

\* A step that leaves every total alone keeps the straggler.
LEMMA SameTotals ==
  ASSUME ClearedInv, cleared, ~log_key_frequency', main' # "down",
         \A key \in Keys : Total(key)' = Total(key)
  PROVE  ClearedInv'
<1>1. PICK one \in Keys \cup {None} : OnlyOne(one)
  BY DEF ClearedInv
<1>2. OnlyOne(one)'
  BY <1>1 DEF OnlyOne
<1> QED BY <1>2 DEF ClearedInv

LEMMA StepCleared == CountInv /\ ClearedInv /\ [Next]_vars => ClearedInv'
<1> SUFFICES ASSUME CountInv, ClearedInv, [Next]_vars, cleared' PROVE ClearedInv'
  BY DEF ClearedInv
<1> USE DEF setting, counter, history
<1>t. TypeOK
  BY DEF CountInv, Counted
<1>1. ASSUME NEW key \in Keys, Press(key) PROVE FALSE
  BY <1>1 DEF Press, ClearedInv
<1>2. CASE increment
  <2>1. cleared /\ ~log_key_frequency' /\ main' # "down"
    BY <1>2 DEF increment, ClearedInv
  <2>2. \A key \in Keys : Total(key)' = Total(key)
    BY <1>t, <1>2, KeysAssumption DEF increment, TypeOK, Counts, Total, InFlight
  <2> QED BY <2>1, <2>2, SameTotals
<1>3. CASE SaveTimer \/ LoadFromJson \/ SaveSettings \/ UNCHANGED vars
  <2>1. cleared /\ ~log_key_frequency' /\ main' # "down"
    <3>1. CASE LoadFromJson
      <4>1. cleared /\ ~log_key_frequency'
        BY <3>1, Zenon DEF LoadFromJson
      <4> QED BY <3>1, <4>1 DEF LoadFromJson
    <3>2. CASE SaveTimer \/ SaveSettings \/ UNCHANGED vars
      <4>1. /\ cleared' = cleared /\ log_key_frequency' = log_key_frequency
            /\ main' = main \/ main' = "settings_changed"
        BY <3>2 DEF SaveTimer, SaveSettings, vars
      <4>2. cleared
        BY <4>1
      <4>3. ~log_key_frequency /\ main # "down"
        BY <4>2 DEF ClearedInv
      <4> QED BY <1>t, <4>1, <4>2, <4>3 DEF TypeOK
    <3> QED BY <1>3, <3>1, <3>2
  <2>2. \A key \in Keys : Total(key)' = Total(key)
    BY <1>3 DEF SaveTimer, LoadFromJson, SaveSettings, vars, Total, InFlight
  <2> QED BY <2>1, <2>2, SameTotals
<1>4. CASE SettingsChanged
  <2>1. ~log_key_frequency' /\ main' # "down" /\ counts' = Zero /\ mapper' = mapper
    BY <1>4 DEF SettingsChanged
  <2>2. PICK one \in Keys \cup {None} : one = mapper
    BY <1>t DEF TypeOK
  <2>3. OnlyOne(one)'
    BY <2>1, <2>2 DEF OnlyOne, Total, InFlight, Zero
  <2> QED BY <2>1, <2>2, <2>3 DEF ClearedInv
<1>5. CASE Exit \/ Crash \/ Start
  BY <1>t, <1>5 DEF Exit, Crash, Start, ClearedInv, TypeOK
<1> QED
  BY <1>1, <1>2, <1>3, <1>4, <1>5 DEF Next

\* Once counting is off and the counts are cleared only one key can still
\* appear, once, for any keys and typing (mapper.cpp:138-142, main.cpp:153-157).
THEOREM OneStragglerAtMost == Spec => []AtMostOneStraggler
<1>1. Init => ClearedInv
  BY DEF Init, ClearedInv
<1>2. CountInv /\ ClearedInv => AtMostOneStraggler
  <2> SUFFICES ASSUME CountInv, ClearedInv, cleared
      PROVE /\ \A key \in Keys : Total(key) <= 1
            /\ Cardinality({key \in Keys : Total(key) > 0}) <= 1
    BY DEF AtMostOneStraggler, Total
  <2>1. PICK one \in Keys \cup {None} : OnlyOne(one)
    BY DEF ClearedInv
  <2>2. \A key \in Keys : Total(key) \in Int
    BY DEF CountInv, Counted, TypeOK, Counts, Total, InFlight
  <2>3. \A key \in Keys : Total(key) <= 1
    BY <2>1, <2>2 DEF OnlyOne
  <2>4. {key \in Keys : Total(key) > 0} \subseteq {one}
    BY <2>1, <2>2 DEF OnlyOne
  <2>5. IsFiniteSet({one}) /\ Cardinality({one}) = 1
    BY FS_Singleton
  <2>6. Cardinality({key \in Keys : Total(key) > 0}) <= 1
    BY <2>4, <2>5, FS_Subset
  <2> QED BY <2>3, <2>6
<1> QED BY <1>1, <1>2, InitCount, StepCount, StepCleared, PTL DEF Spec
=============================================================================
