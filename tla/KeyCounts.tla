------------------------------ MODULE KeyCounts ------------------------------
(***************************************************************************)
(* The count of key presses: KeyCounter (common/src/key_counter.cpp), the  *)
(* setting that switches it on (common/src/settings.cpp), the mapper       *)
(* thread that counts (mapper.cpp) and the slot of main that clears it     *)
(* (main.cpp), over crashes and restarts of the process.                   *)
(*                                                                         *)
(* A step of a thread is what it does under one lock.                      *)
(***************************************************************************)
EXTENDS Integers, FiniteSets

CONSTANTS
  Keys,           \* keys that are counted
  None,           \* no key
  MaxPresses      \* bound: presses of a key

ASSUME KeysAssumption == None \notin Keys /\ MaxPresses \in Nat

VARIABLES
  log_key_frequency,
  settings_file,  \* what settings.json says, FALSE when there is none
  counts, dirty,  \* KeyCounter
  file,           \* keycounts.json, `valid' unless absent or cut off
  mapper,         \* the key the mapper thread has decided to count, or None
  main,           \* where the main thread is
  pressed,        \* history: presses the mapper saw while it counted
  cleared         \* history: clear() has run since counting was last on

setting == <<log_key_frequency, settings_file>>
counter == <<counts, dirty>>
history == <<pressed, cleared>>
vars == <<setting, counter, file, mapper, main, history>>

Zero == [key \in Keys |-> 0]

NoFile == [valid |-> FALSE, counts |-> Zero]

Init ==
  /\ log_key_frequency \in BOOLEAN /\ settings_file = log_key_frequency
  /\ counts = Zero /\ dirty = TRUE /\ file = NoFile
  /\ mapper = None /\ main = "exec"
  /\ pressed = Zero /\ cleared = FALSE

Up == main # "down"

-----------------------------------------------------------------------------
(* The mapper thread, for a key press. *)

\* Mutant: every press counts.
CountAlways(key) ==
  /\ Up /\ mapper = None /\ pressed[key] < MaxPresses
  /\ mapper' = key
  /\ pressed' = IF log_key_frequency THEN [pressed EXCEPT ![key] = @ + 1] ELSE pressed
  /\ UNCHANGED <<setting, counter, file, main, cleared>>

\* get_log_key_frequency.
Press(key) ==
  /\ Up /\ mapper = None /\ pressed[key] < MaxPresses
  /\ log_key_frequency
  /\ mapper' = key
  /\ pressed' = [pressed EXCEPT ![key] = @ + 1]
  /\ UNCHANGED <<setting, counter, file, main, cleared>>

increment ==
  /\ Up /\ mapper # None
  /\ counts' = [counts EXCEPT ![mapper] = @ + 1] /\ dirty' = TRUE
  /\ mapper' = None
  /\ UNCHANGED <<setting, file, main, history>>

-----------------------------------------------------------------------------
(* The main thread. *)

\* save(), of the counts c and the flag d.  A file that cannot be opened is
\* left as it was.
save(c, d) ==
  /\ dirty' = FALSE
  /\ \/ ~d /\ UNCHANGED file
     \/ d /\ c = Zero /\ file' = NoFile
     \/ d /\ c # Zero /\ file' \in {file, [valid |-> TRUE, counts |-> c]}

\* The timer.
SaveTimer ==
  /\ main = "exec" /\ dirty
  /\ save(counts, dirty)
  /\ UNCHANGED <<setting, counts, mapper, main, history>>

\* load_from_json: the flag, the file of settings, the signal.  Settings that
\* do not name the flag are saved and announced as well.
LoadFromJson ==
  /\ main = "exec"
  /\ log_key_frequency' \in BOOLEAN
  /\ main' = "save_settings"
  /\ cleared' = (cleared /\ ~log_key_frequency')
  /\ UNCHANGED <<settings_file, counter, file, mapper, pressed>>

SaveSettings ==
  /\ main = "save_settings"
  /\ settings_file' \in {settings_file, log_key_frequency}
  /\ main' = "settings_changed"
  /\ UNCHANGED <<log_key_frequency, counter, file, mapper, history>>

\* Mutant: the slot does not look at the setting as it is now.
ForgetToClear ==
  /\ main = "settings_changed"
  /\ main' = "exec"
  /\ cleared' = ~log_key_frequency
  /\ UNCHANGED <<setting, counter, file, mapper, pressed>>

SettingsChanged ==
  /\ main = "settings_changed"
  /\ main' = "exec"
  /\ IF log_key_frequency THEN UNCHANGED <<counter, file>>
                          ELSE counts' = Zero /\ save(Zero, dirty)
  /\ cleared' = ~log_key_frequency
  /\ UNCHANGED <<setting, mapper, pressed>>

-----------------------------------------------------------------------------
(* The process ends and starts. *)

\* ~KeyCounter saves.
Exit ==
  /\ main = "exec" /\ mapper = None
  /\ save(counts, dirty)
  /\ main' = "down" /\ counts' = Zero
  /\ cleared' = FALSE
  /\ UNCHANGED <<setting, mapper, pressed>>

\* The file that is being written may be cut off: the counts, or the settings.
Crash ==
  /\ Up
  /\ main' = "down" /\ counts' = Zero /\ mapper' = None
  /\ \/ file' \in {file, NoFile} /\ dirty /\ main # "save_settings" /\ UNCHANGED settings_file
     \/ settings_file' \in {settings_file, FALSE} /\ main = "save_settings" /\ UNCHANGED file
     \/ UNCHANGED <<file, settings_file>>
  /\ cleared' = FALSE
  /\ UNCHANGED <<log_key_frequency, dirty, pressed>>

\* The constructors load; nothing listens to the settings yet.
Start ==
  /\ main = "down"
  /\ main' = "exec"
  /\ log_key_frequency' = settings_file
  /\ counts' = (IF file.valid THEN file.counts ELSE Zero) /\ dirty' = TRUE
  /\ UNCHANGED <<settings_file, file, mapper, history>>

-----------------------------------------------------------------------------
Next == \/ \E key \in Keys : Press(key)
        \/ increment \/ SaveTimer \/ LoadFromJson \/ SaveSettings \/ SettingsChanged
        \/ Exit \/ Crash \/ Start

Spec == Init /\ [][Next]_vars

-----------------------------------------------------------------------------
Counts == [Keys -> Nat]

\* The types of the variables.
TypeOK ==
  /\ log_key_frequency \in BOOLEAN /\ settings_file \in BOOLEAN
  /\ counts \in Counts /\ dirty \in BOOLEAN
  /\ file \in [valid : BOOLEAN, counts : Counts]
  /\ mapper \in Keys \cup {None}
  /\ main \in {"exec", "save_settings", "settings_changed", "down"}
  /\ pressed \in Counts /\ cleared \in BOOLEAN

InFlight(key) == IF mapper = key THEN 1 ELSE 0

\* No count, in memory or on disk, exceeds the presses made while counting
\* was on, whatever crashes and restarts there were: none is counted twice
\* (key_counter.cpp:20-27, 46-88, mapper.cpp:137-142).
NeverOvercounts ==
  \A key \in Keys : /\ counts[key] + InFlight(key) <= pressed[key]
                    /\ file.counts[key] <= pressed[key]

\* Once counting was switched off and the counts cleared, at most the one key
\* the mapper had already decided to count appears (mapper.cpp:138-142,
\* main.cpp:153-157).
AtMostOneStraggler ==
  (cleared /\ main = "exec") =>
    /\ \A key \in Keys : counts[key] + InFlight(key) <= 1
    /\ Cardinality({key \in Keys : counts[key] + InFlight(key) > 0}) <= 1
=============================================================================
