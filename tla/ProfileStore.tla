---------------------------- MODULE ProfileStore ----------------------------
(***************************************************************************)
(* The latest profile: how main() finds one at start (common/src/main.cpp),*)
(* how a client's load_profile replaces it (common/src/local_server.cpp),  *)
(* and the file both write on the way (common/src/read_profile.cpp), over  *)
(* crashes and restarts of the process.                                    *)
(*                                                                         *)
(* from_json writes the file after it has parsed the profile and before    *)
(* set_profile has judged it.  What becomes of a profile is a constant of  *)
(* the profile:                                                            *)
(*   "malformed"  from_json throws std::invalid_argument;                  *)
(*   "refused"    set_profile returns false and changes nothing;           *)
(*   "fatal"      set_profile throws something else, or installs a default *)
(*                layer that does not exist: the process ends;             *)
(*   "good"       it is installed.                                         *)
(***************************************************************************)
EXTENDS Naturals

CONSTANTS
  Profiles,       \* JSON documents a client or an argument may hold
  Fate,           \* Fate[p]: what becomes of p, see above
  Default,        \* Profile::default_profile()
  NoProfile,      \* no profile: a mapper without states
  MaxFailures,    \* bound: saves that fail
  MaxCrashes      \* bound: crashes from outside

Fates == {"malformed", "refused", "fatal", "good"}

\* What the file is when it holds no profile: cut off, or not there.
Partial == "partial"
Absent == "absent"

ASSUME StoreAssumption ==
  /\ Partial \notin Profiles /\ Absent \notin Profiles
  /\ Fate \in [Profiles -> Fates]
  /\ Default \notin Profiles /\ NoProfile \notin Profiles
  /\ MaxFailures \in Nat /\ MaxCrashes \in Nat

VARIABLES
  disk,           \* LATEST_PROFILE_FILE_LOCATION
  main,           \* where the main thread is
  loading,        \* the document from_json works on
  client,         \* load_profile is being answered, not main() starting
  installed,      \* the profile the mapper's states come from
  answer,         \* the last answer: "ok", "fail" or "none"
  accepted,       \* history: the document from_json parsed last
  cut,            \* history: its save failed or was interrupted
  failures, crashes

process == <<main, loading, client, installed, answer>>
history == <<accepted, cut, failures, crashes>>
storeVars == <<disk, process, history>>

StoreInit ==
  /\ disk = Absent /\ accepted = NoProfile /\ cut = FALSE
  /\ main = "down" /\ loading = NoProfile /\ client = FALSE
  /\ installed = NoProfile /\ answer = "none"
  /\ failures = 0 /\ crashes = 0

\* The process ends.
Ends ==
  /\ main' = "down" /\ loading' = NoProfile /\ client' = FALSE
  /\ installed' = NoProfile /\ answer' = "none"

-----------------------------------------------------------------------------
(* from_json *)

\* Mutant: whatever is JSON is saved.
ParsesAll(p) == TRUE

\* The document is parsed: from here it will be saved.
Parses(p) == Fate[p] # "malformed"

FromJson(p) ==
  /\ Parses(p)
  /\ main' = "open" /\ loading' = p /\ accepted' = p

SaveFails ==
  failures < MaxFailures /\ failures' = failures + 1 /\ cut' = TRUE

\* The file is opened, and emptied, or cannot be.
OpenLatest ==
  /\ main = "open"
  /\ \/ disk' = Partial /\ main' = "write" /\ UNCHANGED <<cut, failures>>
     \/ SaveFails /\ main' = "install" /\ UNCHANGED disk
  /\ UNCHANGED <<loading, client, installed, answer, accepted, crashes>>

\* Mutant: nothing is written after all.
WriteNothing ==
  /\ main = "write"
  /\ main' = "install" /\ cut' = FALSE
  /\ UNCHANGED <<disk, loading, client, installed, answer, accepted, failures, crashes>>

\* The text is written, or cut off.
WriteLatest ==
  /\ main = "write"
  /\ main' = "install"
  /\ \/ disk' = loading /\ cut' = FALSE /\ UNCHANGED failures
     \/ SaveFails /\ UNCHANGED disk
  /\ UNCHANGED <<loading, client, installed, answer, accepted, crashes>>

-----------------------------------------------------------------------------
(* main() *)

\* Without an argument: load_latest(), in a try block.
LatestUsable == disk \in Profiles /\ Parses(disk)

\* Mutant: a file that cannot be used ends the process; only a missing one
\* falls back.
StartStrict ==
  /\ main = "down" /\ disk # Partial
  /\ \/ LatestUsable /\ FromJson(disk) /\ UNCHANGED installed
     \/ ~LatestUsable /\ main' = "running" /\ installed' = Default
        /\ UNCHANGED <<loading, accepted>>
  /\ UNCHANGED <<disk, client, answer, cut, failures, crashes>>

StartLatest ==
  /\ main = "down"
  /\ \/ /\ LatestUsable
        /\ FromJson(disk)
        /\ UNCHANGED installed
     \/ /\ ~LatestUsable
        /\ main' = "running" /\ installed' = Default
        /\ UNCHANGED <<loading, accepted>>
  /\ UNCHANGED <<disk, client, answer, cut, failures, crashes>>

\* With the path of a profile as argument, outside the try block: a profile
\* that cannot be parsed ends the process as one that does not exist does.
StartWith(p) ==
  /\ main = "down"
  /\ FromJson(p)
  /\ UNCHANGED <<disk, client, installed, answer, cut, failures, crashes>>

-----------------------------------------------------------------------------
(* The client *)

\* load_profile; a profile that does not parse is answered at once.
LoadProfile(p) ==
  /\ main = "running"
  /\ \/ FromJson(p) /\ client' = TRUE /\ UNCHANGED answer
     \/ ~Parses(p) /\ answer' = "fail" /\ UNCHANGED <<main, loading, client, accepted>>
  /\ UNCHANGED <<disk, installed, cut, failures, crashes>>

\* set_profile, from Mapper's constructor or from read_data, which does not
\* look at what it returns.
Answered == answer' = IF client THEN "ok" ELSE answer

Accepts(p) == Fate[p] = "good"

Install ==
  /\ main = "install"
  /\ IF Fate[loading] = "fatal"
       THEN Ends
       ELSE /\ installed' = IF Accepts(loading) THEN loading ELSE installed
            /\ main' = "running" /\ loading' = NoProfile /\ client' = FALSE
            /\ Answered
  /\ UNCHANGED <<disk, history>>

-----------------------------------------------------------------------------
\* The mapper's thread has no state to look a key up in: std::out_of_range.
FirstKey ==
  /\ main = "running" /\ installed = NoProfile
  /\ Ends
  /\ UNCHANGED <<disk, history>>

Exit ==
  /\ main = "running"
  /\ Ends
  /\ UNCHANGED <<disk, history>>

Crash ==
  /\ main # "down" /\ crashes < MaxCrashes
  /\ crashes' = crashes + 1
  /\ cut' = (cut \/ main \in {"open", "write"})
  /\ Ends
  /\ UNCHANGED <<disk, accepted, failures>>

CallGoesOn == OpenLatest \/ WriteLatest \/ Install

StoreNext ==
  \/ StartLatest \/ CallGoesOn \/ FirstKey \/ Exit \/ Crash
  \/ \E p \in Profiles : StartWith(p) \/ LoadProfile(p)

\* The process is started again whenever it has ended, a call on the main
\* thread goes on to its end, and keys are typed.
Fairness == WF_storeVars(StartLatest) /\ WF_storeVars(CallGoesOn) /\ WF_storeVars(FirstKey)

StoreSpec == StoreInit /\ [][StoreNext]_storeVars

FairStoreSpec == StoreSpec /\ Fairness

-----------------------------------------------------------------------------
\* The types of the variables.
StoreTypeOK ==
  /\ disk \in Profiles \cup {Absent, Partial}
  /\ main \in {"down", "open", "write", "install", "running"}
  /\ loading \in Profiles \cup {NoProfile}
  /\ client \in BOOLEAN
  /\ installed \in Profiles \cup {Default, NoProfile}
  /\ answer \in {"none", "ok", "fail"}
  /\ accepted \in Profiles \cup {NoProfile}
  /\ cut \in BOOLEAN /\ failures \in 0 .. MaxFailures /\ crashes \in 0 .. MaxCrashes

\* The file holds the document that was parsed last, whole, unless the save of
\* that one failed or was interrupted: whatever the order of starts, loads,
\* crashes and ends of the process, the next start finds the latest profile
\* (read_profile.cpp:343-413, main.cpp:91-117).
LatestIsOnDisk ==
  (main \in {"down", "running"} /\ ~cut /\ accepted # NoProfile) => disk = accepted

\* A profile on disk was parsed once: no document that a start cannot read
\* again gets there, and a crash while it is written leaves no other one
\* (read_profile.cpp:353-355).
DiskIsReadable == disk \in Profiles => Fate[disk] # "malformed"

\* The profile at work is one that set_profile takes, or the default: one that
\* is refused, cannot be parsed or cannot be saved leaves the one before it at
\* work (mapper.cpp:45-76, local_server.cpp:95-103).
InstalledIsGood ==
  installed \in Profiles => Fate[installed] = "good"

ComesUp == main = "running" /\ installed # NoProfile

\* As long as the file holds no profile that set_profile refuses or dies of, a
\* process that is started again and again comes up, with the file's profile
\* or with the default: a save that a crash cut off is no obstacle
\* (main.cpp:91-109).
RestartsComeUp ==
  <>[](disk \in Profiles => Fate[disk] = "good") => []<>ComesUp
=============================================================================
