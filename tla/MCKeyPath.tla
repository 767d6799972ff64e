------------------------------ MODULE MCKeyPath ------------------------------
(***************************************************************************)
(* Small keyboards for KeyPath and the profiles a user may load on them.   *)
(***************************************************************************)
EXTENDS KeyPath, JsonDocuments

CONSTANTS plain, remap, sequence          \* profiles

Key(page, code) == [page |-> page, code |-> code]

\* "Fn" is a key no table has.  Enter on Windows is listed twice and arrives as
\* NumpadEnter.  The mute button of a keyboard on macOS has the code of the
\* left Alt key on another page.
MCKeys == [linux |-> {Key("key", "A"), Key("key", "Enter"), Key("key", "Fn")},
           win   |-> {Key("key", "Enter"), Key("key", "LeftAlt")},
           mac   |-> {Key("keyboard", "LeftAlt"), Key("consumer", "LeftAlt")}]

MCFocus   == AppFocused("editor")
MCScripts == {[interpreter |-> "sh", script |-> "ls"]}

MCKeyEvents == {KeyEvent(code, press) : code \in KeyCode, press \in BOOLEAN}
MCInputs    == MCKeyEvents \cup {MCFocus}
MCOutputs   == MCKeyEvents \cup MCScripts

StrokeOf(name) == <<OfKey("press_key", name), OfKey("release_key", name)>>

Swapped(key, other) ==
  <<Mapping(OfKey("key_press", key), <<OfKey("press_key", other)>>),
    Mapping(OfKey("key_release", key), <<OfKey("release_key", other), Script("ls")>>)>>

\* Keys for another, whole strokes for the focus and for Enter, the latter of
\* a key that Linux and Windows do not have.
Remap ==
  Document(<<InLayer(
    Swapped("A", "B") \o Swapped("NumpadEnter", "B")
      \o <<Mapping(OfKey("key_press", "Enter"), TapOf("F13")),
           Mapping(OfKey("key_release", "Enter"), <<>>),
           Mapping(Focused("editor"), TapOf("B"))>>)>>, 0)

\* A stroke for two presses, the second soon after the first.
Together(key, other) ==
  SequenceOf("default", <<OfKey("key_press", key), OfTime("maximum_wait", 1),
                          OfKey("key_press", other)>>, TapOf("B"))

\* The same for three presses, and two strokes with a wait between them for
\* the release of Enter.
Combination ==
  Document(<<InLayer(<<
    Mapping(OfKey("key_press", "Enter"), <<>>),
    Mapping(OfKey("key_release", "Enter"), StrokeOf("B") \o <<OfTime("wait", 1)>> \o StrokeOf("C")),
    Together("A", "LeftAlt"), Together("NumpadEnter", "LeftAlt"),
    SequenceOf("default", <<OfKey("key_press", "Enter"), OfKey("key_press", "A"),
                            OfKey("key_press", "C")>>, StrokeOf("B")) >>)>>, 0)

Built == plain :> Compile(default_profile) @@ remap :> Compile(from_json(Remap))
           @@ sequence :> Compile(from_json(Combination))
MCBuild == Built

\* The documents are ones the parser reads.
ASSUME DocumentsRead == ProfileReads(Remap) /\ ProfileReads(Combination)
=============================================================================
