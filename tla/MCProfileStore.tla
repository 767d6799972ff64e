--------------------------- MODULE MCProfileStore ---------------------------
(***************************************************************************)
(* Documents of each fate, as the parser and set_profile see them.         *)
(***************************************************************************)
EXTENDS ProfileStore, JsonDocuments
CONSTANTS good1, good2, malformed, refused, fatal, thrown

AtoB == <<Mapping(OfKey("key_press", "A"), <<OfKey("press_key", "B")>>),
          Mapping(OfKey("key_release", "A"), <<OfKey("release_key", "B")>>)>>

\* The last remapping of good1 is passed over.  "fatal" is the second document
\* of tests/src/profile_parsing.cpp: its default layer does not exist.  The
\* first trigger of "thrown" is a wait.
Documents ==
  good1 :> Document(<<InLayer(AtoB \o <<JsonObject("binds" :> JsonArray(<<>>))>>)>>, 0) @@
  good2 :> Document(<<InLayer(<<SequenceOf("release", <<OfKey("key_press", "0"), OfTime("minimum_wait", 5)>>,
                                         <<SwitchLayer(1), OfTime("wait", 5), Script("ls")>>)>>),
                      InLayer(<<Mapping(Focused("editor"), <<SwitchLayer(0)>>)>>)>>, 1) @@
  malformed :> Document(<<InLayer(AtoB \o <<Mapping(OfKey("key_press", "K0"), <<>>)>>)>>, 0) @@
  refused :> Document(<<InLayer(AtoB \o AtoB)>>, 0) @@
  fatal :> Document(<<InLayer(<<SequenceOf("capture", <<OfKey("key_press", "C"), OfKey("key_release", "D")>>,
                                         <<SwitchLayer(2)>>)>>)>>, 1) @@
  thrown :> Document(<<InLayer(<<SequenceOf("default", <<OfTime("maximum_wait", 5), OfKey("key_press", "C")>>,
                                          <<>>)>>)>>, 0)

MCProfiles == DOMAIN Documents
Judged == [p \in MCProfiles |-> FateOf(Documents[p])]
MCFate == Judged    \* apart, so that TLC reads the documents once
=============================================================================
