---------------------------- MODULE ProfileParser ----------------------------
(***************************************************************************)
(* How a JSON document becomes a profile (common/src/read_profile.cpp).    *)
(*                                                                         *)
(* A JSON value is tagged with its type: a string, a number, an array (a   *)
(* sequence of values) or an object (a function from names to values).     *)
(* Every complaint of the parser is a std::invalid_argument, whoever       *)
(* catches it does so outside of from_json, so the order of the complaints *)
(* does not matter: a document reads or it does not.  Layers are numbered  *)
(* from 1 here (from 0 in the code).                                       *)
(***************************************************************************)
EXTENDS ProfileBuild, KeyTables

CONSTANT NegativeAsSize     \* what a cast to size_t makes of a negative double

ASSUME SizeAssumption == NegativeAsSize \in Nat

JsonString(s)  == [is |-> "string", of |-> s]
JsonNumber(n)  == [is |-> "number", of |-> n]
JsonArray(seq) == [is |-> "array", of |-> seq]
JsonObject(fn) == [is |-> "object", of |-> fn]

\* get_property_as_object, _array, _string and _number, and what they return.
Has(obj, key, type) == key \in DOMAIN obj.of /\ obj.of[key].is = type
Property(obj, key)  == obj.of[key].of
Type(obj)           == Property(obj, "type")

\* get_value_as_object on every member of an array.
Objects(obj, key) ==
  Has(obj, key, "array")
    /\ \A n \in DOMAIN Property(obj, key) : Property(obj, key)[n].is = "object"

Size(obj, key) ==
  IF Property(obj, key) < 0 THEN NegativeAsSize ELSE Property(obj, key)

KeyReads(obj) == Has(obj, "value", "string")
                   /\ ContainsForward(str_to_keycode, Property(obj, "value"))
parse_key(obj) == str_to_keycode.forward[Property(obj, "value")]

-----------------------------------------------------------------------------
(* Triggers and binds *)

AppFocused(app_name) == [app_name |-> app_name]

BasicTriggerReads(obj) ==
  /\ Has(obj, "type", "string")
  /\ \/ Type(obj) \in {"key_press", "key_release"} /\ KeyReads(obj)
     \/ Type(obj) = "app_focused" /\ Has(obj, "app_name", "string")

TriggerReads(obj) ==
  \/ BasicTriggerReads(obj)
  \/ /\ Has(obj, "type", "string") /\ Type(obj) \in {"minimum_wait", "maximum_wait"}
     /\ Has(obj, "duration", "number")

\* With trigger_to_input, which both callers apply to it.
parse_basic_trigger(obj) ==
  IF Type(obj) = "app_focused" THEN AppFocused(Property(obj, "app_name"))
  ELSE KeyEvent(parse_key(obj), Type(obj) = "key_press")

parse_advanced_trigger(obj) ==
  CASE Type(obj) = "minimum_wait" -> [kind |-> "min", ms |-> Size(obj, "duration")]
    [] Type(obj) = "maximum_wait" -> [kind |-> "max", ms |-> Size(obj, "duration")]
    [] OTHER -> [kind |-> "input", ev |-> parse_basic_trigger(obj)]

BindReads(obj) ==
  /\ Has(obj, "type", "string")
  /\ \/ Type(obj) \in {"press_key", "release_key"} /\ KeyReads(obj)
     \/ Type(obj) = "switch_layer" /\ Has(obj, "value", "number")
     \/ Type(obj) = "wait" /\ Has(obj, "duration", "number")
     \/ /\ Type(obj) = "run_script"
        /\ Has(obj, "interpreter", "string") /\ Has(obj, "script", "string")

parse_bind(obj) ==
  CASE Type(obj) = "switch_layer" -> [kind |-> "layer", to |-> Size(obj, "value") + 1]
    [] Type(obj) = "wait" -> [kind |-> "wait", ms |-> Size(obj, "duration")]
    [] Type(obj) = "run_script" ->
         [kind |-> "out", ev |-> [interpreter |-> Property(obj, "interpreter"),
                                  script |-> Property(obj, "script")]]
    [] OTHER -> [kind |-> "out", ev |-> KeyEvent(parse_key(obj), Type(obj) = "press_key")]

BindsRead(obj) ==
  Objects(obj, "binds")
    /\ \A n \in DOMAIN Property(obj, "binds") : BindReads(Property(obj, "binds")[n])

parse_binds(obj) ==
  [n \in DOMAIN Property(obj, "binds") |-> parse_bind(Property(obj, "binds")[n])]

-----------------------------------------------------------------------------
(* Remappings, layers, the profile *)

\* An object with both is a sequence; with neither it is passed over.
IsSequence(obj) == "triggers" \in DOMAIN obj.of
IsBasic(obj)    == ~IsSequence(obj) /\ "trigger" \in DOMAIN obj.of

RemappingReads(obj) ==
  /\ IsSequence(obj) =>
       /\ Objects(obj, "triggers")
       /\ \A n \in DOMAIN Property(obj, "triggers") : TriggerReads(Property(obj, "triggers")[n])
       /\ BindsRead(obj)
       /\ Has(obj, "behavior", "string")
       /\ Property(obj, "behavior") \in {"capture", "release", "default"}
  /\ IsBasic(obj) =>
       /\ Has(obj, "trigger", "object") /\ BasicTriggerReads(obj.of["trigger"])
       /\ BindsRead(obj)

parse_basic_remapping(obj) == [ev    |-> parse_basic_trigger(obj.of["trigger"]),
                               binds |-> parse_binds(obj)]

parse_sequence(obj) ==
  LET triggers == Property(obj, "triggers")
  IN  [behavior |-> Property(obj, "behavior"),
       sequence |-> [n \in DOMAIN triggers |-> parse_advanced_trigger(triggers[n])],
       binds    |-> parse_binds(obj)]

LayerReads(obj) ==
  /\ Has(obj, "layer_name", "string") /\ Objects(obj, "remappings")
  /\ \A n \in DOMAIN Property(obj, "remappings") : RemappingReads(Property(obj, "remappings")[n])

parse_layer(obj) ==
  LET Those(Is(_), From(_)) ==
        LET chosen == SelectSeq(Property(obj, "remappings"), Is)
        IN  [n \in DOMAIN chosen |-> From(chosen[n])]
  IN  [basic     |-> Those(IsBasic, parse_basic_remapping),
       sequences |-> Those(IsSequence, parse_sequence)]

ProfileReads(doc) ==
  /\ doc.is = "object"
  /\ Has(doc, "profile_name", "string") /\ Has(doc, "default_layer", "number")
  /\ Objects(doc, "layers")
  /\ \A n \in DOMAIN Property(doc, "layers") : LayerReads(Property(doc, "layers")[n])

from_json(doc) ==
  LET layers == Property(doc, "layers")
  IN  [layers        |-> [n \in DOMAIN layers |-> parse_layer(layers[n])],
       default_layer |-> Size(doc, "default_layer") + 1]

default_profile == [layers |-> <<[basic |-> <<>>, sequences |-> <<>>]>>, default_layer |-> 1]

\* What becomes of a document.
FateOf(doc) == IF ProfileReads(doc) THEN Verdict(from_json(doc)) ELSE "malformed"
=============================================================================
