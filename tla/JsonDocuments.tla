---------------------------- MODULE JsonDocuments ----------------------------
(***************************************************************************)
(* JSON documents the runs load, the way a profile is written              *)
(* (exampleProfiles/, tests/src/profile_parsing.cpp).                      *)
(***************************************************************************)
EXTENDS ProfileParser, TLC

Tagged(type, fields) == JsonObject("type" :> JsonString(type) @@ fields)
OfKey(type, name)   == Tagged(type, "value" :> JsonString(name))
OfTime(type, ms)    == Tagged(type, "duration" :> JsonNumber(ms))
SwitchLayer(layer)      == Tagged("switch_layer", "value" :> JsonNumber(layer))
Focused(app)        == Tagged("app_focused", "app_name" :> JsonString(app))
Script(text) == Tagged("run_script", "interpreter" :> JsonString("sh") @@ "script" :> JsonString(text))

TapOf(name) == <<OfKey("press_key", name), OfTime("wait", 1), OfKey("release_key", name)>>

Mapping(trigger, binds) ==
  JsonObject("trigger" :> trigger @@ "binds" :> JsonArray(binds))

SequenceOf(behavior, triggers, binds) ==
  JsonObject("triggers" :> JsonArray(triggers) @@ "binds" :> JsonArray(binds)
               @@ "behavior" :> JsonString(behavior))

InLayer(remappings) ==
  JsonObject("layer_name" :> JsonString("layer") @@ "remappings" :> JsonArray(remappings))

Document(layers, default_layer) ==
  JsonObject("profile_name" :> JsonString("profile") @@ "layers" :> JsonArray(layers)
               @@ "default_layer" :> JsonNumber(default_layer))
=============================================================================
