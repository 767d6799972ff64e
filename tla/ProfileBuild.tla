---------------------------- MODULE ProfileBuild ----------------------------
(***************************************************************************)
(* What Mapper::set_profile (common/src/mapper.cpp) makes of a profile: a  *)
(* table of basic mappings and a state machine for every layer, or nothing *)
(* at all when one layer is refused.                                       *)
(***************************************************************************)
EXTENDS StateMachine

\* A basic remapping is a trigger event and its binds.
BasicTriggersDiffer(layer) ==
  \A m, n \in DOMAIN layer.basic : layer.basic[m].ev = layer.basic[n].ev => m = n

BasicMap(layer) ==
  [ev \in {layer.basic[n].ev : n \in DOMAIN layer.basic} |->
     layer.basic[CHOOSE n \in DOMAIN layer.basic : layer.basic[n].ev = ev].binds]

\* "refused": set_profile returns false; "fatal": it throws.
LayerVerdict(layer) ==
  LET status == generate_states(layer.sequences).status
  IN  CASE ~BasicTriggersDiffer(layer) \/ status = "rejected" -> "refused"
        [] BasicTriggersDiffer(layer) /\ status = "bad_optional_access" -> "fatal"
        [] OTHER -> "good"

LayerAccepted(layer) == LayerVerdict(layer) = "good"

\* The first layer that is not taken decides; a default layer that does not
\* exist is installed and looked up.
Verdict(profile) ==
  LET bad == {l \in DOMAIN profile.layers : ~LayerAccepted(profile.layers[l])}
      first == CHOOSE l \in bad : \A m \in bad : l <= m
  IN  CASE bad # {} -> LayerVerdict(profile.layers[first])
        [] bad = {} /\ profile.default_layer \notin DOMAIN profile.layers -> "fatal"
        [] OTHER -> "good"

Compiled(layer) == [basic  |-> BasicMap(layer),
                    states |-> generate_states(layer.sequences).states]

Compile(profile) ==
  [accepted      |-> \A l \in DOMAIN profile.layers : LayerAccepted(profile.layers[l]),
   default_layer |-> profile.default_layer,
   layers        |-> [l \in DOMAIN profile.layers |-> Compiled(profile.layers[l])]]
=============================================================================
