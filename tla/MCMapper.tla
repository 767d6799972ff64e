------------------------------ MODULE MCMapper ------------------------------
(***************************************************************************)
(* Small instances of Mapper.  The profiles are written as a user writes   *)
(* them and built by ProfileBuild, so that the machines checked here are   *)
(* the ones the generator makes.                                           *)
(***************************************************************************)
EXTENDS MapperPromises, ProfileBuild, TLC

CONSTANTS a, b, f,      \* inputs: two keys and a focus change
          x, y,         \* keys that are only emitted
          timed, replay, broken, unusable   \* profiles

In(ev)       == [kind |-> "input", ev |-> ev]
AtLeast(ms)  == [kind |-> "min", ms |-> ms]
AtMost(ms)   == [kind |-> "max", ms |-> ms]
Emit(ev)     == [kind |-> "out", ev |-> ev]
Swap(layer)  == [kind |-> "layer", to |-> layer]
Delay(ms)    == [kind |-> "wait", ms |-> ms]
On(ev, binds) == [ev |-> ev, binds |-> binds]
Sequence(behavior, sequence, binds) ==
  [behavior |-> behavior, sequence |-> sequence, binds |-> binds]
Layer(basic, sequences) == [basic |-> basic, sequences |-> sequences]

\* Waits on both sides, layers that swap each other, a mapped focus change.
Timed ==
  [layers |->
     << Layer(<< On(a, <<Emit(x), Delay(1), Emit(y)>>), On(f, <<Emit(y)>>) >>,
              << Sequence("default", <<In(b), AtMost(1), In(a)>>, <<Emit(y), Swap(2)>>) >>),
        Layer(<< On(a, <<Swap(1)>>) >>,
              << Sequence("release", <<In(b), AtLeast(1)>>, <<Emit(x)>>) >>) >>,
   default_layer |-> 1]

\* A sequence of three inputs and one its replay runs into.
Replay ==
  [layers |->
     << Layer(<<>>,
              << Sequence("default", <<In(a), In(b), In(a)>>, <<Emit(x)>>),
                 Sequence("default", <<In(b), In(b)>>, <<Emit(y)>>) >>) >>,
   default_layer |-> 1]

\* A layer that does not exist, a minimum wait in the middle of a sequence.
Broken ==
  [layers |->
     << Layer(<< On(b, <<Swap(3), Emit(x)>>) >>,
              << Sequence("default", <<In(a), AtLeast(1), In(a)>>, <<Emit(x)>>),
                 Sequence("default", <<In(b), In(b), In(b)>>, <<Emit(x)>>),
                 Sequence("capture", <<In(f), AtLeast(1)>>, <<Swap(3)>>) >>) >>,
   default_layer |-> 1]

\* Two binds for one sequence: refused.
Unusable ==
  [layers |->
     << Layer(<<>>, << Sequence("default", <<In(a)>>, <<Emit(x)>>),
                       Sequence("default", <<In(a)>>, <<Emit(y)>>) >>) >>,
   default_layer |-> 1]

MCInputs  == {a, b, f}
MCKeys    == {a, b}
MCOutputs == {a, b, x, y}
Built == timed :> Compile(Timed) @@ replay :> Compile(Replay)
           @@ broken :> Compile(Broken) @@ unusable :> Compile(Unusable)
MCBuild   == Built    \* apart, so that TLC builds the machines once
=============================================================================
