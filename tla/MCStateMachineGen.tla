-------------------------- MODULE MCStateMachineGen --------------------------
(* Small instances of StateMachineGen. *)
EXTENDS StateMachineGen

CONSTANTS a, b, out1, out2, out3

MCInputs == {a, b}
MCBindsOf == << <<[kind |-> "out", ev |-> out1]>>,
                <<[kind |-> "out", ev |-> out2]>>,
                <<[kind |-> "out", ev |-> out3]>> >>

\* Two sequences of any length, and a third one after two short ones.
MCMaxInAll == <<3, 6, 5>>
=============================================================================
