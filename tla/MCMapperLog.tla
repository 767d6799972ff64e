----------------------------- MODULE MCMapperLog -----------------------------
(***************************************************************************)
(* Mapper with two history variables: the keys the daemon delivered and    *)
(* the outputs it was handed, both in order.  Used to compare what a user  *)
(* typed with what the program typed for him.                              *)
(***************************************************************************)
EXTENDS MCMapper

CONSTANTS c,              \* a third key
          triple,         \* a profile
          MaxTyped        \* bound: keys typed

VARIABLES typed, log

\* One sequence of three keys, nothing else.
Triple ==
  [layers |-> << Layer(<<>>, << Sequence("default", <<In(a), In(b), In(a)>>, <<Emit(x)>>) >>) >>,
   default_layer |-> 1]

LogInputs  == {a, b, c}
LogOutputs == {a, b, c, x, y}
LogBuilt   == triple :> Compile(Triple)
LogBuild   == LogBuilt

LogInit == Init /\ typed = <<>> /\ log = <<>>

LogNext ==
  /\ Next
  /\ log' = log \o sent'
  /\ typed' = IF Len(queue') > Len(queue) THEN Append(typed, queue'[Len(queue')]) ELSE typed
  /\ Len(typed') <= MaxTyped /\ ~paused'

LogSpec == LogInit /\ [][LogNext]_<<vars, typed, log>>

\* The keys a broken sequence gives back come out in the order they were
\* typed in.
GivenBackInOrder ==
  \E kept \in SUBSET DOMAIN typed :
    LET places == SelectSeq([n \in DOMAIN typed |-> n], LAMBDA n : n \in kept)
    IN  SelectSeq(log, LAMBDA ev : ev # x) = [k \in DOMAIN places |-> typed[places[k]]]
=============================================================================
