-------------------------------- MODULE Outbox --------------------------------
(***************************************************************************)
(* What the mapper promises about its delayed outputs, whatever the keys,  *)
(* the profiles and the pauses: an output that was put in is emitted at    *)
(* the first flush after its delay has passed, exactly once and never      *)
(* before, unless all pending outputs are dropped together; a key that     *)
(* bypasses the mapper overtakes nothing that is pending.                  *)
(*                                                                         *)
(* Nothing is promised about the order within one flush.                   *)
(***************************************************************************)
EXTENDS Naturals, FiniteSets

CONSTANTS OutputEvents,   \* what can be emitted
          Delays          \* how long an output may have to wait

VARIABLES pending,   \* pending[ev][d]: how many ev have d left to wait
          batch      \* batch[ev]: how many ev the last step emitted

outbox == <<pending, batch>>

Nothing == [ev \in OutputEvents |-> 0]

Empty == [ev \in OutputEvents |-> [d \in Delays |-> 0]]

Start == pending = Empty /\ batch = Nothing

Put(ev, d) ==
  /\ pending' = [pending EXCEPT ![ev][d] = @ + 1]
  /\ batch' = Nothing

\* What has d + 1 left has d left after a tick; what was due remains due.
OneLess(delays) ==
  [d \in Delays |-> (IF d = 0 THEN delays[0] ELSE 0)
                      + (IF d + 1 \in Delays THEN delays[d + 1] ELSE 0)]

Elapse ==
  /\ pending' = [ev \in OutputEvents |-> OneLess(pending[ev])]
  /\ batch' = Nothing

\* Exactly what is due, all of it.
Flush ==
  /\ pending' = [ev \in OutputEvents |-> [pending[ev] EXCEPT ![0] = 0]]
  /\ batch' = [ev \in OutputEvents |-> pending[ev][0]]

Drop == pending' = Empty /\ batch' = Nothing

Forward(ev) ==
  /\ pending = Empty
  /\ batch' = [Nothing EXCEPT ![ev] = 1]
  /\ UNCHANGED pending

Idle == batch' = Nothing /\ UNCHANGED pending

Change == \/ \E ev \in OutputEvents : Forward(ev) \/ \E d \in Delays : Put(ev, d)
          \/ Elapse \/ Flush \/ Drop \/ Idle

Promise == Start /\ [][Change]_outbox
=============================================================================
