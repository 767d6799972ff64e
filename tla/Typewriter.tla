------------------------------ MODULE Typewriter ------------------------------
(***************************************************************************)
(* What the keyboard is without the program: every key the user presses or *)
(* lets go of reaches the desktop once, in the order it was typed in.      *)
(***************************************************************************)
EXTENDS Sequences

CONSTANT Keys

VARIABLES pending,   \* typed, and not yet seen by the desktop
          down       \* what the desktop holds for pressed

page == <<pending, down>>

Strokes == [key : Keys, press : BOOLEAN]

Pressed(keys, stroke) == IF stroke.press THEN keys \cup {stroke.key} ELSE keys \ {stroke.key}

Type(stroke) == pending' = Append(pending, stroke) /\ UNCHANGED down

Strike ==
  /\ pending # <<>>
  /\ pending' = Tail(pending)
  /\ down' = Pressed(down, Head(pending))

Stroke == (\E stroke \in Strokes : Type(stroke)) \/ Strike \/ UNCHANGED page
=============================================================================
