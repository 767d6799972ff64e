------------------------- MODULE LinuxDaemonProofs -------------------------
(***************************************************************************)
(* What the daemon of Linux takes from the desktop and gives back, for any *)
(* keyboard and any typing: the invariants follow start() from the keys    *)
(* the desktop holds, through their release, to the grab, and keep apart   *)
(* the two threads that write to the virtual device.  The last part is     *)
(* about the daemon's constructor, which asks the device manager for the   *)
(* keyboard.                                                               *)
(***************************************************************************)
EXTENDS LinuxDaemon, DeviceManager, SequenceTheorems, TLAPS

BeforeGrab == {"open", "libevdev", "release"}

\* Until the grab the desktop sees what the input core does; a key the loop
\* has released is down again only if it was pressed since; the device is set
\* up exactly when cleanup() will know of it.
TakenInOrder ==
  /\ down \subseteq Keys
  /\ pc \in BeforeGrab => ~grabbed /\ desktop = down /\ uinput_fd = "closed"
  /\ pc \in {"open", "libevdev"} => release_i = {}
  /\ pc = "release" => release_i \cap down \subseteq late
  /\ pc = "uinput" => uinput_fd = "closed"
  /\ grabbed => desktop \subseteq late
  /\ uinput_fd = "open" => is_running
  /\ frame > 0 => pc = "half" \/ mapper_half

LEMMA TakenInit == Init => TakenInOrder
BY DEF Init, TakenInOrder, BeforeGrab

LEMMA StartStep == TakenInOrder /\ Start => TakenInOrder'
<1> SUFFICES ASSUME TakenInOrder, Start PROVE TakenInOrder'
  OBVIOUS
<1> USE DEF TakenInOrder, BeforeGrab, kernel, handles, loop, control, passed
<1>1. CASE Open \/ NewFromFd
  BY <1>1 DEF Open, NewFromFd
<1>2. CASE ReleaseKey
  <2>1. PICK key \in Keys \ release_i :
          /\ release_i' = release_i \cup {key}
          /\ IF key \in down THEN Emit([key |-> key, value |-> 0])
                             ELSE UNCHANGED <<down, desktop, buffer>>
    BY <1>2 DEF ReleaseKey
  <2>2. /\ pc = "release" /\ ~grabbed
        /\ down' = down \ {key} /\ desktop' = desktop \ {key}
    BY <1>2, <2>1 DEF ReleaseKey, Emit, After
  <2> QED
    BY <1>2, <2>1, <2>2 DEF ReleaseKey
<1>3. CASE Grab
  BY <1>3 DEF Grab
<1>4. CASE SetupUinput
  BY <1>4 DEF SetupUinput
<1>5. ASSUME NEW point \in BeforeGrab \cup {"uinput"}, Fail(point) PROVE TakenInOrder'
  BY <1>5 DEF Fail
<1> QED
  BY <1>1, <1>2, <1>3, <1>4, <1>5 DEF Start

LEMMA TypeStep ==
  ASSUME NEW key \in Keys, NEW value \in {0, 1, 2}, Type(key, value), TakenInOrder
  PROVE  TakenInOrder'
<1> USE DEF TakenInOrder, BeforeGrab, handles, loop, passed
<1>1. down' = IF value = 0 THEN down \ {key} ELSE down \cup {key}
  BY DEF Type, Emit, After
<1>2. desktop' = IF grabbed THEN desktop ELSE
                 IF value = 0 THEN desktop \ {key} ELSE desktop \cup {key}
  BY DEF Type, Emit, After
<1>3. late \subseteq late'
  BY DEF Type
<1>4. (pc = "release" /\ key \in release_i /\ key \notin down) => (value # 0 => key \in late')
  BY DEF Type
<1>5. UNCHANGED <<grabbed, frame, handles, loop, mapper_half>>
  BY DEF Type
<1> QED
  BY <1>1, <1>2, <1>3, <1>4, <1>5

LEMMA TakenStep == TakenInOrder /\ [Next]_vars => TakenInOrder'
<1> SUFFICES ASSUME TakenInOrder, [Next]_vars PROVE TakenInOrder'
  OBVIOUS
<1> USE DEF TakenInOrder, BeforeGrab, kernel, handles, loop, control, passed
<1>1. ASSUME NEW key \in Keys, NEW value \in {0, 1, 2}, Type(key, value) PROVE TakenInOrder'
  BY <1>1, TypeStep
<1>2. CASE Start
  BY <1>2, StartStep
<1>3. CASE TestInterruption \/ Drained
  BY <1>3 DEF TestInterruption, Drained
<1>4. CASE SendToMapper \/ Forward
  BY <1>4 DEF SendToMapper, Forward
<1>5. CASE ForwardSyn \/ PassSyn
  BY <1>5 DEF ForwardSyn, PassSyn
<1>6. CASE MapperWrites \/ MapperSyn
  BY <1>6 DEF MapperWrites, MapperSyn
<1>7. CASE RequestInterruption
  BY <1>7 DEF RequestInterruption
<1>8. CASE Cleanup
  BY <1>8 DEF Cleanup
<1>9. CASE UNCHANGED vars
  BY <1>9 DEF vars
<1> QED
  BY <1>1, <1>2, <1>3, <1>4, <1>5, <1>6, <1>7, <1>8, <1>9 DEF Next, Loop

LEMMA TakenAlways == Spec => []TakenInOrder
BY TakenInit, TakenStep, PTL DEF Spec

-----------------------------------------------------------------------------
\* The grab leaves the desktop holding no key but one pressed between its own
\* release and the grab, whatever keys there are (daemon.cpp:66-75).
THEOREM GrabLeavesNoKeyHeld == Spec => []OnlyLateKeysHeld
<1>1. TakenInOrder => OnlyLateKeysHeld
  BY DEF TakenInOrder, OnlyLateKeysHeld
<1> QED
  BY <1>1, TakenAlways, PTL

\* A key event on the virtual device is followed by a SYN_REPORT of the thread
\* that wrote it, however the two threads alternate (daemon.cpp:160-177).
THEOREM EveryFrameCloses == Spec => []FramesAreClosed
<1>1. TakenInOrder => FramesAreClosed
  BY DEF TakenInOrder, FramesAreClosed
<1> QED
  BY <1>1, TakenAlways, PTL

\* A daemon that reached its loop gives back everything it took
\* (daemon.cpp:27-48).
THEOREM LoopIsCleanedUp == Spec => CleanupAfterLoop
<1>1. TakenInOrder /\ [Next]_vars
        => [destroyed' /\ ~destroyed /\ uinput_fd = "open"
              => ~grabbed' /\ keyb_fd' = "closed" /\ keyb' = "null" /\ uinput_fd' = "closed"]_vars
  <2> SUFFICES ASSUME TakenInOrder, Next, destroyed', ~destroyed, uinput_fd = "open"
               PROVE  ~grabbed' /\ keyb_fd' = "closed" /\ keyb' = "null" /\ uinput_fd' = "closed"
    OBVIOUS
  <2>1. ASSUME NEW key \in Keys, NEW value \in {0, 1, 2}, Type(key, value) PROVE FALSE
    BY <2>1 DEF Type
  <2>2. CASE Start
    BY <2>2 DEF Start, Open, NewFromFd, ReleaseKey, Grab, SetupUinput, Fail, control
  <2>3. CASE Loop
    BY <2>3 DEF Loop, TestInterruption, SendToMapper, Forward, ForwardSyn, PassSyn, Drained,
       control
  <2>4. CASE MapperWrites \/ MapperSyn \/ RequestInterruption
    BY <2>4 DEF MapperWrites, MapperSyn, RequestInterruption, control
  <2>5. CASE Cleanup
    BY <2>5 DEF Cleanup, TakenInOrder
  <2> QED
    BY <2>1, <2>2, <2>3, <2>4, <2>5 DEF Next
<1> QED
  BY <1>1, TakenAlways, PTL DEF Spec, CleanupAfterLoop
-----------------------------------------------------------------------------
(* What the loop passes on.                                                *)

LEMMA NothingAfter ==
  ASSUME NEW held \in SUBSET Keys
  PROVE  AfterAll(held, <<>>) = held
<1>1. \A key : Of(key, <<>>) = {}
  BY DEF Of
<1>2. QED
  BY <1>1 DEF AfterAll

\* The seq may be taken one by one from the front.
LEMMA FirstThenRest ==
  ASSUME NEW held \in SUBSET Keys, NEW seq \in Seq(Events), seq # <<>>
  PROVE  AfterAll(After(held, Head(seq)), Tail(seq)) = AfterAll(held, seq)
<1> DEFINE first == Head(seq)
           rest  == Tail(seq)
<1>1. /\ first = seq[1] /\ first \in Events /\ Len(seq) \in Nat
      /\ DOMAIN seq = 1 .. Len(seq) /\ DOMAIN rest = 1 .. Len(seq) - 1
      /\ Len(seq) >= 1 /\ \A n \in DOMAIN rest : rest[n] = seq[n + 1]
  OBVIOUS
<1> HIDE DEF first, rest
<1>2. ASSUME NEW key \in Keys
      PROVE  /\ 1 \in Of(key, seq) <=> first.key = key
             /\ \A n \in Of(key, rest) : n + 1 \in Of(key, seq)
             /\ \A n \in Of(key, seq) : n = 1 \/ n - 1 \in Of(key, rest)
             /\ \A n \in Of(key, seq) : n \in Nat /\ n >= 1
             /\ \A n \in Of(key, rest) : n \in Nat /\ n >= 1
  BY <1>1 DEF Of
<1>3. ASSUME NEW key \in Keys, Of(key, rest) # {}
      PROVE  Of(key, seq) # {} /\ (PressedLast(key, seq) <=> PressedLast(key, rest))
  <2>1. Of(key, seq) # {}
    BY <1>2, <1>3
  <2>2. ASSUME PressedLast(key, rest) PROVE PressedLast(key, seq)
    <3>1. PICK n \in Of(key, rest) : /\ rest[n].value # 0
                                     /\ \A m \in Of(key, rest) : m <= n
      BY <2>2 DEF PressedLast
    <3>2. n + 1 \in Of(key, seq) /\ \A m \in Of(key, seq) : m <= n + 1
      BY <1>2, <3>1
    <3>3. seq[n + 1].value # 0
      BY <1>1, <3>1 DEF Of
    <3>4. QED
      BY <3>2, <3>3 DEF PressedLast
  <2>3. ASSUME PressedLast(key, seq) PROVE PressedLast(key, rest)
    <3>1. PICK n \in Of(key, seq) : /\ seq[n].value # 0
                                       /\ \A m \in Of(key, seq) : m <= n
      BY <2>3 DEF PressedLast
    <3>2. n # 1
      BY <1>2, <1>3, <3>1
    <3>3. n - 1 \in Of(key, rest) /\ \A m \in Of(key, rest) : m <= n - 1
      BY <1>2, <3>1, <3>2
    <3>4. (n - 1) + 1 = n /\ n - 1 \in DOMAIN rest
      BY <1>2, <3>1, <3>3 DEF Of
    <3>5. rest[n - 1].value # 0
      BY <1>1, <3>1, <3>4
    <3>6. QED
      BY <3>3, <3>5 DEF PressedLast
  <2>4. QED
    BY <2>1, <2>2, <2>3
<1>4. ASSUME NEW key \in Keys, Of(key, rest) = {}, first.key = key
      PROVE  Of(key, seq) # {} /\ (PressedLast(key, seq) <=> key \in After(held, first))
  <2>1. Of(key, seq) = {1}
    BY <1>2, <1>4
  <2>2. PressedLast(key, seq) <=> first.value # 0
    BY <1>1, <2>1 DEF PressedLast
  <2>3. QED
    BY <1>4, <2>1, <2>2 DEF After
<1>5. ASSUME NEW key \in Keys, Of(key, rest) = {}, first.key # key
      PROVE  Of(key, seq) = {} /\ (key \in held <=> key \in After(held, first))
  BY <1>2, <1>5 DEF After
<1>6. AfterAll(After(held, first), rest) = AfterAll(held, seq)
  BY <1>3, <1>4, <1>5 DEF AfterAll
<1>7. QED
  BY <1>6 DEF first, rest

\* The last event decides.
LEMMA LastOfAll ==
  ASSUME NEW held \in SUBSET Keys, NEW seq \in Seq(Events), NEW event \in Events
  PROVE  AfterAll(held, Append(seq, event)) = After(AfterAll(held, seq), event)
<1> DEFINE more == Append(seq, event)
           last == Len(seq) + 1
<1>1. /\ last \in Nat /\ more[last] = event /\ DOMAIN more = DOMAIN seq \cup {last}
      /\ \A n \in DOMAIN seq : more[n] = seq[n] /\ n < last /\ n \in Nat
  OBVIOUS
<1> HIDE DEF more, last
<1>2. ASSUME NEW key \in Keys, key = event.key
      PROVE  Of(key, more) # {} /\ (PressedLast(key, more) <=> event.value # 0)
  <2>1. Of(key, more) = Of(key, seq) \cup {last}
    BY <1>1, <1>2 DEF Of
  <2>2. \A m \in Of(key, more) : m <= last /\ (last <= m => m = last)
    BY <1>1, <2>1 DEF Of
  <2>3. PressedLast(key, more) <=> event.value # 0
    BY <1>1, <2>1, <2>2 DEF PressedLast
  <2>4. QED
    BY <2>1, <2>3
<1>3. ASSUME NEW key \in Keys, key # event.key
      PROVE  /\ Of(key, more) = Of(key, seq)
             /\ PressedLast(key, more) <=> PressedLast(key, seq)
  <2>1. Of(key, more) = Of(key, seq)
    BY <1>1, <1>3 DEF Of
  <2>2. \A n \in Of(key, seq) : more[n] = seq[n]
    BY <1>1 DEF Of
  <2>3. QED
    BY <2>1, <2>2 DEF PressedLast
<1>4. event.key \in Keys
  BY DEF Events
<1>5. AfterAll(held, more) = After(AfterAll(held, seq), event)
  BY <1>2, <1>3, <1>4 DEF AfterAll, After
<1>6. QED
  BY <1>5 DEF more
\* The keys the mapper and the virtual keyboard will hold when the buffer is
\* read.
Seen == AfterAll(mapper_down \cup virtual_down, buffer)

Opened == {"libevdev", "release", "uinput", "loop", "drain", "half", "syn"}

Grabbing == {"uinput", "loop", "drain", "half", "syn"}

\* From open() on every change of a key reaches the buffer.  A key pressed
\* before is unknown until the loop before the grab has released it; from then
\* on what will have been passed on is what is down.
PassedInOrder ==
  /\ down \subseteq Keys /\ release_i \subseteq Keys /\ buffer \in Seq(Events)
  /\ mapper_down \subseteq Mapped /\ virtual_down \subseteq Keys \ Mapped
  /\ pc = "open" => keyb_fd = "closed" /\ buffer = <<>>
  /\ pc \in BeforeGrab => mapper_down = {} /\ virtual_down = {}
  /\ pc \in {"open", "libevdev"} => release_i = {}
  /\ pc \in Grabbing => release_i = Keys
  /\ pc \in Opened => keyb_fd = "open" /\ Seen \subseteq down /\ release_i \cap down \subseteq Seen

LEMMA PassedInit == Init => PassedInOrder
BY DEF Init, PassedInOrder, BeforeGrab, Opened, Grabbing

\* What Seen speaks of are keys.
LEMMA PressedAreKeys ==
  ASSUME PassedInOrder
  PROVE  mapper_down \cup virtual_down \in SUBSET Keys
BY KeysAssumption DEF PassedInOrder

\* An event of the input core is seen in the end by the one who reads it.
LEMMA EmitSeen ==
  ASSUME PassedInOrder, NEW event \in Events, Emit(event), keyb_fd = "open",
         UNCHANGED passed
  PROVE  /\ buffer' \in Seq(Events) /\ down' \subseteq Keys
         /\ Seen' = After(Seen, event) /\ down' = After(down, event)
<1>1. buffer' = Append(buffer, event) /\ down' = After(down, event)
  BY DEF Emit
<1>2. buffer \in Seq(Events) /\ mapper_down \cup virtual_down \in SUBSET Keys
  BY PressedAreKeys DEF PassedInOrder
<1>3. AfterAll(mapper_down \cup virtual_down, Append(buffer, event)) = After(Seen, event)
  BY <1>2, LastOfAll DEF Seen
<1>4. Seen' = After(Seen, event)
  BY <1>1, <1>3 DEF Seen, passed
<1>5. down' \subseteq Keys
  BY <1>1 DEF After, Events, PassedInOrder
<1>6. QED
  BY <1>1, <1>2, <1>4, <1>5, AppendProperties

LEMMA TypeSeen ==
  ASSUME NEW key \in Keys, NEW value \in {0, 1, 2}, Type(key, value), PassedInOrder
  PROVE  PassedInOrder'
<1> DEFINE event == [key |-> key, value |-> value]
<1>1. /\ Emit(event) /\ event \in Events /\ event.key = key /\ event.value = value
      /\ UNCHANGED <<keyb_fd, pc, release_i, mapper_down, virtual_down>>
  BY DEF Type, Events, handles, loop, passed
<1> HIDE DEF event
<1>2. CASE keyb_fd = "open"
  <2>1. /\ buffer' \in Seq(Events) /\ down' \subseteq Keys
        /\ Seen' = After(Seen, event) /\ down' = After(down, event)
    BY <1>1, <1>2, EmitSeen DEF passed
  <2>2. pc \in Opened => Seen' \subseteq down' /\ release_i \cap down' \subseteq Seen'
    BY <1>1, <2>1 DEF After, PassedInOrder
  <2>3. pc # "open"
    BY <1>2 DEF PassedInOrder
  <2>4. QED
    BY <1>1, <2>1, <2>2, <2>3 DEF PassedInOrder
<1>3. CASE keyb_fd # "open"
  <2>1. UNCHANGED buffer /\ down' \subseteq Keys
    BY <1>1, <1>3 DEF Emit, After, PassedInOrder
  <2>2. pc \notin Opened
    BY <1>3 DEF PassedInOrder
  <2>3. QED
    BY <1>1, <2>1, <2>2 DEF PassedInOrder
<1>4. QED
  BY <1>2, <1>3

LEMMA ReleaseSeen == ReleaseKey /\ PassedInOrder => PassedInOrder'
<1> SUFFICES ASSUME ReleaseKey, PassedInOrder PROVE PassedInOrder'
  OBVIOUS
<1>1. PICK key \in Keys \ release_i :
        /\ release_i' = release_i \cup {key}
        /\ IF key \in down THEN Emit([key |-> key, value |-> 0])
                           ELSE UNCHANGED <<down, desktop, buffer>>
  BY DEF ReleaseKey
<1>2. /\ pc = "release" /\ keyb_fd = "open"
      /\ UNCHANGED <<keyb_fd, pc, mapper_down, virtual_down>>
  BY DEF ReleaseKey, handles, passed, PassedInOrder, Opened
<1>3. Seen \subseteq down /\ release_i \cap down \subseteq Seen
  BY <1>2 DEF PassedInOrder, Opened
<1>4. CASE key \in down
  <2> DEFINE event == [key |-> key, value |-> 0]
  <2>1. event \in Events /\ event.key = key /\ event.value = 0 /\ Emit(event)
    BY <1>1, <1>4 DEF Events
  <2> HIDE DEF event
  <2>2. /\ buffer' \in Seq(Events) /\ down' \subseteq Keys
        /\ Seen' = After(Seen, event) /\ down' = After(down, event)
    BY <1>2, <2>1, EmitSeen DEF passed
  <2>3. Seen' \subseteq down' /\ release_i' \cap down' \subseteq Seen'
    BY <1>1, <1>3, <2>1, <2>2 DEF After
  <2>4. QED
    BY <1>1, <1>2, <2>2, <2>3 DEF PassedInOrder, Opened, Grabbing, BeforeGrab
<1>5. CASE key \notin down
  <2>1. UNCHANGED <<down, buffer>>
    BY <1>1, <1>5
  <2>2. Seen' = Seen
    BY <1>2, <2>1 DEF Seen
  <2>3. Seen' \subseteq down' /\ release_i' \cap down' \subseteq Seen'
    BY <1>1, <1>3, <1>5, <2>1, <2>2
  <2>4. QED
    BY <1>1, <1>2, <2>1, <2>3 DEF PassedInOrder, Opened, Grabbing, BeforeGrab
<1>6. QED
  BY <1>4, <1>5

\* Reading an event changes nothing of what will have been passed on.
LEMMA ReadSeen ==
  ASSUME PassedInOrder, SendToMapper \/ Forward
  PROVE  PassedInOrder'
<1> DEFINE first == Head(buffer)
<1>1. /\ pc = "drain" /\ pc' \in {"syn", "half"}
      /\ buffer # <<>> /\ buffer' = Tail(buffer)
      /\ UNCHANGED <<keyb_fd, down, release_i>>
  BY DEF SendToMapper, Forward, handles
<1>2. buffer \in Seq(Events) /\ first \in Events /\ buffer' \in Seq(Events)
  BY <1>1 DEF PassedInOrder
<1>3. first.key \in Keys
  BY <1>2 DEF Events
<1>4. /\ mapper_down' \subseteq Mapped /\ virtual_down' \subseteq Keys \ Mapped
      /\ mapper_down' \cup virtual_down' = After(mapper_down \cup virtual_down, first)
  <2>1. CASE SendToMapper
    BY <1>3, <2>1 DEF SendToMapper, After, PassedInOrder
  <2>2. CASE Forward
    BY <1>3, <2>2 DEF Forward, After, PassedInOrder
  <2>3. QED
    BY <2>1, <2>2
<1>5. Seen' = Seen
  BY <1>1, <1>2, <1>4, FirstThenRest, PressedAreKeys DEF Seen
<1>6. QED
  BY <1>1, <1>2, <1>4, <1>5 DEF PassedInOrder, Opened, Grabbing, BeforeGrab

LEMMA PassedStep == PassedInOrder /\ [Next]_vars => PassedInOrder'
<1> SUFFICES ASSUME PassedInOrder, [Next]_vars PROVE PassedInOrder'
  OBVIOUS
<1>1. ASSUME NEW key \in Keys, NEW value \in {0, 1, 2}, Type(key, value) PROVE PassedInOrder'
  BY <1>1, TypeSeen
<1>2. ASSUME NEW point \in BeforeGrab \cup {"uinput"}, Fail(point) PROVE PassedInOrder'
  BY <1>2 DEF Fail, PassedInOrder, Opened, Grabbing, BeforeGrab, kernel, handles, passed
<1>3. CASE Open
  <2>1. pc = "open" /\ buffer = <<>> /\ mapper_down \cup virtual_down = {} /\ release_i = {}
    BY <1>3 DEF Open, PassedInOrder, BeforeGrab
  <2>2. Seen = {}
    BY <2>1, NothingAfter DEF Seen
  <2>3. Seen' = {}
    BY <1>3, <2>1, <2>2 DEF Open, Seen, kernel, passed
  <2>4. QED
    BY <1>3, <2>1, <2>3
    DEF Open, PassedInOrder, Opened, Grabbing, BeforeGrab, kernel, passed
<1>4. CASE ReleaseKey
  BY <1>4, ReleaseSeen
<1>5. CASE SendToMapper \/ Forward
  BY <1>5, ReadSeen
<1>6. CASE \/ NewFromFd \/ Grab \/ SetupUinput \/ TestInterruption \/ ForwardSyn \/ PassSyn
           \/ Drained
  <2>1. UNCHANGED <<down, buffer, release_i, keyb_fd, mapper_down, virtual_down>>
    BY <1>6 DEF NewFromFd, Grab, SetupUinput, TestInterruption, ForwardSyn, PassSyn, Drained,
                kernel, handles, loop, passed
  <2>2. Seen' = Seen
    BY <2>1 DEF Seen
  <2>3. /\ pc' = "open" => pc = "open"
        /\ pc' \in BeforeGrab => pc \in BeforeGrab
        /\ pc' \in {"open", "libevdev"} => pc \in {"open", "libevdev"}
        /\ pc' \in Grabbing => pc \in Grabbing \/ release_i = Keys
        /\ pc' \in Opened => pc \in Opened
    BY <1>6 DEF NewFromFd, Grab, SetupUinput, TestInterruption, ForwardSyn, PassSyn, Drained,
                BeforeGrab, Grabbing, Opened
  <2>4. QED
    BY <2>1, <2>2, <2>3 DEF PassedInOrder
<1>7. CASE Cleanup
  BY <1>7 DEF Cleanup, PassedInOrder, BeforeGrab, Grabbing, Opened, loop, passed, handles
<1>8. CASE MapperWrites \/ MapperSyn \/ RequestInterruption \/ UNCHANGED vars
  <2>1. UNCHANGED <<down, buffer, release_i, keyb_fd, mapper_down, virtual_down, pc>>
    BY <1>8 DEF MapperWrites, MapperSyn, RequestInterruption, vars, kernel, handles, loop, passed
  <2>2. Seen' = Seen
    BY <2>1 DEF Seen
  <2>3. QED
    BY <2>1, <2>2 DEF PassedInOrder
<1>9. QED
  BY <1>1, <1>2, <1>3, <1>4, <1>5, <1>6, <1>7, <1>8 DEF Next, Start, Loop, BeforeGrab

\* Whatever is typed, before, during and after the grab, no key stays pressed
\* for the mapper or on the virtual keyboard: what they hold and what waits in
\* the buffer add up to what is down (daemon.cpp:53-74, 93-127).
THEOREM NoKeyIsLeftDown == Spec => []PassedOnFollowsKeyboard
<1>1. PassedInOrder => PassedOnFollowsKeyboard
  <2> SUFFICES ASSUME PassedInOrder, InLoop
               PROVE  AfterAll(mapper_down \cup virtual_down, buffer) = down
    BY DEF PassedOnFollowsKeyboard
  <2>1. release_i = Keys /\ down \subseteq Keys /\ Seen \subseteq down
        /\ release_i \cap down \subseteq Seen
    BY DEF PassedInOrder, InLoop, Opened, Grabbing
  <2>2. QED
    BY <2>1 DEF Seen
<1>2. QED
  BY PassedInit, PassedStep, <1>1, PTL DEF Spec
-----------------------------------------------------------------------------
(* The device manager.  What a device has waiting is history of what was   *)
(* pressed on it, and the two lists of the fallback stay in step.          *)

Asking == {"scan", "listen", "record", "cleanup"}

Unasked == {"retrieve", "enumerate", "refine", "fallback"}

AskedInOrder ==
  /\ devs \in Seq(Devices) /\ paths = devs
  /\ events \in [Devices -> Seq({"space", "letter"})]
  /\ step \in Unasked => keyb_path = NoDevice /\ ~asked
  /\ step = "scan" => keyb_path = NoDevice
  /\ step \notin Asking => events = Quiet
  /\ \A d \in Devices : Spaces(d) # {} => d \in pressed
  /\ AskedIsPressed

LEMMA QuietHasNoSpaces ==
  ASSUME events = Quiet
  PROVE  /\ events \in [Devices -> Seq({"space", "letter"})]
         /\ \A d \in Devices : Spaces(d) = {}
BY DEF Quiet, Spaces

LEMMA AskedInit == DetectInit => AskedInOrder
BY QuietHasNoSpaces DEF DetectInit, AskedInOrder, Unasked, Asking, AskedIsPressed

LEMMA PollAsked == Poll /\ AskedInOrder => AskedInOrder'
<1> SUFFICES ASSUME Poll, AskedInOrder PROVE AskedInOrder'
  OBVIOUS
<1> DEFINE d == devs[i]
<1>1. /\ step = "listen" /\ i \in DOMAIN devs /\ d \in Devices /\ paths[i] = d
      /\ UNCHANGED <<step, devs, paths, asked, pressed>>
  BY DEF Poll, lists, history, AskedInOrder
<1>2. CASE Spaces(d) = {} /\ events' = [events EXCEPT ![d] = <<>>] /\ UNCHANGED keyb_path
  <2>1. \A x \in Devices : Spaces(x)' \subseteq Spaces(x)
    BY <1>1, <1>2 DEF AskedInOrder, Spaces
  <2>2. events' \in [Devices -> Seq({"space", "letter"})]
    <3>1. <<>> \in Seq({"space", "letter"})
      OBVIOUS
    <3>2. QED
      BY <1>1, <1>2, <3>1 DEF AskedInOrder
  <2>3. QED
    BY <1>1, <1>2, <2>1, <2>2 DEF AskedInOrder, Unasked, Asking, AskedIsPressed
<1>3. ASSUME NEW n \in Spaces(d),
             events' = [events EXCEPT ![d] = SubSeq(@, n + 1, Len(@))], keyb_path' = d
      PROVE  AskedInOrder'
  <2>1. d \in pressed
    BY <1>1, <1>3 DEF AskedInOrder
  <2>2. events' \in [Devices -> Seq({"space", "letter"})]
        /\ \A x \in Devices : x # d => events'[x] = events[x]
    <3>1. events[d] \in Seq({"space", "letter"}) /\ n \in 1 .. Len(events[d])
      BY <1>1, <1>3 DEF AskedInOrder, Spaces
    <3>2. SubSeq(events[d], n + 1, Len(events[d])) \in Seq({"space", "letter"})
      BY <3>1
    <3>3. QED
      BY <1>1, <1>3, <3>2 DEF AskedInOrder
  <2>3. \A x \in Devices : x # d => Spaces(x)' = Spaces(x)
    BY <2>2 DEF Spaces
  <2>4. \A x \in Devices : Spaces(x)' # {} => x \in pressed'
    BY <1>1, <2>1, <2>3 DEF AskedInOrder
  <2>5. QED
    BY <1>1, <1>3, <2>1, <2>2, <2>4 DEF AskedInOrder, Unasked, Asking, AskedIsPressed
<1>4. QED
  BY <1>1, <1>2, <1>3 DEF Poll

LEMMA PressAsked ==
  ASSUME NEW d \in Devices, NEW key \in {"space", "letter"}, Press(d, key), AskedInOrder
  PROVE  AskedInOrder'
<1>1. /\ step \in {"scan", "listen"} /\ events' = [events EXCEPT ![d] = Append(@, key)]
      /\ pressed \subseteq pressed' /\ (key = "space" => d \in pressed')
      /\ UNCHANGED <<step, devs, paths, keyb_path, asked>>
  BY DEF Press, lists
<1>2. events' \in [Devices -> Seq({"space", "letter"})]
  BY <1>1 DEF AskedInOrder
<1>3. \A x \in Devices : x # d => Spaces(x)' = Spaces(x)
  BY <1>1 DEF AskedInOrder, Spaces
<1>4. key = "letter" /\ Spaces(d)' # {} => Spaces(d) # {}
  <2>1. events[d] \in Seq({"space", "letter"}) /\ events'[d] = Append(events[d], key)
    BY <1>1 DEF AskedInOrder
  <2>2. key = "letter" => \A n \in DOMAIN events'[d] :
                            events'[d][n] = "space" =>
                              n \in DOMAIN events[d] /\ events[d][n] = "space"
    BY <2>1
  <2>3. QED
    BY <2>2 DEF Spaces
<1>5. \A x \in Devices : Spaces(x)' # {} => x \in pressed'
  BY <1>1, <1>3, <1>4 DEF AskedInOrder
<1>6. QED
  BY <1>1, <1>2, <1>5 DEF AskedInOrder, Unasked, Asking, AskedIsPressed

LEMMA UnplugAsked ==
  ASSUME NEW d \in Devices, Unplug(d), AskedInOrder
  PROVE  AskedInOrder'
<1>1. /\ events' = [events EXCEPT ![d] = <<>>]
      /\ UNCHANGED <<step, devs, paths, keyb_path, asked, pressed>>
  BY DEF Unplug, lists, history
<1>2. events' \in [Devices -> Seq({"space", "letter"})]
  BY <1>1 DEF AskedInOrder
<1>3. \A x \in Devices : Spaces(x)' \subseteq Spaces(x)
  BY <1>1 DEF AskedInOrder, Spaces
<1>4. events = Quiet => events' = Quiet
  BY <1>1 DEF Quiet
<1>5. QED
  BY <1>1, <1>2, <1>3, <1>4 DEF AskedInOrder, AskedIsPressed

LEMMA AskedStep == AskedInOrder /\ [DetectNext]_detectVars => AskedInOrder'
<1> SUFFICES ASSUME AskedInOrder, [DetectNext]_detectVars PROVE AskedInOrder'
  OBVIOUS
<1> USE DEF At, Chosen
<1>1. CASE Poll
  BY <1>1, PollAsked
<1>2. ASSUME NEW d \in Devices, Press(d, "space") \/ Press(d, "letter")
      PROVE  AskedInOrder'
  BY <1>2, PressAsked
<1>3. ASSUME NEW d \in Devices, Unplug(d) PROVE AskedInOrder'
  BY <1>3, UnplugAsked
<1>4. CASE CleanUp \/ Restart
  <2>1. events' = Quiet /\ devs' \in Seq(Devices) /\ paths' = devs'
    <3>1. CASE CleanUp
      BY <3>1 DEF CleanUp
    <3>2. CASE Restart
      BY <3>2 DEF Restart, AskedInOrder, Asking
    <3>3. QED
      BY <1>4, <3>1, <3>2
  <2>2. \A d \in Devices : Spaces(d)' = {}
    BY <2>1 DEF Quiet, Spaces
  <2>3. events' \in [Devices -> Seq({"space", "letter"})]
    BY <2>1 DEF Quiet
  <2>4. AskedIsPressed'
    <3>1. CASE CleanUp
      BY <3>1 DEF CleanUp, history, AskedInOrder, AskedIsPressed
    <3>2. CASE Restart
      BY <3>2 DEF Restart, AskedIsPressed
    <3>3. QED
      BY <1>4, <3>1, <3>2
  <2>5. /\ step' \in Unasked => keyb_path' = NoDevice /\ ~asked'
        /\ step' # "scan"
    BY <1>4 DEF CleanUp, Restart, Unasked
  <2>6. QED
    BY <2>1, <2>2, <2>3, <2>4, <2>5 DEF AskedInOrder
<1>5. ASSUME NEW d \in Devices, Scan(d) PROVE AskedInOrder'
  <2>1. step = "scan" /\ UNCHANGED <<step, keyb_path, events, asked, pressed>>
    BY <1>5 DEF Scan, history
  <2>2. paths' = devs' /\ devs' \in Seq(Devices)
    <3>1. paths = devs /\ devs \in Seq(Devices) /\ Append(devs, d) \in Seq(Devices)
      BY AppendProperties DEF AskedInOrder
    <3>2. \/ paths' = Append(paths, d) /\ devs' = Append(devs, d)
          \/ UNCHANGED <<paths, devs>>
      BY <1>5 DEF Scan
    <3>3. QED
      BY <3>1, <3>2
  <2>3. UNCHANGED AskedIsPressed
    BY <2>1 DEF AskedIsPressed
  <2>4. \A x \in Devices : Spaces(x)' = Spaces(x)
    BY <2>1 DEF Spaces
  <2>5. QED
    BY <2>1, <2>2, <2>3, <2>4 DEF AskedInOrder, Unasked, Asking
<1>6. CASE \/ Retrieve \/ Enumerate \/ RefineDone \/ OpenDir
           \/ \E d \in Devices : Refine(d)
  <2>1. /\ step \in Unasked /\ ~asked /\ keyb_path = NoDevice /\ UNCHANGED <<events, pressed>>
        /\ UNCHANGED <<devs, paths>>
    BY <1>6 DEF Retrieve, Enumerate, RefineDone, OpenDir, Refine, Unasked,
                history, lists, AskedInOrder
  <2>2. /\ step' \in Unasked \cup {"scan"} => keyb_path' = NoDevice
        /\ asked' => step' \notin Unasked /\ keyb_path' = NoDevice
    BY <1>6, <2>1 DEF Retrieve, Enumerate, RefineDone, OpenDir, Refine,
                Unasked, history
  <2>3. \A x \in Devices : Spaces(x)' = Spaces(x)
    BY <2>1 DEF Spaces
  <2>4. events = Quiet /\ UNCHANGED Quiet
    BY <2>1 DEF AskedInOrder, Unasked, Asking, Quiet
  <2>5. QED
    BY <2>1, <2>2, <2>3, <2>4 DEF AskedInOrder, AskedIsPressed
<1>7. CASE \/ ScanDone \/ PassDone \/ RecordDetected \/ RecordAgain
           \/ TimeIsUp \/ UNCHANGED detectVars
  <2>1. /\ UNCHANGED <<devs, paths, events, keyb_path, asked, pressed>>
        /\ step' \in Unasked \cup {"scan"} => step' = step
        /\ step \in Asking => step' \in Asking
    BY <1>7 DEF ScanDone, PassDone, RecordDetected, RecordAgain, Record,
                TimeIsUp, detectVars, lists, history, Unasked, Asking
  <2>2. \A x \in Devices : Spaces(x)' = Spaces(x)
    BY <2>1 DEF Spaces
  <2>3. QED
    BY <2>1, <2>2 DEF AskedInOrder, Unasked, Asking, AskedIsPressed, Quiet
<1>8. QED
  BY <1>1, <1>2, <1>3, <1>4, <1>5, <1>6, <1>7 DEF DetectNext, Constructor

\* For any number of devices of any kind, over restarts and devices that are
\* pulled out, a device that comes out of the question to the user is one the
\* space bar was pressed on (device_manager.cpp:265-347).
THEOREM QuestionIsAnswered == DetectSpec => []AskedIsPressed
<1>1. AskedInOrder => AskedIsPressed
  BY DEF AskedInOrder
<1>2. QED
  BY AskedInit, AskedStep, <1>1, PTL DEF DetectSpec

\* The device in use is the one the next start will find in the file, unless
\* the file could not be read or written (daemon.cpp:9-17,
\* device_manager.cpp:52-116).
THEOREM ChoiceIsRemembered == DetectSpec => []ConfigAgrees
<1>1. DetectInit => ConfigAgrees
  BY DEF DetectInit, ConfigAgrees
<1>2. ConfigAgrees /\ [DetectNext]_detectVars => ConfigAgrees'
  <2> SUFFICES ASSUME ConfigAgrees, [DetectNext]_detectVars, step' = "ready", ~failed'
               PROVE  config' = keyb_path'
    BY DEF ConfigAgrees
  <2> USE DEF ConfigAgrees, At, Chosen
  <2>1. CASE Retrieve \/ RecordAgain
    BY <2>1 DEF Retrieve, RecordAgain, Record
  <2>2. CASE \/ Enumerate \/ RefineDone \/ OpenDir \/ ScanDone \/ Poll
             \/ PassDone \/ RecordDetected \/ CleanUp \/ TimeIsUp \/ Restart
    BY <2>2 DEF Enumerate, RefineDone, OpenDir, ScanDone, Poll, PassDone,
                RecordDetected, Record, CleanUp, TimeIsUp, Restart
  <2>3. ASSUME NEW d \in Devices, Refine(d) \/ Scan(d) \/ Press(d, "space")
                                 \/ Press(d, "letter")
        PROVE  config' = keyb_path'
    BY <2>3 DEF Refine, Scan, Press
  <2>4. CASE (\E d \in Devices : Unplug(d)) \/ UNCHANGED detectVars
    BY <2>4 DEF Unplug, detectVars, history
  <2>5. QED
    BY <2>1, <2>2, <2>3, <2>4 DEF DetectNext, Constructor
<1>3. QED
  BY <1>1, <1>2, PTL DEF DetectSpec
=============================================================================
