------------------------ MODULE MessageWindows_proofs ------------------------
(***************************************************************************)
(* Proofs about the conversation windows of a client program, for any      *)
(* messages, contacts and number of windows.                               *)
(***************************************************************************)
EXTENDS MessageWindows, SequenceTheorems, TLAPS

---------------------------------------------------------------------------
(* The windows. *)

\* A window that is constructed comes after those there are.
LEMMA NewFrameAppends ==
    ASSUME TypeOK, NEW k \in Contacts, NewFrame(k)
    PROVE  /\ frames' \in Seq(Frame)
           /\ Len(frames') = Len(frames) + 1
           /\ Len(frames') <= MaxFrames
           /\ Len(frames') \in DOMAIN frames'
           /\ frames'[Len(frames')] =
                [contact |-> k, open |-> TRUE, listModel |-> {}]
           /\ \A f \in DOMAIN frames' :
                \/ f = Len(frames')
                \/ f \in DOMAIN frames /\ frames'[f] = frames[f]
           /\ \A f \in DOMAIN frames :
                f \in DOMAIN frames' /\ frames'[f] = frames[f]
<1> DEFINE new == [contact |-> k, open |-> TRUE, listModel |-> {}]
<1>1. frames \in Seq(Frame) /\ new \in Frame
  BY DEF TypeOK, Frame
<1>2. frames' = Append(frames, new) /\ Len(frames) < MaxFrames
  BY DEF NewFrame
<1> HIDE DEF new
<1>3. /\ frames' \in Seq(Frame)
      /\ Len(frames') = Len(frames) + 1
      /\ \A f \in DOMAIN frames : frames'[f] = frames[f]
      /\ frames'[Len(frames')] = new
  BY <1>1, <1>2, AppendProperties
<1>4. DOMAIN frames = 1 .. Len(frames) /\ DOMAIN frames' = 1 .. Len(frames')
  BY <1>1, <1>3
<1>5. Len(frames) \in Nat /\ MaxFrames \in Nat
  BY <1>1, MaxFramesAssumption
<1> QED
  BY <1>2, <1>3, <1>4, <1>5 DEF new

\* A window that is there keeps its place when its contents change.
LEMMA FrameChanges ==
    ASSUME TypeOK, NEW f \in DOMAIN frames, NEW w \in Frame,
           frames' = [frames EXCEPT ![f] = w]
    PROVE  /\ frames' \in Seq(Frame)
           /\ Len(frames') = Len(frames)
           /\ DOMAIN frames' = DOMAIN frames
           /\ \A g \in DOMAIN frames :
                frames'[g] = IF g = f THEN w ELSE frames[g]
<1>1. frames \in Seq(Frame) /\ f \in 1 .. Len(frames)
  BY DEF TypeOK
<1>2. /\ frames' \in Seq(Frame)
      /\ Len(frames') = Len(frames)
      /\ \A g \in 1 .. Len(frames) :
           frames'[g] = IF g = f THEN w ELSE frames[g]
  BY <1>1, ExceptSeq
<1> QED
  BY <1>1, <1>2

\* Messages that stay where they are stay in one conversation.
LEMMA ConversationsStay ==
    ASSUME InOneConversation, confirmed' = confirmed,
           \A m \in confirmed : Holding(m)' = Holding(m),
           \A f \in DOMAIN frames : frames'[f].contact = frames[f].contact
    PROVE  InOneConversation'
<1> SUFFICES ASSUME NEW m \in confirmed
             PROVE  \E f \in Holding(m)' :
                       Holding(m)' = {f} /\ frames'[f].contact = Sender[m]
  BY DEF InOneConversation
<1>1. PICK f \in Holding(m) : Holding(m) = {f} /\ frames[f].contact = Sender[m]
  BY DEF InOneConversation
<1>2. f \in DOMAIN frames
  BY <1>1 DEF Holding
<1> QED
  BY <1>1, <1>2

---------------------------------------------------------------------------
(* The receiver thread. *)

\* Asking the map begins with a message that is not confirmed.
LEMMA ContainsKeyKeeps == WInv /\ ContainsKey => WInv'
<1> SUFFICES ASSUME WInv, ContainsKey
             PROVE  WInv'
  OBVIOUS
<1> USE SenderAssumption, NoneAssumption
    DEF WInv, TypeOK, receiverVars, eventVars, closeVars, ContainsKey
<1>1. TypeOK'
  OBVIOUS
<1>2. ReceiverHolds'
  BY DEF ReceiverHolds
<1>3. EventThreadHolds'
  BY DEF EventThreadHolds
<1>4. EntriesAreOwn'
  BY DEF EntriesAreOwn
<1>5. ListedIsConfirmed'
  BY DEF ListedIsConfirmed
<1>6. ClosedAreCounted'
  BY DEF ClosedAreCounted
<1>7. SeenStays'
  BY DEF SeenStays
<1>8. InOneConversation'
  BY DEF InOneConversation, Holding
<1>9. ASSUME NEW k \in Contacts \ closes'
      PROVE  OneTooMany(k)'
  BY DEF OneTooMany, FramesOf, ReceiverIs, EventThreadOpens,
         EventThreadRegisters
<1> QED
  BY <1>1, <1>2, <1>3, <1>4, <1>5, <1>6, <1>7, <1>8, <1>9

\* What the map leads to is a window of the sender.
LEMMA GetFrameKeeps == WInv /\ GetFrame => WInv'
<1> SUFFICES ASSUME WInv, GetFrame
             PROVE  WInv'
  OBVIOUS
<1> USE SenderAssumption, NoneAssumption
    DEF WInv, TypeOK, receiverVars, eventVars, closeVars, GetFrame
<1>1. TypeOK'
  BY DEF ReceiverHolds
<1>2. ReceiverHolds'
  BY DEF EntriesAreOwn, ReceiverHolds
<1>3. EventThreadHolds'
  BY DEF EventThreadHolds
<1>4. EntriesAreOwn'
  BY DEF EntriesAreOwn
<1>5. ListedIsConfirmed'
  BY DEF ListedIsConfirmed
<1>6. ClosedAreCounted'
  BY DEF ClosedAreCounted
<1>7. SeenStays'
  BY DEF SeenStays
<1>8. InOneConversation'
  BY DEF InOneConversation, Holding
<1>9. ASSUME NEW k \in Contacts \ closes'
      PROVE  OneTooMany(k)'
  BY DEF OneTooMany, FramesOf, ReceiverIs, EventThreadOpens,
         EventThreadRegisters
<1> QED
  BY <1>1, <1>2, <1>3, <1>4, <1>5, <1>6, <1>7, <1>8, <1>9

\* The new window is one of the sender, and empty.
LEMMA CreateFrameKeeps == WInv /\ CreateFrame => WInv'
<1> SUFFICES ASSUME WInv, CreateFrame
             PROVE  WInv'
  OBVIOUS
<1> USE SenderAssumption, NoneAssumption
    DEF WInv, TypeOK, receiverVars, eventVars, closeVars, CreateFrame
<1> DEFINE owner == Sender[message]
           new == [contact |-> owner, open |-> TRUE, listModel |-> {}]
<1>0. /\ owner \in Contacts
      /\ frames' \in Seq(Frame)
      /\ Len(frames') = Len(frames) + 1
      /\ Len(frames') <= MaxFrames
      /\ Len(frames') \in DOMAIN frames'
      /\ frames'[Len(frames')] = new
      /\ \A f \in DOMAIN frames' :
           \/ f = Len(frames')
           \/ f \in DOMAIN frames /\ frames'[f] = frames[f]
      /\ \A f \in DOMAIN frames :
           f \in DOMAIN frames' /\ frames'[f] = frames[f]
  BY NewFrameAppends DEF ReceiverHolds
<1>1. TypeOK'
  BY <1>0
<1>2. ReceiverHolds'
  BY <1>0 DEF ReceiverHolds
<1>3. EventThreadHolds'
  BY <1>0 DEF EventThreadHolds
<1>4. EntriesAreOwn'
  BY <1>0 DEF EntriesAreOwn
<1>5. ListedIsConfirmed'
  BY <1>0 DEF ListedIsConfirmed
<1>6. ClosedAreCounted'
  BY <1>0 DEF ClosedAreCounted
<1>7. SeenStays'
  BY <1>0 DEF SeenStays
<1>8. InOneConversation'
  <2>1. ASSUME NEW m \in confirmed
        PROVE  Holding(m)' = Holding(m)
    BY <1>0 DEF Holding
  <2> QED
    BY <1>0, <2>1, ConversationsStay
<1>9. ASSUME NEW k \in Contacts \ closes'
      PROVE  OneTooMany(k)'
  <2>1. FramesOf(k)' = IF k = owner THEN FramesOf(k) \cup {Len(frames')}
                                    ELSE FramesOf(k)
    BY <1>0 DEF FramesOf
  <2>2. OneTooMany(k) /\ k \in Contacts
    OBVIOUS
  <2> QED
    BY <1>0, <2>1, <2>2
       DEF OneTooMany, ReceiverIs, EventThreadOpens, EventThreadRegisters
<1> QED
  BY <1>1, <1>2, <1>3, <1>4, <1>5, <1>6, <1>7, <1>8, <1>9

\* Registering the receiver's window.
LEMMA PutFrameKeeps == WInv /\ PutFrame => WInv'
<1> SUFFICES ASSUME WInv, PutFrame
             PROVE  WInv'
  OBVIOUS
<1> USE SenderAssumption, NoneAssumption
    DEF WInv, TypeOK, receiverVars, eventVars, closeVars, PutFrame
<1>1. TypeOK'
  BY DEF ReceiverHolds
<1>2. ReceiverHolds'
  BY DEF ReceiverHolds
<1>3. EventThreadHolds'
  BY DEF EventThreadHolds
<1>4. EntriesAreOwn'
  BY DEF ReceiverHolds, EntriesAreOwn
<1>5. ListedIsConfirmed'
  BY DEF ListedIsConfirmed
<1>6. ClosedAreCounted'
  BY DEF ClosedAreCounted
<1>7. SeenStays'
  BY DEF SeenStays
<1>8. InOneConversation'
  BY DEF InOneConversation, Holding
<1>9. ASSUME NEW k \in Contacts \ closes'
      PROVE  OneTooMany(k)'
  BY DEF ReceiverHolds, OneTooMany, FramesOf, ReceiverIs, EventThreadOpens,
         EventThreadRegisters
<1> QED
  BY <1>1, <1>2, <1>3, <1>4, <1>5, <1>6, <1>7, <1>8, <1>9

\* The message goes into one window, of its sender.
LEMMA AddMessageKeeps == WInv /\ AddMessage => WInv'
<1> SUFFICES ASSUME WInv, AddMessage
             PROVE  WInv'
  OBVIOUS
<1> USE SenderAssumption, NoneAssumption
    DEF WInv, TypeOK, receiverVars, eventVars, closeVars, AddMessage
<1> DEFINE filled == [frames[frame] EXCEPT !.listModel = @ \cup {message}]
<1>0. /\ frame \in DOMAIN frames
      /\ message \in Messages \ confirmed
      /\ frames[frame].contact = Sender[message]
      /\ frames' \in Seq(Frame)
      /\ Len(frames') = Len(frames)
      /\ DOMAIN frames' = DOMAIN frames
      /\ \A f \in DOMAIN frames :
           frames'[f] = IF f = frame THEN filled ELSE frames[f]
      /\ filled \in Frame
      /\ filled.contact = frames[frame].contact
      /\ filled.open = frames[frame].open
      /\ filled.listModel = frames[frame].listModel \cup {message}
  <2>1. frame \in DOMAIN frames /\ message \in Messages \ confirmed
    BY DEF ReceiverHolds
  <2>2. frames[frame] \in Frame
    BY <2>1
  <2>3. /\ filled \in Frame
        /\ filled.contact = frames[frame].contact
        /\ filled.open = frames[frame].open
        /\ filled.listModel = frames[frame].listModel \cup {message}
    BY <2>1, <2>2 DEF Frame
  <2>4. frames' = [frames EXCEPT ![frame] = filled]
    OBVIOUS
  <2> QED
    BY <2>1, <2>3, <2>4, FrameChanges DEF ReceiverHolds
<1> HIDE DEF filled
<1>1. TypeOK'
  BY <1>0
<1>2. ReceiverHolds'
  BY <1>0 DEF ReceiverHolds
<1>3. EventThreadHolds'
  BY <1>0 DEF EventThreadHolds
<1>4. EntriesAreOwn'
  BY <1>0 DEF EntriesAreOwn
<1>5. ListedIsConfirmed'
  BY <1>0 DEF ListedIsConfirmed
<1>6. ClosedAreCounted'
  BY <1>0 DEF ClosedAreCounted
<1>7. SeenStays'
  BY <1>0 DEF SeenStays
<1>8. InOneConversation'
  <2>1. ASSUME NEW m \in confirmed
        PROVE  Holding(m)' = Holding(m)
    BY <1>0 DEF Holding
  <2> PICK l \in Messages : l = message
    BY <1>0
  <2>2. Holding(l)' = {frame}
    BY <1>0 DEF Holding, ListedIsConfirmed
  <2>3. ASSUME NEW m \in confirmed
        PROVE  \E f \in Holding(m)' :
                  Holding(m)' = {f} /\ frames'[f].contact = Sender[m]
    <3>1. PICK f \in Holding(m) :
             Holding(m) = {f} /\ frames[f].contact = Sender[m]
      BY DEF InOneConversation
    <3>2. f \in DOMAIN frames
      BY <3>1 DEF Holding
    <3> QED
      BY <1>0, <2>1, <3>1, <3>2
  <2>4. frames'[frame].contact = Sender[l]
    BY <1>0
  <2> QED
    BY <2>2, <2>3, <2>4 DEF InOneConversation
<1>9. ASSUME NEW k \in Contacts \ closes'
      PROVE  OneTooMany(k)'
  BY <1>0 DEF OneTooMany, FramesOf, ReceiverIs, EventThreadOpens,
         EventThreadRegisters
<1> QED
  BY <1>1, <1>2, <1>3, <1>4, <1>5, <1>6, <1>7, <1>8, <1>9

---------------------------------------------------------------------------
(* The event thread. *)

\* Selecting a contact that is not in the map.
LEMMA ValueChangedKeeps == WInv /\ ValueChanged => WInv'
<1> SUFFICES ASSUME WInv, ValueChanged
             PROVE  WInv'
  OBVIOUS
<1> USE SenderAssumption, NoneAssumption
    DEF WInv, TypeOK, receiverVars, eventVars, closeVars, ValueChanged
<1>1. TypeOK'
  OBVIOUS
<1>2. ReceiverHolds'
  BY DEF ReceiverHolds
<1>3. EventThreadHolds'
  BY DEF EventThreadHolds
<1>4. EntriesAreOwn'
  BY DEF EntriesAreOwn
<1>5. ListedIsConfirmed'
  BY DEF ListedIsConfirmed
<1>6. ClosedAreCounted'
  BY DEF ClosedAreCounted
<1>7. SeenStays'
  BY DEF SeenStays
<1>8. InOneConversation'
  BY DEF InOneConversation, Holding
<1>9. ASSUME NEW k \in Contacts \ closes'
      PROVE  OneTooMany(k)'
  BY DEF OneTooMany, FramesOf, ReceiverIs, EventThreadOpens,
         EventThreadRegisters
<1> QED
  BY <1>1, <1>2, <1>3, <1>4, <1>5, <1>6, <1>7, <1>8, <1>9

\* The new window is one of the contact selected, and empty.
LEMMA OpenFrameKeeps == WInv /\ OpenFrame => WInv'
<1> SUFFICES ASSUME WInv, OpenFrame
             PROVE  WInv'
  OBVIOUS
<1> USE SenderAssumption, NoneAssumption
    DEF WInv, TypeOK, receiverVars, eventVars, closeVars, OpenFrame
<1> DEFINE owner == selected
           new == [contact |-> owner, open |-> TRUE, listModel |-> {}]
<1>0. /\ owner \in Contacts
      /\ frames' \in Seq(Frame)
      /\ Len(frames') = Len(frames) + 1
      /\ Len(frames') <= MaxFrames
      /\ Len(frames') \in DOMAIN frames'
      /\ frames'[Len(frames')] = new
      /\ \A f \in DOMAIN frames' :
           \/ f = Len(frames')
           \/ f \in DOMAIN frames /\ frames'[f] = frames[f]
      /\ \A f \in DOMAIN frames :
           f \in DOMAIN frames' /\ frames'[f] = frames[f]
  BY NewFrameAppends DEF OpenFrame
<1>1. TypeOK'
  BY <1>0
<1>2. ReceiverHolds'
  BY <1>0 DEF ReceiverHolds
<1>3. EventThreadHolds'
  BY <1>0 DEF EventThreadHolds
<1>4. EntriesAreOwn'
  BY <1>0 DEF EntriesAreOwn
<1>5. ListedIsConfirmed'
  BY <1>0 DEF ListedIsConfirmed
<1>6. ClosedAreCounted'
  BY <1>0 DEF ClosedAreCounted
<1>7. SeenStays'
  BY <1>0 DEF SeenStays
<1>8. InOneConversation'
  <2>1. ASSUME NEW m \in confirmed
        PROVE  Holding(m)' = Holding(m)
    BY <1>0 DEF Holding
  <2> QED
    BY <1>0, <2>1, ConversationsStay
<1>9. ASSUME NEW k \in Contacts \ closes'
      PROVE  OneTooMany(k)'
  <2>1. FramesOf(k)' = IF k = owner THEN FramesOf(k) \cup {Len(frames')}
                                    ELSE FramesOf(k)
    BY <1>0 DEF FramesOf
  <2>2. OneTooMany(k) /\ k \in Contacts
    OBVIOUS
  <2> QED
    BY <1>0, <2>1, <2>2
       DEF OneTooMany, ReceiverIs, EventThreadOpens, EventThreadRegisters
<1> QED
  BY <1>1, <1>2, <1>3, <1>4, <1>5, <1>6, <1>7, <1>8, <1>9

\* Registering the window of the contact selected.
LEMMA RegisterFrameKeeps == WInv /\ RegisterFrame => WInv'
<1> SUFFICES ASSUME WInv, RegisterFrame
             PROVE  WInv'
  OBVIOUS
<1> USE SenderAssumption, NoneAssumption
    DEF WInv, TypeOK, receiverVars, eventVars, closeVars, RegisterFrame
<1>1. TypeOK'
  BY DEF EventThreadHolds
<1>2. ReceiverHolds'
  BY DEF ReceiverHolds
<1>3. EventThreadHolds'
  BY DEF EventThreadHolds
<1>4. EntriesAreOwn'
  BY DEF EventThreadHolds, EntriesAreOwn
<1>5. ListedIsConfirmed'
  BY DEF ListedIsConfirmed
<1>6. ClosedAreCounted'
  BY DEF ClosedAreCounted
<1>7. SeenStays'
  BY DEF EventThreadHolds, SeenStays
<1>8. InOneConversation'
  BY DEF InOneConversation, Holding
<1>9. ASSUME NEW k \in Contacts \ closes'
      PROVE  OneTooMany(k)'
  BY DEF EventThreadHolds, OneTooMany, FramesOf, ReceiverIs, EventThreadOpens,
         EventThreadRegisters
<1> QED
  BY <1>1, <1>2, <1>3, <1>4, <1>5, <1>6, <1>7, <1>8, <1>9

\* Closing a window removes the entry of its contact.
LEMMA WindowClosingKeeps == WInv /\ WindowClosing => WInv'
<1> SUFFICES ASSUME WInv, WindowClosing
             PROVE  WInv'
  OBVIOUS
<1> USE SenderAssumption, NoneAssumption
    DEF WInv, TypeOK, receiverVars, eventVars, closeVars, WindowClosing
<1> PICK f \in DOMAIN frames :
           /\ frames[f].open
           /\ msgFrames' = [msgFrames EXCEPT ![frames[f].contact] = 0]
           /\ frames' = [frames EXCEPT ![f].open = FALSE]
           /\ closes' = closes \cup {frames[f].contact}
           /\ meanwhile' = meanwhile \cup {frames[f].contact}
  OBVIOUS
<1> DEFINE shut == [frames[f] EXCEPT !.open = FALSE]
<1>0. /\ frames[f].contact \in Contacts
      /\ frames' \in Seq(Frame)
      /\ Len(frames') = Len(frames)
      /\ DOMAIN frames' = DOMAIN frames
      /\ \A g \in DOMAIN frames : frames'[g] = IF g = f THEN shut ELSE frames[g]
      /\ shut.contact = frames[f].contact
      /\ shut.open = FALSE
      /\ shut.listModel = frames[f].listModel
  <2>1. frames[f] \in Frame
    OBVIOUS
  <2>2. /\ shut \in Frame
        /\ frames[f].contact \in Contacts
        /\ shut.contact = frames[f].contact
        /\ shut.open = FALSE
        /\ shut.listModel = frames[f].listModel
    BY <2>1 DEF Frame
  <2>3. frames' = [frames EXCEPT ![f] = shut]
    OBVIOUS
  <2>4. TypeOK
    OBVIOUS
  <2> HIDE DEF shut, WInv, TypeOK, WindowClosing
  <2> QED
    BY <2>2, <2>3, <2>4, FrameChanges
<1> HIDE DEF shut
<1>1. TypeOK'
  BY <1>0
<1>2. ReceiverHolds'
  BY <1>0 DEF ReceiverHolds
<1>3. EventThreadHolds'
  BY <1>0 DEF EventThreadHolds
<1>4. EntriesAreOwn'
  BY <1>0 DEF EntriesAreOwn
<1>5. ListedIsConfirmed'
  BY <1>0 DEF ListedIsConfirmed
<1>6. ClosedAreCounted'
  BY <1>0 DEF ClosedAreCounted
<1>7. SeenStays'
  BY <1>0 DEF SeenStays
<1>8. InOneConversation'
  <2>1. ASSUME NEW m \in confirmed
        PROVE  Holding(m)' = Holding(m)
    BY <1>0 DEF Holding
  <2> QED
    BY <1>0, <2>1, ConversationsStay
<1>9. ASSUME NEW k \in Contacts \ closes'
      PROVE  OneTooMany(k)'
  BY <1>0 DEF OneTooMany, FramesOf, ReceiverIs, EventThreadOpens,
         EventThreadRegisters
<1> QED
  BY <1>1, <1>2, <1>3, <1>4, <1>5, <1>6, <1>7, <1>8, <1>9

---------------------------------------------------------------------------
(* The theorems. *)

LEMMA InitWInv == Init => WInv
<1> SUFFICES ASSUME Init
             PROVE  WInv
  OBVIOUS
<1>1. DOMAIN frames = {} /\ frames \in Seq(Frame) /\ Len(frames) = 0
  BY DEF Init
<1>2. TypeOK
  BY <1>1, MaxFramesAssumption DEF Init, TypeOK
<1>3. ReceiverHolds /\ EventThreadHolds /\ EntriesAreOwn /\ SeenStays
  BY DEF Init, ReceiverHolds, EventThreadHolds, EntriesAreOwn, SeenStays
<1>4. ListedIsConfirmed /\ ClosedAreCounted /\ InOneConversation
  BY <1>1 DEF Init, ListedIsConfirmed, ClosedAreCounted, InOneConversation
<1>5. ASSUME NEW k \in Contacts
      PROVE  OneTooMany(k)
  BY <1>1 DEF Init, OneTooMany, FramesOf
<1> QED
  BY <1>2, <1>3, <1>4, <1>5 DEF WInv

LEMMA StutterKeepsWInv == WInv /\ UNCHANGED vars => WInv'
  BY DEF vars, receiverVars, eventVars, closeVars, WInv, TypeOK, ReceiverHolds,
         EventThreadHolds, EntriesAreOwn, ListedIsConfirmed, ClosedAreCounted,
         SeenStays, InOneConversation, Holding, OneTooMany, FramesOf,
         ReceiverIs, EventThreadOpens, EventThreadRegisters

LEMMA NextWInv == WInv /\ [Next]_vars => WInv'
  BY ContainsKeyKeeps, GetFrameKeeps, CreateFrameKeeps, PutFrameKeeps,
     AddMessageKeeps, ValueChangedKeeps, OpenFrameKeeps, RegisterFrameKeeps,
     WindowClosingKeeps, StutterKeepsWInv
     DEF Next, Receiver, EventThread

\* The invariant that the following theorems rest on.
THEOREM WInvHolds == Spec => []WInv
  BY InitWInv, NextWInv, PTL DEF Spec

\* The windows, the map and the two threads' variables hold what they are
\* meant to hold.
THEOREM WindowsTypeCorrect == Spec => []TypeOK
<1>1. WInv => TypeOK
  BY DEF WInv
<1> QED
  BY <1>1, WInvHolds, PTL

\* A confirmed message is in one window, one of its sender, whatever the two
\* threads do to the map between each other's calls.
THEOREM OneConversation == Spec => []InOneConversation
<1>1. WInv => InOneConversation
  BY DEF WInv
<1> QED
  BY <1>1, WInvHolds, PTL

\* While no window of a contact has been closed, there are at most two of
\* them, and what the contact has written is on the screen.
THEOREM ShownWhileOpen == Spec => []ShownUntilOneIsClosed
<1>1. WInv => ShownUntilOneIsClosed
  <2> SUFFICES ASSUME WInv, NEW k \in Contacts \ closes
               PROVE  /\ \A m \in confirmed :
                           Sender[m] = k => Holding(m) \subseteq OpenFor(k)
                      /\ \A f, g, h \in OpenFor(k) : f = g \/ g = h \/ f = h
    BY DEF ShownUntilOneIsClosed
  <2>1. OpenFor(k) \subseteq FramesOf(k) /\ OneTooMany(k)
    BY DEF WInv, OpenFor, FramesOf
  <2>2. ASSUME NEW m \in confirmed, Sender[m] = k
        PROVE  Holding(m) \subseteq OpenFor(k)
    <3>1. PICK f \in Holding(m) :
             Holding(m) = {f} /\ frames[f].contact = Sender[m]
      BY DEF WInv, InOneConversation
    <3>2. f \in DOMAIN frames /\ frames[f].open
      BY <2>2, <3>1 DEF Holding, WInv, ClosedAreCounted
    <3> QED
      BY <2>2, <3>1, <3>2 DEF OpenFor
  <2> QED
    BY <2>1, <2>2 DEF OneTooMany
<1> QED
  BY <1>1, WInvHolds, PTL

\* The receiver thread dies only when a window of the sender of the message
\* in its hands has been closed since the thread called containsKey.
THEOREM DeathFollowsAClose == Spec => DiesOnlyOfAClose
<1>1. WInv /\ [Next]_vars =>
        [receiver # "dead" /\ receiver' = "dead"
           => Sender[message] \in meanwhile]_vars
  BY DEF WInv, SeenStays, Next, Receiver, EventThread, ContainsKey, GetFrame,
         CreateFrame, PutFrame, AddMessage, ValueChanged, OpenFrame,
         RegisterFrame, WindowClosing, receiverVars, eventVars, closeVars, vars
<1> QED
  BY <1>1, WInvHolds, PTL DEF Spec, DiesOnlyOfAClose

\* An entry begins to lead to a closed window only in the step in which the
\* receiver thread registers it.
THEOREM StaleOnlyFromRace == Spec => StaleEntryOnlyFromRace
<1>1. WInv /\ [Next]_vars =>
        [\A k \in Stale(frames', msgFrames') \ Stale(frames, msgFrames) :
            receiver = "put" /\ Sender[message] = k]_vars
  <2> SUFFICES ASSUME WInv, Next,
                      NEW k \in Stale(frames', msgFrames'),
                      k \notin Stale(frames, msgFrames)
               PROVE  receiver = "put" /\ Sender[message] = k
    BY DEF vars, Stale
  <2>1. /\ k \in Contacts
        /\ msgFrames'[k] # 0
        /\ ~frames'[msgFrames'[k]].open
        /\ msgFrames[k] = 0 \/ frames[msgFrames[k]].open
    BY DEF Stale
  <2>2. TypeOK
    BY DEF WInv
  <2>3. CASE ContainsKey \/ GetFrame \/ ValueChanged
    BY <2>1, <2>3 DEF ContainsKey, GetFrame, ValueChanged, receiverVars
  <2>4. ASSUME NEW o \in Contacts, NewFrame(o), msgFrames' = msgFrames
        PROVE  FALSE
    <3>1. msgFrames[k] \in DOMAIN frames
      BY <2>1, <2>2, <2>4 DEF TypeOK
    <3>2. frames'[msgFrames[k]] = frames[msgFrames[k]]
      BY <2>2, <2>4, <3>1, NewFrameAppends
    <3> QED
      BY <2>1, <2>4, <3>1, <3>2
  <2>5. CASE CreateFrame
    BY <2>2, <2>4, <2>5, SenderAssumption
       DEF CreateFrame, WInv, ReceiverHolds
  <2>6. CASE OpenFrame
    BY <2>2, <2>4, <2>6 DEF OpenFrame, TypeOK
  <2>7. CASE PutFrame
    BY <2>1, <2>2, <2>7 DEF PutFrame, TypeOK
  <2>8. CASE AddMessage
    BY <2>1, <2>2, <2>8 DEF AddMessage, TypeOK, Frame
  <2>9. CASE RegisterFrame
    BY <2>1, <2>2, <2>9
       DEF RegisterFrame, TypeOK, WInv, EventThreadHolds
  <2>10. CASE WindowClosing
    BY <2>1, <2>2, <2>10
       DEF WindowClosing, TypeOK, Frame, WInv, EntriesAreOwn
  <2> QED
    BY <2>3, <2>5, <2>6, <2>7, <2>8, <2>9, <2>10
       DEF Next, Receiver, EventThread
<1> QED
  BY <1>1, WInvHolds, PTL DEF Spec, StaleEntryOnlyFromRace
=============================================================================
