--------------------------- MODULE MessageWindows ---------------------------
(***************************************************************************)
(* The conversation windows of one client program (Client.msgFrames and    *)
(* ClientMessageFrame), used by two threads without a common lock: the     *)
(* receiver thread, which shows a message that has arrived and confirms    *)
(* it, and the event thread, on which the user selects contacts and closes *)
(* windows.                                                                *)
(*                                                                         *)
(* A step is one call on the map, the construction of a window or the      *)
(* insertion of a message into one.  A window is on the screen as soon as  *)
(* it is constructed: its constructor makes it visible.                    *)
(***************************************************************************)
EXTENDS Naturals, Sequences

CONSTANTS
    Messages,     \* messages that may arrive
    Contacts,     \* ids of people one may converse with
    Sender,       \* Sender[m] is what getSenderId answers for message m
    NoMessage,    \* the receiver thread is waiting for a packet
    NoContact,    \* the event thread is waiting for an event
    MaxFrames     \* bound on the windows that are ever constructed

ASSUME SenderAssumption == Sender \in [Messages -> Contacts]

ASSUME NoneAssumption == NoMessage \notin Messages /\ NoContact \notin Contacts

ASSUME MaxFramesAssumption == MaxFrames \in Nat

VARIABLES
    frames,      \* the windows constructed so far; a window is its position
    msgFrames,   \* contact id -> window registered for it, 0 for none
    message,     \* receiver thread: the message being handled
    receiver,    \* receiver thread: its next step, or "dead"
    frame,       \* receiver thread: its local variable frame
    confirmed,   \* messages confirmed to the server
    selected,    \* event thread: the contact just selected
    chosen,      \* event thread: its local variable frame, 0 before it is set
    closes,      \* history: contacts some window of whose has been closed
    meanwhile    \* history: those of them since the receiver thread last
                 \* called msgFrames.containsKey

receiverVars == <<message, receiver, frame, confirmed>>
eventVars == <<selected, chosen>>
closeVars == <<closes, meanwhile>>
vars == <<frames, msgFrames, receiverVars, eventVars, closeVars>>

Frame == [contact : Contacts, open : BOOLEAN, listModel : SUBSET Messages]

TypeOK ==
    /\ frames \in Seq(Frame)
    /\ Len(frames) <= MaxFrames
    /\ msgFrames \in [Contacts -> 0 .. Len(frames)]
    /\ message \in Messages \cup {NoMessage}
    /\ receiver \in {"wait", "get", "create", "put", "add", "dead"}
    /\ frame \in 0 .. Len(frames)
    /\ confirmed \in SUBSET Messages
    /\ selected \in Contacts \cup {NoContact}
    /\ chosen \in 0 .. Len(frames)
    /\ closes \in SUBSET Contacts
    /\ meanwhile \in SUBSET Contacts

Init ==
    /\ frames = <<>>
    /\ msgFrames = [k \in Contacts |-> 0]
    /\ message = NoMessage
    /\ receiver = "wait"
    /\ frame = 0
    /\ confirmed = {}
    /\ selected = NoContact
    /\ chosen = 0
    /\ closes = {}
    /\ meanwhile = {}

\* new ClientMessageFrame: the window appears on the screen.
NewFrame(k) ==
    /\ Len(frames) < MaxFrames
    /\ frames' = Append(frames, [contact |-> k, open |-> TRUE,
                                 listModel |-> {}])

---------------------------------------------------------------------------
(* The receiver thread: handleReceivedMessage. *)

\* A message arrives; msgFrames.containsKey is asked for its sender.
ContainsKey ==
    /\ receiver = "wait"
    /\ \E m \in Messages \ confirmed :
         /\ message' = m
         /\ receiver' = IF msgFrames[Sender[m]] # 0 THEN "get" ELSE "create"
    /\ meanwhile' = {}
    /\ UNCHANGED <<frames, msgFrames, frame, confirmed, eventVars, closes>>

\* msgFrames.get, and the call on what it returns: on null it ends the thread
\* with a NullPointerException, which run does not catch.
GetFrame ==
    /\ receiver = "get"
    /\ frame' = msgFrames[Sender[message]]
    /\ receiver' = IF frame' = 0 THEN "dead" ELSE "add"
    /\ UNCHANGED <<frames, msgFrames, message, confirmed, eventVars, closeVars>>

CreateFrame ==
    /\ receiver = "create"
    /\ NewFrame(Sender[message])
    /\ frame' = Len(frames')
    /\ receiver' = "put"
    /\ UNCHANGED <<msgFrames, message, confirmed, eventVars, closeVars>>

\* Fault: the new window is not entered into the map.
PutFrameNowhere ==
    /\ receiver = "put"
    /\ receiver' = "add"
    /\ UNCHANGED <<frames, msgFrames, message, frame, confirmed, eventVars,
                   closeVars>>

PutFrame ==
    /\ receiver = "put"
    /\ msgFrames' = [msgFrames EXCEPT ![Sender[message]] = frame]
    /\ receiver' = "add"
    /\ UNCHANGED <<frames, message, frame, confirmed, eventVars, closeVars>>

\* Fault: the message goes to the window constructed last.
AddMessageToLastFrame ==
    /\ receiver = "add"
    /\ frames' = [frames EXCEPT ![Len(frames)].listModel = @ \cup {message}]
    /\ confirmed' = confirmed \cup {message}
    /\ message' = NoMessage
    /\ receiver' = "wait"
    /\ UNCHANGED <<msgFrames, frame, eventVars, closeVars>>

\* Fault: the local variable is cleared before the message is added.
AddMessageCleared ==
    /\ receiver = "add"
    /\ message' = NoMessage
    /\ frames' = [frames EXCEPT ![frame].listModel = @ \cup {message'}]
    /\ confirmed' = confirmed \cup {message}
    /\ receiver' = "wait"
    /\ UNCHANGED <<msgFrames, frame, eventVars, closeVars>>

\* frame.addMessage, whether the window is still on the screen or not; then
\* the message is confirmed and the thread waits for the next packet.
AddMessage ==
    /\ receiver = "add"
    /\ frames' = [frames EXCEPT ![frame].listModel = @ \cup {message}]
    /\ confirmed' = confirmed \cup {message}
    /\ message' = NoMessage
    /\ receiver' = "wait"
    /\ UNCHANGED <<msgFrames, frame, eventVars, closeVars>>

---------------------------------------------------------------------------
(* The event thread. *)

\* valueChanged: a contact is selected; one that is in the map needs nothing.
ValueChanged ==
    /\ selected = NoContact
    /\ \E k \in Contacts :
         /\ msgFrames[k] = 0
         /\ selected' = k
    /\ UNCHANGED <<frames, msgFrames, receiverVars, chosen, closeVars>>

OpenFrame ==
    /\ selected # NoContact
    /\ chosen = 0
    /\ NewFrame(selected)
    /\ chosen' = Len(frames')
    /\ UNCHANGED <<msgFrames, receiverVars, selected, closeVars>>

RegisterFrame ==
    /\ chosen # 0
    /\ msgFrames' = [msgFrames EXCEPT ![selected] = chosen]
    /\ selected' = NoContact
    /\ chosen' = 0
    /\ UNCHANGED <<frames, receiverVars, closeVars>>

\* Fault: the window closed stays in the map.
WindowClosingKeepingEntry ==
    /\ selected = NoContact
    /\ \E f \in DOMAIN frames :
         /\ frames[f].open
         /\ frames' = [frames EXCEPT ![f].open = FALSE]
         /\ closes' = closes \cup {frames[f].contact}
         /\ meanwhile' = meanwhile \cup {frames[f].contact}
    /\ UNCHANGED <<msgFrames, receiverVars, eventVars>>

\* Fault: closing one window forgets the others as well.
WindowClosingClearingMap ==
    /\ selected = NoContact
    /\ \E f \in DOMAIN frames :
         /\ frames[f].open
         /\ msgFrames' = [k \in Contacts |-> 0]
         /\ frames' = [frames EXCEPT ![f].open = FALSE]
         /\ closes' = closes \cup {frames[f].contact}
         /\ meanwhile' = meanwhile \cup {frames[f].contact}
    /\ UNCHANGED <<receiverVars, eventVars>>

\* windowClosing: closeFrameFor removes the entry of the window's contact,
\* whichever window is registered there, and the window is disposed of.
WindowClosing ==
    /\ selected = NoContact
    /\ \E f \in DOMAIN frames :
         /\ frames[f].open
         /\ msgFrames' = [msgFrames EXCEPT ![frames[f].contact] = 0]
         /\ frames' = [frames EXCEPT ![f].open = FALSE]
         /\ closes' = closes \cup {frames[f].contact}
         /\ meanwhile' = meanwhile \cup {frames[f].contact}
    /\ UNCHANGED <<receiverVars, eventVars>>

---------------------------------------------------------------------------

Receiver ==
    \/ ContainsKey \/ GetFrame \/ CreateFrame \/ PutFrame \/ AddMessage

EventThread ==
    ValueChanged \/ OpenFrame \/ RegisterFrame \/ WindowClosing

Next == Receiver \/ EventThread

Spec == Init /\ [][Next]_vars

---------------------------------------------------------------------------
(* Properties. *)

OpenFor(k) == {f \in DOMAIN frames : frames[f].open /\ frames[f].contact = k}

\* Contacts whose entry in the map is a window that is closed.
Stale(windows, map) ==
    {k \in Contacts : map[k] # 0 /\ ~windows[map[k]].open}

Holding(m) == {f \in DOMAIN frames : m \in frames[f].listModel}

\* A confirmed message is in one window, a window of its sender: no race of
\* the two threads on the map shows a message in a conversation with someone
\* else, or shows it twice (Client.handleReceivedMessage, Client.valueChanged).
InOneConversation ==
    \A m \in confirmed :
        \E f \in Holding(m) :
            Holding(m) = {f} /\ frames[f].contact = Sender[m]

\* As long as no window of a contact is closed, every confirmed message of
\* the contact is on the screen, and the race of the receiver thread with the
\* selection of the contact makes at most one window too many
\* (Client.handleReceivedMessage, Client.valueChanged).
ShownUntilOneIsClosed ==
    \A k \in Contacts \ closes :
        /\ \A m \in confirmed :
              Sender[m] = k => Holding(m) \subseteq OpenFor(k)
        /\ \A f, g, h \in OpenFor(k) : f = g \/ g = h \/ f = h

\* The receiver thread dies only if a window of the sender has been closed
\* since it asked whether there is one, between its two calls on the map
\* (Client.handleReceivedMessage against Client.closeFrameFor): never by an
\* earlier close, and never by what the event thread does with another
\* conversation.
DiesOnlyOfAClose ==
    [][receiver # "dead" /\ receiver' = "dead"
          => Sender[message] \in meanwhile]_vars

\* A window that is registered but closed is one that the receiver thread
\* was constructing when it was closed: without that, the entry of a contact
\* always leads to a window on the screen (ClientMessageFrame constructor,
\* Client.closeFrameFor).
StaleEntryOnlyFromRace ==
    [][\A k \in Stale(frames', msgFrames') \ Stale(frames, msgFrames) :
          receiver = "put" /\ Sender[message] = k]_vars

---------------------------------------------------------------------------
(* What makes the properties inductive. *)

\* The receiver thread handles a message that is not confirmed yet, and the
\* window it is about to fill is one of the message's sender.
ReceiverHolds ==
    /\ receiver # "wait" => message \in Messages \ confirmed
    /\ receiver \in {"put", "add"} =>
         frame # 0 /\ frames[frame].contact = Sender[message]

\* The window that the event thread has opened for a contact is still open,
\* because the thread cannot close one meanwhile.
EventThreadHolds ==
    chosen # 0 =>
        /\ selected # NoContact
        /\ frames[chosen].open
        /\ frames[chosen].contact = selected

\* An entry leads to a window of its contact, and a window lists only messages
\* that have been confirmed.
EntriesAreOwn ==
    \A k \in Contacts : msgFrames[k] # 0 => frames[msgFrames[k]].contact = k

ListedIsConfirmed == \A f \in DOMAIN frames : frames[f].listModel \subseteq confirmed

\* A window is closed only as a window of its contact, and an entry that was
\* seen is gone only if such a close has come in between.
ClosedAreCounted ==
    \A f \in DOMAIN frames : frames[f].open \/ frames[f].contact \in closes

SeenStays ==
    receiver = "get" => \/ Sender[message] \in meanwhile
                        \/ msgFrames[Sender[message]] # 0

FramesOf(k) == {f \in DOMAIN frames : frames[f].contact = k}

\* A thread is about to construct a window for k, or to register one.
ReceiverIs(place, k) == receiver = place /\ Sender[message] = k

EventThreadOpens(k) == selected = k /\ chosen = 0

EventThreadRegisters(k) == selected = k /\ chosen # 0

\* How the windows of a contact come about while none is closed: without an
\* entry they are those about to be registered; with one, only one thread can
\* still add a window, and only if there is no other.
OneTooMany(k) ==
    /\ msgFrames[k] = 0 =>
         \A f \in FramesOf(k) : \/ ReceiverIs("put", k) /\ f = frame
                                \/ EventThreadRegisters(k) /\ f = chosen
    /\ msgFrames[k] # 0 =>
         /\ ReceiverIs("create", k) \/ ReceiverIs("put", k) => selected # k
         /\ ReceiverIs("create", k) \/ EventThreadOpens(k) =>
              FramesOf(k) \subseteq {msgFrames[k]}
    /\ \A f, g, h \in FramesOf(k) : f = g \/ g = h \/ f = h

WInv ==
    /\ TypeOK
    /\ ReceiverHolds /\ EventThreadHolds
    /\ EntriesAreOwn /\ ListedIsConfirmed /\ ClosedAreCounted /\ SeenStays
    /\ InOneConversation
    /\ \A k \in Contacts \ closes : OneTooMany(k)
=============================================================================
