----------------------------- MODULE Connections -----------------------------
(***************************************************************************)
(* The object streams between the client programs and the server, as the   *)
(* threads on both sides use them: a write takes time, blocks while the    *)
(* buffers of the connection are full, and goes wrong when another thread  *)
(* writes to the same stream meanwhile.                                    *)
(*                                                                         *)
(* On the client the receiver thread, the status timer and sendClientStatus*)
(* on the event thread write in the monitor of the Client object; message  *)
(* windows, dialogs and the search timer write without it.  On the server  *)
(* the thread of a connection answers its client and passes messages to    *)
(* the streams of other clients, holding only its own monitor.  All the    *)
(* clients are signed in; what packets say is left to the other modules,   *)
(* except for what each makes its reader write.                            *)
(***************************************************************************)
EXTENDS Naturals, Sequences

CONSTANTS
    Clients,    \* client programs
    Unread,     \* Unread[c]: unread messages that wait for client c
    Capacity,   \* packets that the buffers of one direction can hold
    MaxSends    \* bound on what the user and the timers of each client begin

ASSUME UnreadAssumption == Unread \in [Clients -> Nat]

ASSUME BoundsAssumption ==
    Capacity \in Nat \ {0} /\ MaxSends \in [Clients -> Nat]

VARIABLES
    up,         \* packets from a client to the server
    down,       \* packets from the server to a client
    thread,     \* threads of the clients: where they are
    plan,       \* threads of the clients: packets they still have to write
    server,     \* server threads: where they are
    todo,       \* server threads: packets they still have to write
    collided,   \* history: the ways in which two writers met on up
    mixed,      \* history: clients on whose down two writers met
    sends       \* history: how much a client's user and timers have begun

vars == <<up, down, thread, plan, server, todo, collided, mixed, sends>>

Threads == {"receiver", "event", "timer", "search"}

\* "monitor" is waiting for the monitor; "locked" and "unlocked" are in
\* writeObject, with the monitor and without it.
Places == {"rest", "monitor", "locked", "unlocked", "dead"}

UpKinds == {"unread", "mail", "confirm", "ask", "note"}

\* A mail is for to; an answer to a request goes back to where it came from.
Packet(kind, to) == [kind |-> kind, to |-> to]

UpPacket == [kind : UpKinds, to : Clients]

DownPacket == [kind : {"message", "answer"}, to : Clients]

OnStream(Packets) == [packet : Packets, bad : BOOLEAN]

TypeOK ==
    /\ up \in [Clients -> Seq(OnStream(UpPacket))]
    /\ down \in [Clients -> Seq(OnStream(DownPacket))]
    /\ \A c \in Clients : Len(up[c]) <= Capacity /\ Len(down[c]) <= Capacity
    /\ thread \in [Clients -> [Threads -> Places]]
    /\ plan \in [Clients -> [Threads -> Seq(UpPacket)]]
    /\ server \in [Clients -> {"read", "write", "writing", "dead"}]
    /\ todo \in [Clients -> Seq(DownPacket)]
    /\ collided \in [Clients -> SUBSET SUBSET {"locked", "unlocked"}]
    /\ mixed \in SUBSET Clients
    /\ sends \in [Clients -> Nat]
    /\ \A c \in Clients : sends[c] <= MaxSends[c]

\* Every client has just asked for its unread messages.
Init ==
    /\ up = [c \in Clients |->
               <<[packet |-> Packet("unread", c), bad |-> FALSE]>>]
    /\ down = [c \in Clients |-> <<>>]
    /\ thread = [c \in Clients |-> [t \in Threads |-> "rest"]]
    /\ plan = [c \in Clients |-> [t \in Threads |-> <<>>]]
    /\ server = [c \in Clients |-> "read"]
    /\ todo = [c \in Clients |-> <<>>]
    /\ collided = [c \in Clients |-> {}]
    /\ mixed = {}
    /\ sends = [c \in Clients |-> 0]

---------------------------------------------------------------------------
(* The threads of a client write to up. *)

Writing(c) == {t \in Threads : thread[c][t] \in {"locked", "unlocked"}}

MonitorIsFree(c) == \A t \in Threads : thread[c][t] # "locked"

\* Thread t begins a writeObject; if another is in the middle of one, the
\* bytes of the two packets are mixed.
EnterWrite(c, t, place) ==
    /\ thread' = [thread EXCEPT ![c][t] = place]
    /\ collided' = [collided EXCEPT
                      ![c] = @ \cup {{place, thread[c][o]} : o \in Writing(c)}]

\* A thread that waits for the monitor can have it.
CanEnter(c, t) == thread[c][t] = "monitor" /\ MonitorIsFree(c)

\* Fault: the methods that send a status or a confirmation are not
\* synchronized.
BeginUnsynchronized(c, t) ==
    /\ thread[c][t] = "monitor"
    /\ EnterWrite(c, t, "locked")
    /\ UNCHANGED <<up, down, plan, server, todo, mixed, sends>>

\* A synchronized method: sendClientStatus, updateContactsStatuses,
\* handleReceivedMessage.
BeginLocked(c, t) ==
    /\ CanEnter(c, t)
    /\ EnterWrite(c, t, "locked")
    /\ UNCHANGED <<up, down, plan, server, todo, mixed, sends>>

\* A write goes on when the buffers have room for the packet.
CanFinishWrite(c, t) == t \in Writing(c) /\ Len(up[c]) < Capacity

\* Fault: the buffers are given one packet too many.
FinishWriteOverfull(c, t) ==
    /\ t \in Writing(c)
    /\ Len(up[c]) <= Capacity
    /\ up' = [up EXCEPT ![c] = Append(@, [packet |-> Head(plan[c][t]),
                                          bad |-> collided[c] # {}])]
    /\ plan' = [plan EXCEPT ![c][t] = Tail(@)]
    /\ thread' = [thread EXCEPT
                    ![c][t] = IF Len(plan[c][t]) > 1 THEN "monitor" ELSE "rest"]
    /\ UNCHANGED <<down, server, todo, collided, mixed, sends>>

\* The packet has gone into the buffers; the monitor is released, and taken
\* again for the next packet if there is one.
FinishWrite(c, t) ==
    /\ CanFinishWrite(c, t)
    /\ up' = [up EXCEPT ![c] = Append(@, [packet |-> Head(plan[c][t]),
                                          bad |-> collided[c] # {}])]
    /\ plan' = [plan EXCEPT ![c][t] = Tail(@)]
    /\ thread' = [thread EXCEPT
                    ![c][t] = IF Len(plan[c][t]) > 1 THEN "monitor" ELSE "rest"]
    /\ UNCHANGED <<down, server, todo, collided, mixed, sends>>

\* Something the user or a timer begins.
Begins(c, t, packets) ==
    /\ thread[c][t] = "rest"
    /\ sends[c] < MaxSends[c]
    /\ sends' = [sends EXCEPT ![c] = @ + 1]
    /\ plan' = [plan EXCEPT ![c][t] = packets]
    /\ UNCHANGED <<up, down, server, todo, mixed>>

\* The user chooses a status: the event thread enters sendClientStatus.
ChooseStatus(c) ==
    /\ Begins(c, "event", <<Packet("note", c)>>)
    /\ thread' = [thread EXCEPT ![c]["event"] = "monitor"]
    /\ UNCHANGED collided

\* The status timer fires: the status, then the request for statuses.
TimerFires(c) ==
    /\ Begins(c, "timer", <<Packet("note", c), Packet("ask", c)>>)
    /\ thread' = [thread EXCEPT ![c]["timer"] = "monitor"]
    /\ UNCHANGED collided

\* The user sends a text from a message window, which asks for no monitor.
SendMessage(c) ==
    \E d \in Clients \ {c} :
        /\ Begins(c, "event", <<Packet("mail", d)>>)
        /\ EnterWrite(c, "event", "unlocked")

\* The user adds or removes a contact, or asks for archived messages.
SendRequest(c) ==
    /\ Begins(c, "event", <<Packet("ask", c)>>)
    /\ EnterWrite(c, "event", "unlocked")

\* The timer of the search dialog asks for contacts.
SearchTaskWrites(c) ==
    /\ Begins(c, "search", <<Packet("ask", c)>>)
    /\ EnterWrite(c, "search", "unlocked")

---------------------------------------------------------------------------
(* The receiver thread of a client. *)

CanReceive(c) == thread[c]["receiver"] = "rest" /\ down[c] # <<>>

\* It reads a packet and drops it from the buffers; a message is confirmed.
ReceivePacket(c) ==
    /\ CanReceive(c)
    /\ down' = [down EXCEPT ![c] = Tail(@)]
    /\ IF Head(down[c]).packet.kind = "message"
       THEN /\ thread' = [thread EXCEPT ![c]["receiver"] = "monitor"]
            /\ plan' = [plan EXCEPT ![c]["receiver"] =
                                      <<Packet("confirm", c)>>]
       ELSE UNCHANGED <<thread, plan>>
    /\ UNCHANGED <<up, server, todo, collided, mixed, sends>>

\* The packet is mixed up with another, or its handler runs into a null
\* reference (see ContactBook, Dialogs, MessageWindows): the thread ends.
ReceiverDies(c) ==
    /\ CanReceive(c)
    /\ down' = [down EXCEPT ![c] = Tail(@)]
    /\ thread' = [thread EXCEPT ![c]["receiver"] = "dead"]
    /\ UNCHANGED <<up, plan, server, todo, collided, mixed, sends>>

---------------------------------------------------------------------------
(* The server thread of connection c. *)

\* What the handler of a packet of client c writes, and to whom.
Reaction(c, p) ==
    CASE p.kind = "unread" -> [i \in 1 .. Unread[c] |-> Packet("message", c)]
      [] p.kind = "mail"   -> <<Packet("message", p.to)>>
      [] p.kind = "ask"    -> <<Packet("answer", c)>>
      [] OTHER             -> <<>>

CanRead(c) == server[c] = "read" /\ up[c] # <<>>

ReadPacket(c) ==
    /\ CanRead(c)
    /\ up' = [up EXCEPT ![c] = Tail(@)]
    /\ todo' = [todo EXCEPT ![c] = Reaction(c, Head(up[c]).packet)]
    /\ server' = [server EXCEPT ![c] = IF todo'[c] = <<>> THEN "read"
                                                          ELSE "write"]
    /\ UNCHANGED <<down, thread, plan, collided, mixed, sends>>

\* A packet that has been mixed up cannot be read: run is left, but the socket
\* is not closed, so the client can go on writing until the buffers are full.
ServerDies(c) ==
    /\ CanRead(c)
    /\ Head(up[c]).bad
    /\ up' = [up EXCEPT ![c] = Tail(@)]
    /\ server' = [server EXCEPT ![c] = "dead"]
    /\ UNCHANGED <<down, thread, plan, todo, collided, mixed, sends>>

BeginAnswer(c) ==
    /\ server[c] = "write"
    /\ server' = [server EXCEPT ![c] = "writing"]
    /\ mixed' = mixed \cup {d \in {Head(todo[c]).to} :
                              \E o \in Clients : server[o] = "writing"
                                                 /\ Head(todo[o]).to = d}
    /\ UNCHANGED <<up, down, thread, plan, todo, collided, sends>>

\* Fault: a write returns only when nothing else is on the connection.
CanFinishAnswerAlone(c) ==
    /\ server[c] = "writing"
    /\ LET d == Head(todo[c]).to IN down[d] = <<>> /\ up[d] = <<>>

CanFinishAnswer(c) ==
    server[c] = "writing" /\ Len(down[Head(todo[c]).to]) < Capacity

FinishAnswer(c) ==
    /\ CanFinishAnswer(c)
    /\ LET p == Head(todo[c]) IN
         down' = [down EXCEPT
              ![p.to] = Append(@, [packet |-> p, bad |-> p.to \in mixed])]
    /\ todo' = [todo EXCEPT ![c] = Tail(@)]
    /\ server' = [server EXCEPT ![c] = IF Len(todo[c]) > 1 THEN "write"
                                                           ELSE "read"]
    /\ UNCHANGED <<up, thread, plan, collided, mixed, sends>>

---------------------------------------------------------------------------

User(c) ==
    \/ ChooseStatus(c) \/ TimerFires(c) \/ SendMessage(c) \/ SendRequest(c)
    \/ SearchTaskWrites(c)

Works(c) ==
    \/ \E t \in Threads : BeginLocked(c, t) \/ FinishWrite(c, t)
    \/ ReceivePacket(c) \/ ReadPacket(c) \/ BeginAnswer(c) \/ FinishAnswer(c)

Dies(c) == ReceiverDies(c) \/ ServerDies(c)

Next == \E c \in Clients : User(c) \/ Works(c) \/ Dies(c)

Spec == Init /\ [][Next]_vars

---------------------------------------------------------------------------
(* Properties. *)

\* A server thread dies of a packet only if a thread that does not hold the
\* monitor of the client was writing when another was: the synchronized
\* methods keep the receiver thread, the status timer and the status menu
\* apart (Client.sendClientStatus, updateContactsStatuses,
\* handleReceivedMessage; ClientMessageFrame.actionPerformed and the dialogs,
\* which write without it).
ServerDiesOfUnlockedWrite ==
    \A c \in Clients :
        server[c] = "dead" => \E ways \in collided[c] : "unlocked" \in ways

Waits(c) ==
    \/ server[c] = "writing"
    \/ \E t \in Threads : thread[c][t] \in {"monitor", "locked", "unlocked"}

\* Some thread of client c, or its server thread, has a step to take: the
\* guards of Works(c).
CanWork(c) ==
    \/ \E t \in Threads : CanEnter(c, t) \/ CanFinishWrite(c, t)
    \/ CanReceive(c) \/ CanRead(c)
    \/ server[c] = "write" \/ CanFinishAnswer(c)

\* The buffers to client c are full and its receiver thread does not read.
DownIsBlocked(c) ==
    Len(down[c]) = Capacity /\ thread[c]["receiver"] # "rest"

\* The buffers from client c are full and its server thread does not read.
UpIsBlocked(c) == Len(up[c]) = Capacity /\ server[c] # "read"

\* If nothing moves any more although a thread waits, then either the threads
\* of a connection are dead, or there is a ring: a server thread that waits
\* for a client that does not read because it waits for its own server thread.
\* The monitor alone never stops anything (Server.sendUnreadedMessages,
\* passMessage; Client.handleReceivedMessage, sendClientStatus).
StandstillIsARing ==
    (\E c \in Clients : Waits(c))
    /\ (\A c \in Clients : ~CanWork(c))
    => \/ \E c \in Clients : UpIsBlocked(c) /\ server[c] = "dead"
       \/ \E c \in Clients :
            DownIsBlocked(c) /\ thread[c]["receiver"] = "dead"
       \/ \E c, d \in Clients :
            /\ server[c] = "writing" /\ Head(todo[c]).to = d
            /\ DownIsBlocked(d) /\ UpIsBlocked(d)

---------------------------------------------------------------------------
(* What makes ServerDiesOfUnlockedWrite inductive. *)

\* A thread that is to write has something to write.
HasPlan(c) ==
    /\ \A t \in Threads :
         thread[c][t] \in {"monitor", "locked", "unlocked"} => plan[c][t] # <<>>
    /\ server[c] \in {"write", "writing"} => todo[c] # <<>>

\* The monitor is held once, so every meeting had a writer without it, and
\* only meetings spoil a stream.
OneInMonitor(c) ==
    \A t, o \in Threads :
        thread[c][t] = "locked" /\ thread[c][o] = "locked" => t = o

MeetsUnlocked(c) == \A ways \in collided[c] : "unlocked" \in ways

BadOfMeeting(c) ==
    (server[c] = "dead" \/ \E i \in DOMAIN up[c] : up[c][i].bad)
        => collided[c] # {}

CInv ==
    /\ TypeOK
    /\ \A c \in Clients :
         HasPlan(c) /\ OneInMonitor(c) /\ MeetsUnlocked(c) /\ BadOfMeeting(c)
=============================================================================
