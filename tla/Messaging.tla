----------------------------- MODULE Messaging -----------------------------
(***************************************************************************)
(* The core of the messenger: client programs sign in to the server, load  *)
(* their contact list, send messages to one another, display and confirm   *)
(* them, quit or crash; the server has one thread per connection, the      *)
(* shared map outputs (contact id -> output stream) and the message table. *)
(*                                                                         *)
(* A connection c stands for one run of a client program, its TCP          *)
(* connection and the server thread that serves it.  up[c] and down[c] are *)
(* the packets in flight to the server and to the client.  Presence        *)
(* (STATUS_CHANGED, CONTACTS_STATUSES_...) and the account and contact     *)
(* packets carry no messaging state and are left to other modules: of what *)
(* they, and the message windows, do to the receiver thread, what shows    *)
(* here is that it may stop.  Object streams are taken to deliver whole    *)
(* packets in order.                                                       *)
(***************************************************************************)
EXTENDS MessageStore

CONSTANTS
    Conns,        \* connections, each used for one run of a client program
    NoConn,       \* no output stream
    MaxRestarts   \* how many times the server process may die and restart

ASSUME NoConnAssumption == NoConn \notin Conns

ASSUME MaxRestartsAssumption == MaxRestarts \in Nat

VARIABLES
    message,     \* durable: the message table
    outputs,     \* server: contact id -> connection whose stream is registered
    clientId,    \* server thread: id of the client it is connected with
    thread,      \* server thread: "none", "serving" or "ended"
    forwarding,  \* server thread: message saved but not yet passed on
    unreaded,    \* server thread: unread messages selected, not yet written
    up,          \* packets from the client to the server
    down,        \* packets from the server to the client
    phase,       \* client program: where it is in its life
    who,         \* client program: its clientId field
    loaded,      \* client program: has it received its contact list?
    restarts,    \* how many times the server has restarted
    sent,        \* history: letters typed into a message window
    shown        \* history: letters displayed, to whom, in whose window

serverVars == <<outputs, clientId, thread, forwarding, unreaded>>
clientVars == <<phase, who, loaded>>
historyVars == <<sent, shown>>
vars == <<message, serverVars, up, down, clientVars, restarts, historyVars>>

Ids == Users \cup {NoUser}

\* "idle" has a remembered id and no receiver thread; "deaf" has one no longer.
Phases == {"off", "dialog", "signIn", "load", "run", "deaf", "idle", "gone"}

Packet(command, object) == [command |-> command, object |-> object]

UpPacket ==
    [command : {"SIGN_IN_REQUEST", "CLOSE_CONNECTION"}, object : Ids] \cup
    [command : {"CONTACT_LIST_REQUEST", "RECEIVE_UNREADED_MESSAGES"},
     object : Users] \cup
    [command : {"MESSAGE", "MESSAGE_RECEIVED_CONFIRMATION"},
     object : MessageObject]

DownPacket ==
    [command : {"SIGN_IN_RESPONSE", "CONTACT_LIST_RESPONSE"},
     object : Ids] \cup
    [command : {"MESSAGE"}, object : MessageObject]

Shown == [letter : Letters, to : Users, frame : Users]

TypeOK ==
    /\ message \in Seq(Row)
    /\ outputs \in [Ids -> Conns \cup {NoConn}]
    /\ clientId \in [Conns -> Ids]
    /\ thread \in [Conns -> {"none", "serving", "ended"}]
    /\ forwarding \in [Conns -> SUBSET MessageObject]
    /\ unreaded \in [Conns -> SUBSET MessageObject]
    /\ up \in [Conns -> Seq(UpPacket)]
    /\ down \in [Conns -> Seq(DownPacket)]
    /\ phase \in [Conns -> Phases]
    /\ who \in [Conns -> Ids]
    /\ loaded \in [Conns -> BOOLEAN]
    /\ restarts \in 0 .. MaxRestarts
    /\ sent \in SUBSET Letters
    /\ shown \in SUBSET Shown

Init ==
    /\ message = <<>>
    /\ outputs = [u \in Ids |-> NoConn]
    /\ clientId = [c \in Conns |-> NoUser]
    /\ thread = [c \in Conns |-> "none"]
    /\ forwarding = [c \in Conns |-> {}]
    /\ unreaded = [c \in Conns |-> {}]
    /\ up = [c \in Conns |-> <<>>]
    /\ down = [c \in Conns |-> <<>>]
    /\ phase = [c \in Conns |-> "off"]
    /\ who = [c \in Conns |-> NoUser]
    /\ loaded = [c \in Conns |-> FALSE]
    /\ restarts = 0
    /\ sent = {}
    /\ shown = {}

---------------------------------------------------------------------------
(* The two directions of a connection. *)

\* A client writes to its socket; a write to a dead peer is an IOException
\* that every caller swallows.
ToServer(c, packet) ==
    up' = IF thread[c] = "serving"
          THEN [up EXCEPT ![c] = Append(@, packet)]
          ELSE up

\* A server thread writes to the stream of connection c, with the same
\* treatment of a write to a client that is no longer there.
ToClient(c, packet) ==
    down' = IF phase[c] # "gone"
            THEN [down EXCEPT ![c] = Append(@, packet)]
            ELSE down

\* The thread of c is in readObject, and the next packet is a command.
Serves(c, command) ==
    /\ thread[c] = "serving"
    /\ forwarding[c] = {}
    /\ unreaded[c] = {}
    /\ up[c] # <<>>
    /\ Head(up[c]).command = command
    /\ up' = [up EXCEPT ![c] = Tail(@)]

Receives(c, command) ==
    /\ down[c] # <<>>
    /\ Head(down[c]).command = command
    /\ down' = [down EXCEPT ![c] = Tail(@)]

---------------------------------------------------------------------------
(* The client program: its user. *)

\* The program starts, connects and opens the sign-in dialog; the server
\* accepts and starts a thread.
Connect(c) ==
    /\ phase[c] = "off"
    /\ thread[c] = "none"
    /\ phase' = [phase EXCEPT ![c] = "dialog"]
    /\ thread' = [thread EXCEPT ![c] = "serving"]
    /\ UNCHANGED <<message, outputs, clientId, forwarding, unreaded, up, down,
                   who, loaded, restarts, historyVars>>

\* The program starts with an id that the preferences have kept from an
\* earlier sign-in: there is no dialog, and with it no grantedContactId, which
\* alone asks for anything and starts the receiver thread.
ConnectRemembered(c) ==
    /\ phase[c] = "off"
    /\ thread[c] = "none"
    /\ \E d \in Conns :
         /\ who[d] # NoUser
         /\ who' = [who EXCEPT ![c] = who[d]]
    /\ phase' = [phase EXCEPT ![c] = "idle"]
    /\ thread' = [thread EXCEPT ![c] = "serving"]
    /\ UNCHANGED <<message, outputs, clientId, forwarding, unreaded, up, down,
                   loaded, restarts, historyVars>>

\* The user submits the sign-in form; u is the account that the login and
\* password belong to, NoUser when they belong to none.
TrySignIn(c) ==
    /\ phase[c] = "dialog"
    /\ \E u \in Ids : ToServer(c, Packet("SIGN_IN_REQUEST", u))
    /\ phase' = [phase EXCEPT ![c] = "signIn"]
    /\ UNCHANGED <<message, serverVars, down, who, loaded, restarts,
                   historyVars>>

\* The user types a text into a message window.
SendMessage(c) ==
    /\ phase[c] \in {"run", "deaf"}
    /\ \E l \in Letters \ sent :
         /\ l.from = who[c]
         /\ ToServer(c, Packet("MESSAGE", NewMessage(l)))
         /\ sent' = sent \cup {l}
    /\ UNCHANGED <<message, serverVars, down, clientVars, restarts, shown>>

\* The user closes the main window, or logs out, before signing in or after:
\* the field clientId is sent, whatever it is.  (While there is no status yet
\* the listener fails on it and nothing is closed.)
AppClosing(c) ==
    /\ phase[c] \in {"dialog", "idle", "run", "deaf"}
    /\ ToServer(c, Packet("CLOSE_CONNECTION", who[c]))
    /\ phase' = [phase EXCEPT ![c] = "gone"]
    /\ down' = [down EXCEPT ![c] = <<>>]
    /\ UNCHANGED <<message, serverVars, who, loaded, restarts, historyVars>>

\* The client program is killed, or its machine fails.
ClientCrash(c) ==
    /\ phase[c] \notin {"off", "gone"}
    /\ phase' = [phase EXCEPT ![c] = "gone"]
    /\ down' = [down EXCEPT ![c] = <<>>]
    /\ UNCHANGED <<message, serverVars, up, who, loaded, restarts,
                   historyVars>>

\* The receiver thread reads no more, and the program goes on: handling a
\* packet has ended it (a window closed between its two calls on the map of
\* windows, for one, and then the message is not displayed), or it shows an
\* alert that stays on the screen.
ReceiverStops(c) ==
    /\ phase[c] = "run"
    /\ phase' = [phase EXCEPT ![c] = "deaf"]
    /\ UNCHANGED <<message, serverVars, up, down, who, loaded, restarts,
                   historyVars>>

---------------------------------------------------------------------------
(* The client program: what it does with the packets it receives. *)

\* Fault: the dialog does not test the id it is given.
ReceiveSignInResponseUnchecked(c) ==
    /\ phase[c] = "signIn"
    /\ Receives(c, "SIGN_IN_RESPONSE")
    /\ phase' = [phase EXCEPT ![c] = "load"]
    /\ who' = [who EXCEPT ![c] = Head(down[c]).object]
    /\ ToServer(c, Packet("CONTACT_LIST_REQUEST", Head(down[c]).object))
    /\ UNCHANGED <<message, serverVars, loaded, restarts, historyVars>>

\* The dialog reads the answer.  An id < 1 leaves it open; another one is
\* granted to the client, which asks for its contact list.
ReceiveSignInResponse(c) ==
    /\ phase[c] = "signIn"
    /\ Receives(c, "SIGN_IN_RESPONSE")
    /\ LET u == Head(down[c]).object IN
         \/ /\ u = NoUser
            /\ phase' = [phase EXCEPT ![c] = "dialog"]
            /\ UNCHANGED <<up, who>>
         \/ /\ u # NoUser
            /\ phase' = [phase EXCEPT ![c] = "load"]
            /\ who' = [who EXCEPT ![c] = u]
            /\ ToServer(c, Packet("CONTACT_LIST_REQUEST", u))
    /\ UNCHANGED <<message, serverVars, loaded, restarts, historyVars>>

\* Fault: the client gives up when the answer is not a contact list.
LoadContactListOrStop(c) ==
    /\ phase[c] = "load"
    /\ down[c] # <<>>
    /\ down' = [down EXCEPT ![c] = Tail(@)]
    /\ phase' = [phase EXCEPT ![c] = "run"]
    /\ IF Head(down[c]).command = "CONTACT_LIST_RESPONSE"
       THEN ToServer(c, Packet("RECEIVE_UNREADED_MESSAGES", who[c]))
       ELSE up' = up
    /\ UNCHANGED <<message, serverVars, who, loaded, restarts, historyVars>>

\* loadContactList reads one packet, whichever it is: only a contact list is
\* used, any other packet is dropped.  The client then asks for its unread
\* messages and starts the receiver thread.
LoadContactList(c) ==
    /\ phase[c] = "load"
    /\ down[c] # <<>>
    /\ loaded' = [loaded EXCEPT
                    ![c] = Head(down[c]).command = "CONTACT_LIST_RESPONSE"]
    /\ down' = [down EXCEPT ![c] = Tail(@)]
    /\ phase' = [phase EXCEPT ![c] = "run"]
    /\ ToServer(c, Packet("RECEIVE_UNREADED_MESSAGES", who[c]))
    /\ UNCHANGED <<message, serverVars, who, restarts, historyVars>>

\* Fault: the message is sent back without a read date.
HandleReceivedMessageUndated(c) ==
    /\ phase[c] = "run"
    /\ Receives(c, "MESSAGE")
    /\ LET m == Head(down[c]).object IN
         /\ shown' = shown \cup
              {[letter |-> m.text, to |-> who[c], frame |-> m.sender]}
         /\ ToServer(c, Packet("MESSAGE_RECEIVED_CONFIRMATION", m))
    /\ UNCHANGED <<message, serverVars, clientVars, restarts, sent>>

\* The receiver thread shows the message in the window of its sender and
\* sends it back with a read date.
HandleReceivedMessage(c) ==
    /\ phase[c] = "run"
    /\ Receives(c, "MESSAGE")
    /\ LET m == Head(down[c]).object IN
         /\ shown' = shown \cup
              {[letter |-> m.text, to |-> who[c], frame |-> m.sender]}
         /\ ToServer(c, Packet("MESSAGE_RECEIVED_CONFIRMATION",
                                 [m EXCEPT !.read = TRUE]))
    /\ UNCHANGED <<message, serverVars, clientVars, restarts, sent>>

\* The receiver thread has no case for a contact list that comes too late.
UnknownPacket(c) ==
    /\ phase[c] = "run"
    /\ Receives(c, "CONTACT_LIST_RESPONSE")
    /\ UNCHANGED <<message, serverVars, up, clientVars, restarts, historyVars>>

\* Reading from a server that is gone is an IOException: the receiver thread
\* ends, and the program is of no more use.
LoseServer(c) ==
    /\ phase[c] \in {"signIn", "load", "run"}
    /\ thread[c] = "ended"
    /\ down[c] = <<>>
    /\ phase' = [phase EXCEPT ![c] = "gone"]
    /\ UNCHANGED <<message, serverVars, up, down, who, loaded, restarts,
                   historyVars>>

---------------------------------------------------------------------------
(* The server thread of connection c. *)

\* Fault: the thread does not take note of whom it has authenticated.
SignInClientAnonymously(c) ==
    /\ Serves(c, "SIGN_IN_REQUEST")
    /\ LET u == Head(up[c]).object IN
         /\ ToClient(c, Packet("SIGN_IN_RESPONSE", u))
         /\ outputs' = [outputs EXCEPT ![u] = c]
    /\ UNCHANGED <<message, clientId, thread, forwarding, unreaded, clientVars,
                   restarts, historyVars>>

\* The answer goes out and the stream is registered under the id found, 0
\* included.  Nothing the client does on the answer can overtake the put: the
\* same thread has to serve it.
SignInClient(c) ==
    /\ Serves(c, "SIGN_IN_REQUEST")
    /\ LET u == Head(up[c]).object IN
         /\ clientId' = [clientId EXCEPT ![c] = u]
         /\ ToClient(c, Packet("SIGN_IN_RESPONSE", u))
         /\ outputs' = [outputs EXCEPT ![u] = c]
    /\ UNCHANGED <<message, thread, forwarding, unreaded, clientVars, restarts,
                   historyVars>>

SendContactList(c) ==
    /\ Serves(c, "CONTACT_LIST_REQUEST")
    /\ ToClient(c, Packet("CONTACT_LIST_RESPONSE", Head(up[c]).object))
    /\ UNCHANGED <<message, serverVars, clientVars, restarts, historyVars>>

\* Fault: a message is stored only if it cannot be passed on at once.
PassMessageUnsaved(c) ==
    /\ Serves(c, "MESSAGE")
    /\ LET m == Head(up[c]).object IN
         /\ message' = IF outputs[m.receiver] = NoConn THEN Save(message, m)
                                                       ELSE message
         /\ forwarding' = [forwarding EXCEPT ![c] = {m}]
    /\ UNCHANGED <<outputs, clientId, thread, unreaded, down, clientVars,
                   restarts, historyVars>>

\* passMessage up to the end of save(): the message is in the table.
PassMessage(c) ==
    /\ Serves(c, "MESSAGE")
    /\ LET m == Head(up[c]).object IN
         /\ message' = Save(message, m)
         /\ forwarding' = [forwarding EXCEPT ![c] = {m}]
    /\ UNCHANGED <<outputs, clientId, thread, unreaded, down, clientVars,
                   restarts, historyVars>>

\* Fault: what can be passed on is marked as read there and then.
ForwardAsRead(c) ==
    /\ thread[c] = "serving"
    /\ \E m \in forwarding[c] :
         LET d == outputs[m.receiver] IN
         IF d = NoConn
         THEN UNCHANGED <<down, message>>
         ELSE /\ ToClient(d, Packet("MESSAGE", m))
              /\ message' = [i \in DOMAIN message |->
                    IF message[i].text = m.text
                    THEN [message[i] EXCEPT !.read = TRUE] ELSE message[i]]
    /\ forwarding' = [forwarding EXCEPT ![c] = {}]
    /\ UNCHANGED <<outputs, clientId, thread, unreaded, up,
                   clientVars, restarts, historyVars>>

\* The rest of passMessage: the object goes to the stream that is registered
\* for the receiver now, if there is one.
Forward(c) ==
    /\ thread[c] = "serving"
    /\ \E m \in forwarding[c] :
         LET d == outputs[m.receiver] IN
         IF d = NoConn THEN down' = down
                       ELSE ToClient(d, Packet("MESSAGE", m))
    /\ forwarding' = [forwarding EXCEPT ![c] = {}]
    /\ UNCHANGED <<message, outputs, clientId, thread, unreaded, up,
                   clientVars, restarts, historyVars>>

ConfirmMessageReceived(c) ==
    /\ Serves(c, "MESSAGE_RECEIVED_CONFIRMATION")
    /\ message' = Save(message, Head(up[c]).object)
    /\ UNCHANGED <<serverVars, down, clientVars, restarts, historyVars>>

\* sendUnreadedMessages: one SELECT, for the id this thread has authenticated.
SelectUnreaded(c) ==
    /\ Serves(c, "RECEIVE_UNREADED_MESSAGES")
    /\ unreaded' =
         [unreaded EXCEPT
            ![c] = IF clientId[c] = NoUser THEN {}
                   ELSE UnreadMessagesFor(message, clientId[c])]
    /\ UNCHANGED <<message, outputs, clientId, thread, forwarding, down,
                   clientVars, restarts, historyVars>>

\* Fault: an unread message is marked as read when it is written.
SendUnreadedAsRead(c) ==
    /\ thread[c] = "serving"
    /\ \E m \in unreaded[c] :
         /\ \A o \in unreaded[c] : m.id <= o.id
         /\ ToClient(c, Packet("MESSAGE", m))
         /\ unreaded' = [unreaded EXCEPT ![c] = @ \ {m}]
         /\ message' = [message EXCEPT ![m.id].read = TRUE]
    /\ UNCHANGED <<outputs, clientId, thread, forwarding, up,
                   clientVars, restarts, historyVars>>

\* Then one write per message, in the order of the rows.
SendUnreaded(c) ==
    /\ thread[c] = "serving"
    /\ \E m \in unreaded[c] :
         /\ \A o \in unreaded[c] : m.id <= o.id
         /\ ToClient(c, Packet("MESSAGE", m))
         /\ unreaded' = [unreaded EXCEPT ![c] = @ \ {m}]
    /\ UNCHANGED <<message, outputs, clientId, thread, forwarding, up,
                   clientVars, restarts, historyVars>>

\* Fault: closing one connection empties the whole map.
CloseConnectionClearsMap(c) ==
    /\ Serves(c, "CLOSE_CONNECTION")
    /\ outputs' = [u \in Ids |-> NoConn]
    /\ thread' = [thread EXCEPT ![c] = "ended"]
    /\ UNCHANGED <<message, clientId, forwarding, unreaded, down, clientVars,
                   restarts, historyVars>>

\* The entry of the id that the packet names is removed, whichever
\* connection it belongs to by now; the thread returns.
CloseConnectionWithClient(c) ==
    /\ Serves(c, "CLOSE_CONNECTION")
    /\ outputs' = [outputs EXCEPT ![Head(up[c]).object] = NoConn]
    /\ thread' = [thread EXCEPT ![c] = "ended"]
    /\ UNCHANGED <<message, clientId, forwarding, unreaded, down, clientVars,
                   restarts, historyVars>>

\* readObject fails on the connection of a client that is gone, and what had
\* not been read is lost.  The maps keep their entries.
ConnectionReset(c) ==
    /\ thread[c] = "serving"
    /\ phase[c] = "gone"
    /\ forwarding[c] = {}
    /\ unreaded[c] = {}
    /\ thread' = [thread EXCEPT ![c] = "ended"]
    /\ up' = [up EXCEPT ![c] = <<>>]
    /\ UNCHANGED <<message, outputs, clientId, forwarding, unreaded, down,
                   clientVars, restarts, historyVars>>

\* The server process dies and is started again: only the database survives.
ServerRestart ==
    /\ restarts < MaxRestarts
    /\ restarts' = restarts + 1
    /\ thread' = [c \in Conns |-> IF thread[c] = "serving" THEN "ended"
                                                           ELSE thread[c]]
    /\ outputs' = [u \in Ids |-> NoConn]
    /\ forwarding' = [c \in Conns |-> {}]
    /\ unreaded' = [c \in Conns |-> {}]
    /\ up' = [c \in Conns |-> <<>>]
    /\ UNCHANGED <<message, clientId, down, clientVars, historyVars>>

---------------------------------------------------------------------------

User(c) ==
    \/ Connect(c) \/ ConnectRemembered(c) \/ TrySignIn(c) \/ SendMessage(c)
    \/ AppClosing(c)

Client(c) ==
    \/ ReceiveSignInResponse(c) \/ LoadContactList(c)
    \/ HandleReceivedMessage(c) \/ UnknownPacket(c) \/ LoseServer(c)

Server(c) ==
    \/ SignInClient(c) \/ SendContactList(c) \/ PassMessage(c) \/ Forward(c)
    \/ ConfirmMessageReceived(c) \/ SelectUnreaded(c) \/ SendUnreaded(c)
    \/ CloseConnectionWithClient(c)

Failure(c) == ClientCrash(c) \/ ReceiverStops(c) \/ ConnectionReset(c)

Next ==
    \/ \E c \in Conns : User(c) \/ Client(c) \/ Server(c) \/ Failure(c)
    \/ ServerRestart

Spec == Init /\ [][Next]_vars

\* The threads of the programs keep running, the receiver thread until it
\* stops; users and failures owe nothing.
Fairness ==
    \A c \in Conns : WF_vars(Client(c)) /\ WF_vars(Server(c))

FairSpec == Spec /\ Fairness

---------------------------------------------------------------------------
(* Properties. *)

Displayed(l) == \E s \in shown : s.letter = l /\ s.to = l.to

\* An accepted letter is never lost: until it has been displayed to its
\* addressee, the table holds it as an unread message of the addressee, which
\* the next sign-in will fetch (passMessage, confirmMessageReceived and
\* sendUnreadedMessages of Server, under crashes, restarts and a packet
\* dropped by Client.loadContactList).
UndeliveredIsKept ==
    \A l \in StoredLetters(message) :
        \/ Displayed(l)
        \/ \E m \in UnreadMessagesFor(message, l.to) : m.text = l

\* A row gets its read date only after its addressee has seen the message
\* (Client.handleReceivedMessage, Server.confirmMessageReceived).
ReadMeansDisplayed ==
    \A i \in DOMAIN message : message[i].read => Displayed(message[i].text)

\* Nobody is shown a letter that is addressed to another account, although
\* the columns of a loaded message are swapped and the shared map is changed
\* by every connection (Server.passMessage, Server.sendUnreadedMessages).
DisplayedToAddressee == \A s \in shown : s.to = s.letter.to

\* The stream registered for an account belongs to a connection whose thread
\* has authenticated that account (Server.signInClient, also after a failed
\* attempt on the same connection; Server.closeConnectionWithClient).
RegisteredIsAuthenticated ==
    \A u \in Users : outputs[u] # NoConn => clientId[outputs[u]] = u

\* Saving a message never touches the text of another message, drops a row or
\* makes a read message unread (Message.save on INSERT and UPDATE).
HistoryGrows ==
    [][\A i \in DOMAIN message :
          /\ i \in DOMAIN message'
          /\ message'[i].text = message[i].text
          /\ message[i].read => message'[i].read]_vars

\* The letters in the table, the unread ones among them and the letters
\* displayed are a mailbox from which nothing is lost (Server.passMessage to
\* Server.confirmMessageReceived against the promise of Mailbox).
Promise ==
    INSTANCE Mailbox WITH
        accepted <- StoredLetters(message),
        pending <- UnreadLetters(message),
        seen <- {l \in Letters : Displayed(l)}

ImplementsMailbox == Promise!Spec

\* A letter that is stored when its addressee begins to load a contact list
\* is displayed in that session, unless the session ends first or its receiver
\* thread stops, which leaves the letter unread for a later session: what
\* loadContactList drops comes again with the unread messages that
\* grantedContactId asks for (Client.receiveUnreadedMessages, Client.run).
SessionGetsItsMail ==
    \A c \in Conns : \A l \in Letters :
        (/\ phase[c] = "load"
         /\ l \in StoredLetters(message)
         /\ l.to = who[c])
        ~> \/ Displayed(l)
           \/ phase[c] \in {"deaf", "gone"}
           \/ thread[c] = "ended"

\* Server.java:443 says that a confirmation updates the entry of the message
\* as read: there is one entry per message.
OneRowPerMessage ==
    \A i, j \in DOMAIN message : message[i].text = message[j].text => i = j

\* Client.java:449 says that a received message is shown in the window of the
\* person it came from.
ShownInWindowOfSender == \A s \in shown : s.frame = s.letter.from

\* Client.java:206 says that loadContactList loads the contact list of the
\* client from the server before the client begins to run.
RunsWithItsContactList == \A c \in Conns : phase[c] = "run" => loaded[c]

\* The archive of a conversation, asked for by either side at any time, holds
\* every stored letter between the two and no other, although confirmations
\* write the columns of a row back the other way round and a letter may be in
\* two rows (Message.getArchiveMessagesFor, Message.save;
\* Server.confirmMessageReceived).
ArchiveIsConversation ==
    \A u, v \in Users :
        {m.text : m \in ArchiveMessagesFor(message, u, v)} =
        {l \in StoredLetters(message) : {l.from, l.to} = {u, v}}

\* The stream of a client that is running is the one registered for its
\* account, unless another program has used the same account: only that can
\* replace the entry, or remove it with its CLOSE_CONNECTION, even without
\* having signed in (Server.signInClient, closeConnectionWithClient;
\* Client.appClosing with a remembered id).
ReachableUnlessShared ==
    \A c \in Conns :
        phase[c] \in {"run", "deaf"} /\ thread[c] = "serving" =>
            \/ outputs[who[c]] = c
            \/ \E d \in Conns \ {c} : who[c] \in {who[d], clientId[d]}
=============================================================================
