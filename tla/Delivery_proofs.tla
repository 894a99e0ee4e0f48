-------------------------- MODULE Delivery_proofs --------------------------
(***************************************************************************)
(* Proof that Messaging implements Mailbox, for any accounts, letters,     *)
(* connections and number of server restarts: every step of the programs   *)
(* and of the server is a step of the mailbox, or none; and that the       *)
(* archive of two people is what they have written to each other.          *)
(***************************************************************************)
EXTENDS Messaging_proofs

Stored == StoredLetters(message)

LEMMA StoredGrows ==
    ASSUME Grows
    PROVE  Stored \subseteq Stored'
  BY DEF Grows, Stored, StoredLetters

---------------------------------------------------------------------------
(* What a step does to the packets in flight. *)

\* The packets on their way to the server: unless c sends a message or
\* confirms one, those that carry a message were there before.
LEMMA UpPackets ==
    ASSUME IInv, [Next]_vars, NEW c \in Conns
    PROVE  \/ up'[c] = up[c]
           \/ up'[c] = <<>>
           \/ up[c] # <<>> /\ up'[c] = Tail(up[c])
           \/ \E p : /\ p.command \notin
                          {"MESSAGE", "MESSAGE_RECEIVED_CONFIRMATION"}
                     /\ up'[c] = Append(up[c], p)
           \/ SendMessage(c)
           \/ HandleReceivedMessage(c)
<1>1. TypeOK
  BY DEF IInv
<1>2. ASSUME NEW d \in Conns, NEW cmd, NEW obj,
             ToServer(d, Packet(cmd, obj)),
             cmd \notin {"MESSAGE", "MESSAGE_RECEIVED_CONFIRMATION"}
      PROVE  \/ up'[c] = up[c]
             \/ \E p : /\ p.command \notin
                            {"MESSAGE", "MESSAGE_RECEIVED_CONFIRMATION"}
                       /\ up'[c] = Append(up[c], p)
  <2>1. Packet(cmd, obj).command = cmd
    BY DEF Packet
  <2>2. \/ up'[c] = up[c]
        \/ up'[c] = Append(up[c], Packet(cmd, obj))
    BY <1>1, <1>2 DEF ToServer, TypeOK
  <2> QED
    BY <1>2, <2>1, <2>2
<1>3. ASSUME NEW d \in Conns, NEW p, ToServer(d, p), d # c
      PROVE  up'[c] = up[c]
  BY <1>1, <1>3 DEF ToServer, TypeOK
<1>4. ASSUME NEW d \in Conns, NEW cmd, Serves(d, cmd)
      PROVE  up'[c] = up[c] \/ (up[c] # <<>> /\ up'[c] = Tail(up[c]))
  BY <1>1, <1>4 DEF Serves, TypeOK
<1>5. CASE UNCHANGED vars \/ ServerRestart
  BY <1>5 DEF vars, ServerRestart
<1>6. ASSUME NEW d \in Conns, SendMessage(d) \/ HandleReceivedMessage(d)
      PROVE  up'[c] = up[c] \/ SendMessage(c) \/ HandleReceivedMessage(c)
  BY <1>3, <1>6 DEF SendMessage, HandleReceivedMessage
<1>7. ASSUME NEW d \in Conns, User(d), ~SendMessage(d)
      PROVE  \/ up'[c] = up[c]
             \/ \E p : /\ p.command \notin
                            {"MESSAGE", "MESSAGE_RECEIVED_CONFIRMATION"}
                       /\ up'[c] = Append(up[c], p)
  BY <1>2, <1>7 DEF User, Connect, ConnectRemembered, TrySignIn, AppClosing
<1>8. ASSUME NEW d \in Conns, Client(d), ~HandleReceivedMessage(d)
      PROVE  \/ up'[c] = up[c]
             \/ \E p : /\ p.command \notin
                            {"MESSAGE", "MESSAGE_RECEIVED_CONFIRMATION"}
                       /\ up'[c] = Append(up[c], p)
  BY <1>2, <1>8
     DEF Client, ReceiveSignInResponse, LoadContactList, UnknownPacket,
         LoseServer
<1>9. ASSUME NEW d \in Conns, Server(d)
      PROVE  up'[c] = up[c] \/ (up[c] # <<>> /\ up'[c] = Tail(up[c]))
  BY <1>4, <1>9
     DEF Server, SignInClient, SendContactList, PassMessage, Forward,
         ConfirmMessageReceived, SelectUnreaded, SendUnreaded,
         CloseConnectionWithClient
<1>10. ASSUME NEW d \in Conns, Failure(d)
       PROVE  up'[c] = up[c] \/ up'[c] = <<>>
  BY <1>1, <1>10
     DEF Failure, ClientCrash, ReceiverStops, ConnectionReset, TypeOK
<1> QED
  BY <1>5, <1>6, <1>7, <1>8, <1>9, <1>10 DEF Next

\* The packets on their way to the client: a message that was not there
\* before is one that a server thread held.
LEMMA DownPackets ==
    ASSUME IInv, [Next]_vars, NEW c \in Conns
    PROVE  \/ down'[c] = down[c]
           \/ down'[c] = <<>>
           \/ down[c] # <<>> /\ down'[c] = Tail(down[c])
           \/ \E p : p.command # "MESSAGE" /\ down'[c] = Append(down[c], p)
           \/ \E d \in Conns : \E m \in forwarding[d] \cup unreaded[d] :
                 down'[c] = Append(down[c], Packet("MESSAGE", m))
<1>1. TypeOK
  BY DEF IInv
<1>2. ASSUME NEW d \in Conns, NEW p, ToClient(d, p)
      PROVE  down'[c] = down[c] \/ down'[c] = Append(down[c], p)
  BY <1>1, <1>2 DEF ToClient, TypeOK
<1>3. ASSUME NEW d \in Conns, NEW cmd, Receives(d, cmd)
      PROVE  \/ down'[c] = down[c]
             \/ down[c] # <<>> /\ down'[c] = Tail(down[c])
  BY <1>1, <1>3 DEF Receives, TypeOK
<1>4. CASE UNCHANGED vars \/ ServerRestart
  BY <1>4 DEF vars, ServerRestart
<1>5. ASSUME NEW d \in Conns, User(d) \/ Failure(d)
      PROVE  down'[c] = down[c] \/ down'[c] = <<>>
  BY <1>1, <1>5
     DEF User, Connect, ConnectRemembered, TrySignIn, SendMessage, AppClosing,
         Failure, ClientCrash, ReceiverStops, ConnectionReset, TypeOK
<1>6. ASSUME NEW d \in Conns, Client(d)
      PROVE  \/ down'[c] = down[c]
             \/ down[c] # <<>> /\ down'[c] = Tail(down[c])
  BY <1>1, <1>3, <1>6
     DEF Client, ReceiveSignInResponse, LoadContactList,
         HandleReceivedMessage, UnknownPacket, LoseServer, TypeOK
<1>7. ASSUME NEW d \in Conns, SignInClient(d) \/ SendContactList(d)
      PROVE  \/ down'[c] = down[c]
             \/ \E p : p.command # "MESSAGE" /\ down'[c] = Append(down[c], p)
  <2>1. PICK cmd \in {"SIGN_IN_RESPONSE", "CONTACT_LIST_RESPONSE"} :
           ToClient(d, Packet(cmd, Head(up[d]).object))
    BY <1>7 DEF SignInClient, SendContactList
  <2>2. Packet(cmd, Head(up[d]).object).command # "MESSAGE"
    BY DEF Packet
  <2> QED
    BY <1>2, <2>1, <2>2
<1>8. ASSUME NEW d \in Conns, SendUnreaded(d)
      PROVE  \/ down'[c] = down[c]
             \/ \E m \in unreaded[d] :
                   down'[c] = Append(down[c], Packet("MESSAGE", m))
  BY <1>2, <1>8 DEF SendUnreaded
<1>9. ASSUME NEW d \in Conns, Forward(d)
      PROVE  \/ down'[c] = down[c]
             \/ \E m \in forwarding[d] :
                   down'[c] = Append(down[c], Packet("MESSAGE", m))
  <2>1. PICK m \in forwarding[d] :
           \/ down' = down
           \/ /\ outputs[m.receiver] # NoConn
              /\ ToClient(outputs[m.receiver], Packet("MESSAGE", m))
    BY <1>9 DEF Forward
  <2>2. m.receiver \in Ids
    BY <1>1, <2>1 DEF TypeOK, MessageObject, Ids
  <2>3. outputs[m.receiver] # NoConn => outputs[m.receiver] \in Conns
    BY <1>1, <2>2 DEF TypeOK
  <2> QED
    BY <1>2, <2>1, <2>3
<1>10. ASSUME NEW d \in Conns,
              \/ PassMessage(d) \/ ConfirmMessageReceived(d)
              \/ SelectUnreaded(d) \/ CloseConnectionWithClient(d)
       PROVE  down' = down
  BY <1>10
     DEF PassMessage, ConfirmMessageReceived, SelectUnreaded,
         CloseConnectionWithClient
<1> QED
  BY <1>4, <1>5, <1>6, <1>7, <1>8, <1>9, <1>10 DEF Next, Server

---------------------------------------------------------------------------
(* What a step does to the letters that are stored. *)

\* The packet that a thread serves, and the table after it was saved.
LEMMA SavedPacket ==
    ASSUME IInv, NEW c \in Conns,
           PassMessage(c) \/ ConfirmMessageReceived(c)
    PROVE  /\ up[c] # <<>> /\ up[c] \in Seq(UpPacket)
           /\ up' = [up EXCEPT ![c] = Tail(up[c])]
           /\ Head(up[c]) \in GoodUp
           /\ PassMessage(c) => Head(up[c]).command = "MESSAGE"
           /\ ConfirmMessageReceived(c) =>
                Head(up[c]).command = "MESSAGE_RECEIVED_CONFIRMATION"
           /\ Head(up[c]).object \in MessageObject
           /\ message \in Seq(Row)
           /\ message' = Save(message, Head(up[c]).object)
<1>1. TypeOK /\ ConnInv(c)
  BY DEF IInv
<1>2. PICK cmd \in {"MESSAGE", "MESSAGE_RECEIVED_CONFIRMATION"} :
         /\ Serves(c, cmd)
         /\ PassMessage(c) => cmd = "MESSAGE"
         /\ ConfirmMessageReceived(c) => cmd = "MESSAGE_RECEIVED_CONFIRMATION"
  <2>1. CASE PassMessage(c)
    <3>1. Serves(c, "MESSAGE")
      BY <2>1 DEF PassMessage
    <3>2. ~ConfirmMessageReceived(c)
      BY <3>1 DEF ConfirmMessageReceived, Serves
    <3> QED
      BY <3>1, <3>2
  <2>2. CASE ~PassMessage(c)
    BY <2>2 DEF ConfirmMessageReceived
  <2> QED
    BY <2>1, <2>2
<1>3. Head(up[c]) \in GoodUp /\ Head(up[c]).command = cmd
  BY <1>1, <1>2, ServesGood
<1>4. Head(up[c]).object \in MessageObject
  BY <1>2, <1>3, ObjectTypes DEF GoodUp
<1>5. message' = Save(message, Head(up[c]).object)
  BY DEF PassMessage, ConfirmMessageReceived
<1> QED
  BY <1>1, <1>2, <1>3, <1>4, <1>5 DEF Serves, TypeOK

\* Only passMessage adds a letter to those that are stored.
LEMMA StoredStep ==
    ASSUME IInv, MInv, [Next]_vars
    PROVE  \/ Stored' = Stored
           \/ \E c \in Conns :
                /\ PassMessage(c)
                /\ Stored' = Stored \cup {Head(up[c]).object.text}
<1>1. Grows
  BY IInvStep
<1>2. ASSUME NEW c \in Conns, PassMessage(c)
      PROVE  Stored' = Stored \cup {Head(up[c]).object.text}
  <2>1. PICK m : m = Head(up[c]).object
    OBVIOUS
  <2>2. message' = Append(message, RowOf(m)) /\ message \in Seq(Row)
    BY <1>2, <2>1, SavedPacket DEF Save, GoodUp
  <2>3. /\ DOMAIN message' = DOMAIN message \cup {Len(message) + 1}
        /\ \A i \in DOMAIN message : message'[i] = message[i]
        /\ message'[Len(message) + 1] = RowOf(m)
    BY <2>2
  <2> QED
    BY <2>1, <2>3 DEF Stored, StoredLetters, RowOf
<1>3. ASSUME NEW c \in Conns, ConfirmMessageReceived(c)
      PROVE  Stored' = Stored
  <2>1. PICK m : m = Head(up[c]).object
    OBVIOUS
  <2>2. m.text \in Stored
    <3>1. 1 \in DOMAIN up[c] /\ Head(up[c]) = up[c][1]
      BY <1>3, SavedPacket
    <3> QED
      BY <1>3, <2>1, <3>1, SavedPacket DEF MInv, CopiesAreStored, Stored
  <2>3. \A i \in DOMAIN message' :
           \/ i \in DOMAIN message /\ message'[i] = message[i]
           \/ message'[i] = RowOf(m)
    BY <1>3, <2>1, SavedPacket, SaveRows
  <2>4. Stored' \subseteq Stored
    BY <2>2, <2>3 DEF Stored, StoredLetters, RowOf
  <2> QED
    BY <1>1, <2>4, StoredGrows
<1>4. CASE UNCHANGED vars \/ ServerRestart
  BY <1>4 DEF vars, ServerRestart, Stored
<1>5. ASSUME NEW c \in Conns, User(c) \/ Client(c) \/ Failure(c)
      PROVE  Stored' = Stored
  BY <1>5
     DEF User, Connect, ConnectRemembered, TrySignIn, SendMessage, AppClosing,
         Client, ReceiveSignInResponse, LoadContactList,
         HandleReceivedMessage, UnknownPacket, LoseServer,
         Failure, ClientCrash, ReceiverStops, ConnectionReset, Stored
<1>6. ASSUME NEW c \in Conns, Server(c), ~PassMessage(c),
             ~ConfirmMessageReceived(c)
      PROVE  Stored' = Stored
  BY <1>6
     DEF Server, SignInClient, SendContactList, Forward, SelectUnreaded,
         SendUnreaded, CloseConnectionWithClient, Stored
<1> QED
  BY <1>2, <1>3, <1>4, <1>5, <1>6 DEF Next

\* What a server thread holds is what it held, the message it has just saved,
\* or what it has just read from the table.
LEMMA HeldFrom ==
    ASSUME IInv, [Next]_vars, NEW c \in Conns,
           NEW m \in forwarding'[c] \cup unreaded'[c]
    PROVE  \/ m \in forwarding[c] \cup unreaded[c]
           \/ PassMessage(c) /\ m = Head(up[c]).object
           \/ m \in UnreadMessagesFor(message, clientId[c])
<1>1. TypeOK
  BY DEF IInv
<1>2. CASE UNCHANGED vars
  BY <1>2 DEF vars, serverVars
<1>3. CASE ServerRestart
  BY <1>3 DEF ServerRestart
<1>4. ASSUME NEW d \in Conns, User(d) \/ Client(d) \/ Failure(d)
      PROVE  forwarding' = forwarding /\ unreaded' = unreaded
  BY <1>4
     DEF User, Connect, ConnectRemembered, TrySignIn, SendMessage, AppClosing,
         Client, ReceiveSignInResponse, LoadContactList,
         HandleReceivedMessage, UnknownPacket, LoseServer,
         Failure, ClientCrash, ReceiverStops, ConnectionReset, serverVars
<1>5. ASSUME NEW d \in Conns, PassMessage(d)
      PROVE  \/ m \in forwarding[c] \cup unreaded[c]
             \/ c = d /\ m = Head(up[c]).object
  BY <1>1, <1>5 DEF PassMessage, TypeOK
<1>6. ASSUME NEW d \in Conns, Forward(d) \/ SendUnreaded(d)
      PROVE  m \in forwarding[c] \cup unreaded[c]
  BY <1>1, <1>6 DEF Forward, SendUnreaded, TypeOK
<1>7. ASSUME NEW d \in Conns, SelectUnreaded(d)
      PROVE  \/ m \in forwarding[c] \cup unreaded[c]
             \/ m \in UnreadMessagesFor(message, clientId[c])
  <2>1. forwarding' = forwarding
    BY <1>7 DEF SelectUnreaded
  <2>2. \/ unreaded'[c] = unreaded[c] \/ unreaded'[c] = {}
        \/ unreaded'[c] = UnreadMessagesFor(message, clientId[c])
    BY <1>1, <1>7 DEF SelectUnreaded, TypeOK
  <2> QED
    BY <2>1, <2>2
<1>8. ASSUME NEW d \in Conns,
             \/ SignInClient(d) \/ SendContactList(d)
             \/ ConfirmMessageReceived(d) \/ CloseConnectionWithClient(d)
      PROVE  forwarding' = forwarding /\ unreaded' = unreaded
  BY <1>8
     DEF SignInClient, SendContactList, ConfirmMessageReceived,
         CloseConnectionWithClient, serverVars
<1> QED
  BY <1>2, <1>3, <1>4, <1>5, <1>6, <1>7, <1>8 DEF Next, Server

LEMMA HeldStep ==
    ASSUME IInv, MInv, [Next]_vars, NEW c \in Conns,
           NEW m \in forwarding'[c] \cup unreaded'[c]
    PROVE  m.text \in Stored'
<1>1. Stored \subseteq Stored'
  BY IInvStep, StoredGrows
<1>2. CASE m \in forwarding[c] \cup unreaded[c]
  BY <1>1, <1>2 DEF MInv, CopiesAreStored, Stored
<1>3. CASE PassMessage(c) /\ m = Head(up[c]).object
  <2>1. message' = Append(message, RowOf(m)) /\ message \in Seq(Row)
    BY <1>3, SavedPacket DEF Save, GoodUp
  <2>2. /\ Len(message) + 1 \in DOMAIN message'
        /\ message'[Len(message) + 1] = RowOf(m)
    BY <2>1
  <2> QED
    BY <2>2 DEF Stored, StoredLetters, RowOf
<1>4. CASE m \in UnreadMessagesFor(message, clientId[c])
  BY <1>1, <1>4 DEF UnreadMessagesFor, Load, Stored, StoredLetters
<1> QED
  BY <1>2, <1>3, <1>4, HeldFrom

LEMMA CopiesStep ==
    ASSUME IInv, MInv, [Next]_vars, NEW c \in Conns
    PROVE  CopiesAreStored(c)'
<1>1. TypeOK /\ Stored \subseteq Stored'
  BY IInvStep, StoredGrows DEF IInv
<1>2. up[c] \in Seq(UpPacket) /\ down[c] \in Seq(DownPacket)
  BY <1>1 DEF TypeOK
<1>3. CopiesAreStored(c)
  BY DEF MInv
<1>4. ASSUME NEW i \in DOMAIN down'[c], down'[c][i].command = "MESSAGE"
      PROVE  down'[c][i].object.text \in Stored'
  <2>1. CASE \E j \in DOMAIN down[c] : down'[c][i] = down[c][j]
    BY <1>1, <1>3, <1>4, <2>1 DEF CopiesAreStored, Stored
  <2>2. ASSUME NEW p, down'[c] = Append(down[c], p)
        PROVE  \/ \E j \in DOMAIN down[c] : down'[c][i] = down[c][j]
               \/ down'[c][i] = p
    BY <1>2, <2>2
  <2>3. ASSUME NEW d \in Conns, NEW m \in forwarding[d] \cup unreaded[d],
               down'[c][i] = Packet("MESSAGE", m)
        PROVE  down'[c][i].object.text \in Stored'
    <3>1. m.text \in Stored
      BY DEF MInv, CopiesAreStored, Stored
    <3> QED
      BY <1>1, <2>3, <3>1 DEF Packet
  <2>4. CASE down[c] # <<>> /\ down'[c] = Tail(down[c])
    <3>1. i + 1 \in DOMAIN down[c] /\ down'[c][i] = down[c][i + 1]
      BY <1>2, <2>4
    <3> QED
      BY <2>1, <3>1
  <2>5. CASE down'[c] = down[c] \/ down'[c] = <<>>
    BY <2>1, <2>5
  <2> QED
    BY <1>4, <2>1, <2>2, <2>3, <2>4, <2>5, DownPackets
<1>5. ASSUME NEW i \in DOMAIN up'[c],
             up'[c][i].command = "MESSAGE_RECEIVED_CONFIRMATION"
      PROVE  up'[c][i].object.text \in Stored'
  <2>1. CASE \E j \in DOMAIN up[c] : up'[c][i] = up[c][j]
    BY <1>1, <1>3, <1>5, <2>1 DEF CopiesAreStored, Stored
  <2>2. ASSUME NEW p, up'[c] = Append(up[c], p)
        PROVE  \/ \E j \in DOMAIN up[c] : up'[c][i] = up[c][j]
               \/ up'[c][i] = p
    BY <1>2, <2>2
  <2>3. CASE up[c] # <<>> /\ up'[c] = Tail(up[c])
    <3>1. i + 1 \in DOMAIN up[c] /\ up'[c][i] = up[c][i + 1]
      BY <1>2, <2>3
    <3> QED
      BY <2>1, <3>1
  <2>4. CASE up'[c] = up[c] \/ up'[c] = <<>>
    BY <2>1, <2>4
  <2>5. CASE SendMessage(c)
    <3>1. PICK l : ToServer(c, Packet("MESSAGE", NewMessage(l)))
      BY <2>5 DEF SendMessage
    <3>2. \/ up'[c] = up[c]
          \/ up'[c] = Append(up[c], Packet("MESSAGE", NewMessage(l)))
      BY <1>1, <3>1 DEF ToServer, TypeOK
    <3>3. Packet("MESSAGE", NewMessage(l)).command = "MESSAGE"
      BY DEF Packet
    <3> QED
      BY <1>5, <2>1, <2>2, <2>4, <3>2, <3>3
  <2>6. CASE HandleReceivedMessage(c)
    <3>1. PICK m, n : /\ m = Head(down[c]).object
                      /\ n = [m EXCEPT !.read = TRUE]
      OBVIOUS
    <3>2. /\ ToServer(c, Packet("MESSAGE_RECEIVED_CONFIRMATION", n))
          /\ Receives(c, "MESSAGE")
      BY <2>6, <3>1 DEF HandleReceivedMessage
    <3>3. m.text \in Stored /\ m \in MessageObject
      <4>1. 1 \in DOMAIN down[c] /\ Head(down[c]) = down[c][1]
        BY <1>2, <3>2 DEF Receives
      <4>2. m \in MessageObject
        BY <1>1, <3>1, <3>2, ReceivesType, ObjectTypes
      <4> QED
        BY <1>3, <3>1, <3>2, <4>1, <4>2
           DEF Receives, CopiesAreStored, Stored
    <3>4. n.text = m.text
      BY <3>1, <3>3 DEF MessageObject
    <3>5. \/ up'[c] = up[c]
          \/ up'[c] =
               Append(up[c], Packet("MESSAGE_RECEIVED_CONFIRMATION", n))
      BY <1>1, <3>2 DEF ToServer, TypeOK
    <3>6. Packet("MESSAGE_RECEIVED_CONFIRMATION", n).object = n
      BY DEF Packet
    <3> QED
      BY <1>1, <2>1, <2>2, <2>4, <3>3, <3>4, <3>5, <3>6
  <2> QED
    BY <1>5, <2>1, <2>2, <2>3, <2>4, <2>5, <2>6, UpPackets
<1> QED
  BY <1>4, <1>5, HeldStep DEF CopiesAreStored, Stored

---------------------------------------------------------------------------
(* New messages on their way to the server. *)

LEMMA SentGrows ==
    ASSUME [Next]_vars
    PROVE  sent \subseteq sent'
  BY DEF Next, vars, historyVars, ServerRestart, User, Connect,
         ConnectRemembered, TrySignIn, SendMessage, AppClosing, Client,
         ReceiveSignInResponse, LoadContactList, HandleReceivedMessage,
         UnknownPacket, LoseServer, Failure, ClientCrash, ReceiverStops,
         ConnectionReset,
         Server, SignInClient, SendContactList, PassMessage, Forward,
         ConfirmMessageReceived, SelectUnreaded, SendUnreaded,
         CloseConnectionWithClient

\* A new message was on its way before, at the same place or one place
\* behind, unless its client has just sent it.
LEMMA NewFrom ==
    ASSUME IInv, [Next]_vars, NEW c \in Conns
    PROVE  \E k \in {0, 1} : \A i \in DOMAIN up'[c] :
              up'[c][i].command = "MESSAGE" =>
                \/ i + k \in DOMAIN up[c] /\ up'[c][i] = up[c][i + k]
                \/ /\ SendMessage(c)
                   /\ i = Len(up[c]) + 1
                   /\ up'[c][i].object.text \in sent' \ sent
<1>1. TypeOK /\ up[c] \in Seq(UpPacket)
  BY DEF IInv, TypeOK
<1>2. CASE up'[c] = up[c] \/ up'[c] = <<>>
  <2>1. \A i \in DOMAIN up'[c] :
           i + 0 \in DOMAIN up[c] /\ up'[c][i] = up[c][i + 0]
    BY <1>1, <1>2
  <2> QED
    BY <2>1
<1>3. CASE up[c] # <<>> /\ up'[c] = Tail(up[c])
  <2>1. \A i \in DOMAIN up'[c] :
           i + 1 \in DOMAIN up[c] /\ up'[c][i] = up[c][i + 1]
    BY <1>1, <1>3
  <2> QED
    BY <2>1
<1>4. ASSUME NEW p, up'[c] = Append(up[c], p)
      PROVE  \A i \in DOMAIN up'[c] :
                \/ i + 0 \in DOMAIN up[c] /\ up'[c][i] = up[c][i + 0]
                \/ i = Len(up[c]) + 1 /\ up'[c][i] = p
  BY <1>1, <1>4
<1>5. ASSUME NEW p, up'[c] = Append(up[c], p), p.command # "MESSAGE"
      PROVE  \A i \in DOMAIN up'[c] :
                up'[c][i].command = "MESSAGE" =>
                   i + 0 \in DOMAIN up[c] /\ up'[c][i] = up[c][i + 0]
  BY <1>4, <1>5
<1>6. CASE SendMessage(c)
  <2>1. PICK l \in Letters \ sent :
           /\ ToServer(c, Packet("MESSAGE", NewMessage(l)))
           /\ sent' = sent \cup {l}
    BY <1>6 DEF SendMessage
  <2>2. PICK p : p = Packet("MESSAGE", NewMessage(l))
    OBVIOUS
  <2>3. up'[c] = up[c] \/ up'[c] = Append(up[c], p)
    BY <1>1, <2>1, <2>2 DEF ToServer, TypeOK
  <2>4. p.object.text \in sent' \ sent
    BY <2>1, <2>2 DEF Packet, NewMessage
  <2>5. CASE up'[c] = Append(up[c], p)
    <3>1. \A i \in DOMAIN up'[c] :
             \/ i + 0 \in DOMAIN up[c] /\ up'[c][i] = up[c][i + 0]
             \/ i = Len(up[c]) + 1 /\ up'[c][i] = p
      BY <1>4, <2>5
    <3> QED
      BY <1>6, <2>4, <3>1
  <2> QED
    BY <1>2, <2>3, <2>5
<1>7. CASE HandleReceivedMessage(c)
  <2>1. PICK n :
           ToServer(c, Packet("MESSAGE_RECEIVED_CONFIRMATION", n))
    BY <1>7 DEF HandleReceivedMessage
  <2>2. PICK p : p = Packet("MESSAGE_RECEIVED_CONFIRMATION", n)
    OBVIOUS
  <2>3. up'[c] = up[c] \/ up'[c] = Append(up[c], p)
    BY <1>1, <2>1, <2>2 DEF ToServer, TypeOK
  <2>4. p.command # "MESSAGE"
    BY <2>2 DEF Packet
  <2> QED
    BY <1>2, <1>5, <2>3, <2>4
<1> QED
  BY <1>2, <1>3, <1>5, <1>6, <1>7, UpPackets

LEMMA NewIsUnstoredStep ==
    ASSUME IInv, MInv, [Next]_vars
    PROVE  NewIsUnstored'
<1>1. \A c \in Conns : up[c] \in Seq(UpPacket)
  BY DEF IInv, TypeOK
<1> SUFFICES ASSUME NEW c \in Conns, NEW i \in DOMAIN up'[c],
                    up'[c][i].command = "MESSAGE"
             PROVE  up'[c][i].object.text \in sent' \ Stored'
  BY DEF NewIsUnstored, IsNew, Stored
<1>2. PICK k \in {0, 1} :
         \/ i + k \in DOMAIN up[c] /\ up'[c][i] = up[c][i + k]
         \/ /\ SendMessage(c)
            /\ up'[c][i].object.text \in sent' \ sent
  BY NewFrom
<1>3. CASE i + k \in DOMAIN up[c] /\ up'[c][i] = up[c][i + k]
  <2>1. up'[c][i].object.text \in sent \ Stored
    BY <1>3 DEF MInv, NewIsUnstored, IsNew, Stored
  <2>2. ASSUME NEW d \in Conns, PassMessage(d)
        PROVE  up'[c][i].object.text # Head(up[d]).object.text
    <3>1. /\ 1 \in DOMAIN up[d] /\ Head(up[d]) = up[d][1]
          /\ Head(up[d]).command = "MESSAGE"
          /\ up' = [up EXCEPT ![d] = Tail(up[d])]
          /\ up \in [Conns -> Seq(UpPacket)]
      BY <2>2, SavedPacket DEF IInv, TypeOK
    <3>2. PICK j \in DOMAIN up[c] :
             up'[c][i] = up[c][j] /\ (c = d => j # 1)
      <4>1. CASE c = d
        <5>1. /\ i + 1 \in DOMAIN up[c] /\ up'[c][i] = up[c][i + 1]
              /\ i + 1 # 1
          BY <1>1, <3>1, <4>1
        <5> QED
          BY <5>1
      <4>2. CASE c # d
        BY <3>1, <4>2
      <4> QED
        BY <4>1, <4>2
    <3> QED
      BY <3>1, <3>2 DEF MInv, NewIsUnique, IsNew
  <2> QED
    BY <2>1, <2>2, StoredStep, SentGrows
<1>4. CASE SendMessage(c) /\ up'[c][i].object.text \in sent' \ sent
  <2>1. Stored' = Stored
    BY <1>4 DEF SendMessage, Stored
  <2> QED
    BY <1>4, <2>1 DEF MInv, StoredIsSent, Stored
<1> QED
  BY <1>2, <1>3, <1>4

LEMMA NewIsUniqueStep ==
    ASSUME IInv, MInv, [Next]_vars
    PROVE  NewIsUnique'
<1>1. TypeOK /\ \A c \in Conns : up[c] \in Seq(UpPacket)
  BY DEF IInv, TypeOK
<1> SUFFICES ASSUME NEW c \in Conns, NEW d \in Conns,
                    NEW i \in DOMAIN up'[c], NEW j \in DOMAIN up'[d],
                    up'[c][i].command = "MESSAGE",
                    up'[d][j].command = "MESSAGE",
                    up'[c][i].object.text = up'[d][j].object.text
             PROVE  c = d /\ i = j
  BY DEF NewIsUnique, IsNew
<1>2. ASSUME NEW e \in Conns, NEW n \in DOMAIN up[e],
             up[e][n].command = "MESSAGE"
      PROVE  up[e][n].object.text \in sent
  BY <1>2 DEF MInv, NewIsUnstored, IsNew
<1>3. CASE c = d
  <2>1. PICK k \in {0, 1} : \A n \in DOMAIN up'[c] :
           up'[c][n].command = "MESSAGE" =>
              \/ n + k \in DOMAIN up[c] /\ up'[c][n] = up[c][n + k]
              \/ /\ n = Len(up[c]) + 1
                 /\ up'[c][n].object.text \notin sent
    BY NewFrom
  <2>2. i \in Nat /\ j \in Nat
    <3>1. up'[c] \in Seq(UpPacket) /\ up'[d] \in Seq(UpPacket)
      BY IInvStep DEF IInv, TypeOK
    <3> QED
      BY <3>1
  <2>3. CASE /\ i + k \in DOMAIN up[c] /\ up'[c][i] = up[c][i + k]
             /\ j + k \in DOMAIN up[c] /\ up'[c][j] = up[c][j + k]
    <3>1. i + k = j + k
      BY <1>3, <2>3 DEF MInv, NewIsUnique, IsNew
    <3> QED
      BY <1>3, <2>2, <3>1
  <2>4. CASE i = Len(up[c]) + 1 /\ up'[c][i].object.text \notin sent
    BY <1>2, <1>3, <2>1, <2>4
  <2>5. CASE j = Len(up[c]) + 1 /\ up'[c][j].object.text \notin sent
    BY <1>2, <1>3, <2>1, <2>5
  <2> QED
    BY <1>3, <2>1, <2>3, <2>4, <2>5
<1>4. CASE c # d
  <2>1. PICK k \in {0, 1} :
           \/ i + k \in DOMAIN up[c] /\ up'[c][i] = up[c][i + k]
           \/ /\ SendMessage(c) /\ i = Len(up[c]) + 1
              /\ up'[c][i].object.text \notin sent
    BY NewFrom
  <2>2. PICK h \in {0, 1} :
           \/ j + h \in DOMAIN up[d] /\ up'[d][j] = up[d][j + h]
           \/ /\ SendMessage(d) /\ j = Len(up[d]) + 1
              /\ up'[d][j].object.text \notin sent
    BY NewFrom
  <2>3. CASE /\ i + k \in DOMAIN up[c] /\ up'[c][i] = up[c][i + k]
             /\ j + h \in DOMAIN up[d] /\ up'[d][j] = up[d][j + h]
    BY <1>4, <2>3 DEF MInv, NewIsUnique, IsNew
  <2>4. CASE SendMessage(c) /\ SendMessage(d) /\ j = Len(up[d]) + 1
    <3>1. up'[d] = up[d]
      BY <1>1, <1>4, <2>4 DEF SendMessage, ToServer, TypeOK
    <3> QED
      BY <1>1, <2>4, <3>1
  <2> QED
    BY <1>2, <2>1, <2>2, <2>3, <2>4
<1> QED
  BY <1>3, <1>4

LEMMA StoredIsSentStep ==
    ASSUME IInv, MInv, [Next]_vars
    PROVE  StoredIsSent'
<1>1. Stored \subseteq sent /\ sent \subseteq sent'
  BY SentGrows DEF MInv, StoredIsSent, Stored
<1>2. ASSUME NEW c \in Conns, PassMessage(c)
      PROVE  Head(up[c]).object.text \in sent
  <2>1. /\ 1 \in DOMAIN up[c] /\ Head(up[c]) = up[c][1]
        /\ Head(up[c]).command = "MESSAGE"
    BY <1>2, SavedPacket
  <2> QED
    BY <2>1 DEF MInv, NewIsUnstored, IsNew
<1>3. Stored' \subseteq sent'
  BY <1>1, <1>2, StoredStep
<1> QED
  BY <1>3 DEF StoredIsSent, Stored

LEMMA MInvInductive ==
    /\ Init => MInv
    /\ IInv /\ MInv /\ [Next]_vars => MInv'
<1>1. Init => MInv
  BY DEF Init, MInv, CopiesAreStored, NewIsUnstored, NewIsUnique,
         StoredIsSent, StoredLetters
<1>2. IInv /\ MInv /\ [Next]_vars => MInv'
  BY CopiesStep, NewIsUnstoredStep, NewIsUniqueStep, StoredIsSentStep DEF MInv
<1> QED
  BY <1>1, <1>2

---------------------------------------------------------------------------
(* The steps of the mailbox. *)

Pending == UnreadLetters(message)

Seen == {l \in Letters : Displayed(l)}

\* passMessage, up to the end of save(), accepts a letter.
LEMMA PassAccepts ==
    ASSUME IInv, MInv, NEW c \in Conns, PassMessage(c)
    PROVE  Promise!Next
<1>1. PICK m : m = Head(up[c]).object
  OBVIOUS
<1>2. /\ m \in MessageObject /\ m.id = 0 /\ ~m.read /\ m.text \in Letters
      /\ message \in Seq(Row) /\ message' = Append(message, RowOf(m))
  BY <1>1, SavedPacket DEF Save, GoodUp, MessageObject
<1>3. m.text \notin Stored
  <2>1. /\ 1 \in DOMAIN up[c] /\ Head(up[c]) = up[c][1]
        /\ Head(up[c]).command = "MESSAGE"
    BY SavedPacket
  <2> QED
    BY <1>1, <2>1 DEF MInv, NewIsUnstored, IsNew, Stored
<1>4. /\ DOMAIN message' = DOMAIN message \cup {Len(message) + 1}
      /\ \A i \in DOMAIN message : message'[i] = message[i]
      /\ message'[Len(message) + 1] = RowOf(m)
  BY <1>2
<1>5. Stored' = Stored \cup {m.text}
  BY <1>4 DEF Stored, StoredLetters, RowOf
<1>6. Pending' = Pending \cup {m.text}
  BY <1>2, <1>4 DEF Pending, UnreadLetters, RowOf
<1>7. Seen' = Seen
  BY DEF PassMessage, historyVars, Seen, Displayed
<1>8. Promise!Accept(m.text)
  BY <1>3, <1>5, <1>6, <1>7 DEF Promise!Accept, Stored, Pending, Seen
<1> QED
  BY <1>2, <1>8 DEF Promise!Next

\* A confirmation retires a letter, or changes nothing when the letter has
\* another unread row or was retired before.
LEMMA ConfirmRetires ==
    ASSUME IInv, MInv, NEW c \in Conns, ConfirmMessageReceived(c)
    PROVE  \/ Promise!Next
           \/ Stored' = Stored /\ Pending' = Pending /\ Seen' = Seen
<1>1. PICK m : m = Head(up[c]).object
  OBVIOUS
<1>2. /\ m \in MessageObject /\ m.read /\ RefersToItsRow(m)
      /\ Displayed(m.text) /\ m.text \in Letters
      /\ message \in Seq(Row) /\ message' = Save(message, m)
  BY <1>1, SavedPacket DEF GoodUp, MessageObject
<1>3. /\ DOMAIN message \subseteq DOMAIN message'
      /\ \A i \in DOMAIN message : i # m.id => message'[i] = message[i]
      /\ \A i \in DOMAIN message' :
           \/ i \in DOMAIN message /\ message'[i] = message[i]
           \/ message'[i] = RowOf(m)
  BY <1>2, SaveRows
<1>4. Seen' = Seen
  BY DEF ConfirmMessageReceived, historyVars, Seen, Displayed
<1>5. Stored' = Stored
  <2>1. m.text \in Stored
    <3>1. /\ 1 \in DOMAIN up[c] /\ Head(up[c]) = up[c][1]
          /\ Head(up[c]).command = "MESSAGE_RECEIVED_CONFIRMATION"
      BY SavedPacket
    <3> QED
      BY <1>1, <3>1 DEF MInv, CopiesAreStored, Stored
  <2>2. Stored' \subseteq Stored
    BY <1>3, <2>1 DEF Stored, StoredLetters, RowOf
  <2>3. Stored \subseteq Stored'
    <3>1. Server(c)
      BY DEF Server
    <3>2. Grows
      BY <3>1, IInvStep DEF Next
    <3> QED
      BY <3>2, StoredGrows
  <2> QED
    BY <2>2, <2>3
<1>6. Pending' \subseteq Pending
  BY <1>2, <1>3 DEF Pending, UnreadLetters, RowOf
<1>7. Pending \ {m.text} \subseteq Pending'
  <2> SUFFICES ASSUME NEW i \in DOMAIN message, ~message[i].read,
                      message[i].text # m.text
               PROVE  message[i].text \in Pending'
    BY DEF Pending, UnreadLetters
  <2>1. i # m.id
    BY <1>2 DEF RefersToItsRow
  <2> QED
    BY <1>3, <2>1 DEF Pending, UnreadLetters
<1>8. CASE Pending' = Pending
  BY <1>4, <1>5, <1>8
<1>9. CASE Pending' # Pending
  <2>1. m.text \in Pending /\ Pending' = Pending \ {m.text}
    BY <1>6, <1>7, <1>9
  <2>2. m.text \in Seen
    BY <1>2 DEF Seen
  <2>3. Promise!Retire(m.text)
    BY <1>4, <1>5, <2>1, <2>2 DEF Promise!Retire, Stored, Pending, Seen
  <2> QED
    BY <1>2, <2>3 DEF Promise!Next
<1> QED
  BY <1>8, <1>9

\* Displaying a message is seeing an accepted letter.
LEMMA DisplaySees ==
    ASSUME IInv, MInv, NEW c \in Conns, HandleReceivedMessage(c)
    PROVE  Promise!Next
<1>1. PICK m : m = Head(down[c]).object
  OBVIOUS
<1>2. PICK s : s = [letter |-> m.text, to |-> who[c], frame |-> m.sender]
  OBVIOUS
<1>3. TypeOK /\ ConnInv(c)
  BY DEF IInv
<1>4. /\ Head(down[c]) \in GoodDown(clientId[c]) /\ down[c] # <<>>
      /\ Head(down[c]).command = "MESSAGE"
  BY <1>3, ReceivesGood DEF HandleReceivedMessage, Receives
<1>5. m \in MailFor(who[c]) /\ m.text \in Letters
  BY <1>1, <1>3, <1>4
     DEF GoodDown, HandleReceivedMessage, ConnInv, PhaseInv, MailFor,
         MessageObject
<1>6. m.text \in Stored
  <2>1. 1 \in DOMAIN down[c] /\ Head(down[c]) = down[c][1]
    BY <1>3, <1>4 DEF TypeOK
  <2> QED
    BY <1>1, <1>4, <2>1 DEF MInv, CopiesAreStored, Stored
<1>7. shown' = shown \cup {s} /\ message' = message
  BY <1>1, <1>2 DEF HandleReceivedMessage
<1>8. Seen' = Seen \cup {m.text}
  BY <1>2, <1>5, <1>7 DEF Seen, Displayed, MailFor
<1>9. Promise!See(m.text)
  BY <1>6, <1>7, <1>8 DEF Promise!See, Stored, Seen
<1> QED
  BY <1>5, <1>9 DEF Promise!Next

LEMMA StepOfMailbox ==
    ASSUME IInv, MInv, [Next]_vars
    PROVE  \/ Promise!Next
           \/ Stored' = Stored /\ Pending' = Pending /\ Seen' = Seen
<1>1. CASE UNCHANGED vars \/ ServerRestart
  BY <1>1 DEF vars, ServerRestart, historyVars, Stored, Pending, Seen,
     Displayed
<1>2. ASSUME NEW c \in Conns, User(c) \/ Failure(c)
      PROVE  message' = message /\ shown' = shown
  BY <1>2
     DEF User, Connect, ConnectRemembered, TrySignIn, SendMessage, AppClosing,
         Failure, ClientCrash, ReceiverStops, ConnectionReset, historyVars
<1>3. ASSUME NEW c \in Conns, Client(c), ~HandleReceivedMessage(c)
      PROVE  message' = message /\ shown' = shown
  BY <1>3
     DEF Client, ReceiveSignInResponse, LoadContactList, UnknownPacket,
         LoseServer, historyVars
<1>4. ASSUME NEW c \in Conns, Server(c), ~PassMessage(c),
             ~ConfirmMessageReceived(c)
      PROVE  message' = message /\ shown' = shown
  BY <1>4
     DEF Server, SignInClient, SendContactList, Forward, SelectUnreaded,
         SendUnreaded, CloseConnectionWithClient, historyVars
<1>5. CASE message' = message /\ shown' = shown
  BY <1>5 DEF Stored, Pending, Seen, Displayed
<1> QED
  BY <1>1, <1>2, <1>3, <1>4, <1>5, PassAccepts, ConfirmRetires, DisplaySees
     DEF Next

---------------------------------------------------------------------------

\* The messenger keeps the promise of Mailbox: no accepted letter is lost,
\* and none stops being pending before its addressee has seen it.
THEOREM KeepsThePromise == Spec => ImplementsMailbox
<1>1. Init => Promise!Init
  BY DEF Init, Promise!Init, StoredLetters, UnreadLetters, Displayed
<1>2. IInv /\ MInv /\ [Next]_vars => [Promise!Next]_(Promise!vars)
  BY StepOfMailbox DEF Promise!vars, Stored, Pending, Seen
<1> QED
  BY <1>1, <1>2, MInvInductive, Inductive, PTL
     DEF Spec, ImplementsMailbox, Promise!Spec

---------------------------------------------------------------------------
(* The archive of two people holds what they have written to each other.   *)

MessageCommands == {"MESSAGE", "MESSAGE_RECEIVED_CONFIRMATION"}

\* Loading a row swaps its columns, saving an object keeps them.
LEMMA LoadNamesBoth ==
    ASSUME NEW t \in Seq(Row), NEW i \in DOMAIN t, NamesBoth(t[i])
    PROVE  NamesBoth(Load(t, i))
  BY DEF NamesBoth, Load

LEMMA RowNamesBoth ==
    ASSUME NEW m \in MessageObject, NamesBoth(m)
    PROVE  NamesBoth(RowOf(m))
  BY DEF NamesBoth, RowOf

LEMMA NewNamesBoth ==
    ASSUME NEW l \in Letters
    PROVE  NamesBoth(NewMessage(l))
  BY DEF NamesBoth, NewMessage

---------------------------------------------------------------------------
(* Every step keeps AInv. *)

\* What a thread serves, when it saves it.
LEMMA SavedNamesBoth ==
    ASSUME IInv, AInv, NEW c \in Conns,
           PassMessage(c) \/ ConfirmMessageReceived(c)
    PROVE  NamesBoth(Head(up[c]).object)
<1>1. /\ 1 \in DOMAIN up[c] /\ Head(up[c]) = up[c][1]
      /\ Head(up[c]).command \in MessageCommands
  BY SavedPacket DEF MessageCommands
<1> QED
  BY <1>1 DEF AInv, ObjectsNameBoth, MessageCommands

LEMMA RowsStep ==
    ASSUME IInv, AInv, [Next]_vars
    PROVE  \A i \in DOMAIN message' : NamesBoth(message'[i])
<1>1. ASSUME NEW c \in Conns,
             PassMessage(c) \/ ConfirmMessageReceived(c),
             NEW i \in DOMAIN message'
      PROVE  NamesBoth(message'[i])
  <2>1. PICK m : m = Head(up[c]).object
    OBVIOUS
  <2>2. m \in MessageObject /\ NamesBoth(RowOf(m))
    BY <1>1, <2>1, SavedPacket, SavedNamesBoth, RowNamesBoth
  <2>3. \/ i \in DOMAIN message /\ message'[i] = message[i]
        \/ message'[i] = RowOf(m)
    BY <1>1, <2>1, SavedPacket, SaveRows
  <2> QED
    BY <2>2, <2>3 DEF AInv
<1>2. CASE UNCHANGED vars \/ ServerRestart
  BY <1>2 DEF vars, ServerRestart, AInv
<1>3. ASSUME NEW c \in Conns, User(c) \/ Client(c) \/ Failure(c)
      PROVE  message' = message
  BY <1>3
     DEF User, Connect, ConnectRemembered, TrySignIn, SendMessage, AppClosing,
         Client, ReceiveSignInResponse, LoadContactList,
         HandleReceivedMessage, UnknownPacket, LoseServer,
         Failure, ClientCrash, ReceiverStops, ConnectionReset
<1>4. ASSUME NEW c \in Conns, Server(c), ~PassMessage(c),
             ~ConfirmMessageReceived(c)
      PROVE  message' = message
  BY <1>4
     DEF Server, SignInClient, SendContactList, Forward, SelectUnreaded,
         SendUnreaded, CloseConnectionWithClient
<1> QED
  BY <1>1, <1>2, <1>3, <1>4 DEF Next, AInv

LEMMA HeldNamesBoth ==
    ASSUME IInv, AInv, [Next]_vars, NEW c \in Conns,
           NEW m \in forwarding'[c] \cup unreaded'[c]
    PROVE  NamesBoth(m)
<1>1. CASE m \in forwarding[c] \cup unreaded[c]
  BY <1>1 DEF AInv, ObjectsNameBoth
<1>2. CASE PassMessage(c) /\ m = Head(up[c]).object
  BY <1>2, SavedNamesBoth
<1>3. CASE m \in UnreadMessagesFor(message, clientId[c])
  <2>1. message \in Seq(Row)
    BY DEF IInv, TypeOK
  <2>2. PICK i \in DOMAIN message : m = Load(message, i)
    BY <1>3 DEF UnreadMessagesFor
  <2> QED
    BY <2>1, <2>2, LoadNamesBoth DEF AInv
<1> QED
  BY <1>1, <1>2, <1>3, HeldFrom

LEMMA DownNamesBoth ==
    ASSUME IInv, AInv, [Next]_vars, NEW c \in Conns, NEW i \in DOMAIN down'[c],
           down'[c][i].command = "MESSAGE"
    PROVE  NamesBoth(down'[c][i].object)
<1>1. down[c] \in Seq(DownPacket)
  BY DEF IInv, TypeOK
<1>2. CASE \E j \in DOMAIN down[c] : down'[c][i] = down[c][j]
  BY <1>2 DEF AInv, ObjectsNameBoth
<1>3. ASSUME NEW p, down'[c] = Append(down[c], p)
      PROVE  \/ \E j \in DOMAIN down[c] : down'[c][i] = down[c][j]
             \/ down'[c][i] = p
  BY <1>1, <1>3
<1>4. ASSUME NEW d \in Conns, NEW m \in forwarding[d] \cup unreaded[d],
             down'[c][i] = Packet("MESSAGE", m)
      PROVE  NamesBoth(down'[c][i].object)
  <2>1. NamesBoth(m)
    BY DEF AInv, ObjectsNameBoth
  <2> QED
    BY <1>4, <2>1 DEF Packet
<1>5. CASE down[c] # <<>> /\ down'[c] = Tail(down[c])
  <2>1. i + 1 \in DOMAIN down[c] /\ down'[c][i] = down[c][i + 1]
    BY <1>1, <1>5
  <2> QED
    BY <1>2, <2>1
<1>6. CASE down'[c] = down[c] \/ down'[c] = <<>>
  BY <1>2, <1>6
<1> QED
  BY <1>2, <1>3, <1>4, <1>5, <1>6, DownPackets

LEMMA UpNamesBoth ==
    ASSUME IInv, AInv, [Next]_vars, NEW c \in Conns, NEW i \in DOMAIN up'[c],
           up'[c][i].command \in MessageCommands
    PROVE  NamesBoth(up'[c][i].object)
<1>1. TypeOK /\ up[c] \in Seq(UpPacket) /\ down[c] \in Seq(DownPacket)
  BY DEF IInv, TypeOK
<1>2. CASE \E j \in DOMAIN up[c] : up'[c][i] = up[c][j]
  BY <1>2 DEF AInv, ObjectsNameBoth, MessageCommands
<1>3. ASSUME NEW p, up'[c] = Append(up[c], p)
      PROVE  \/ \E j \in DOMAIN up[c] : up'[c][i] = up[c][j]
             \/ up'[c][i] = p
  BY <1>1, <1>3
<1>4. CASE up[c] # <<>> /\ up'[c] = Tail(up[c])
  <2>1. i + 1 \in DOMAIN up[c] /\ up'[c][i] = up[c][i + 1]
    BY <1>1, <1>4
  <2> QED
    BY <1>2, <2>1
<1>5. CASE up'[c] = up[c] \/ up'[c] = <<>>
  BY <1>2, <1>5
<1>6. ASSUME NEW cmd, NEW m, NamesBoth(m),
             \/ up'[c] = up[c]
             \/ up'[c] = Append(up[c], Packet(cmd, m))
      PROVE  NamesBoth(up'[c][i].object)
  <2>1. Packet(cmd, m).object = m
    BY DEF Packet
  <2> QED
    BY <1>2, <1>3, <1>5, <1>6, <2>1
<1>7. CASE SendMessage(c)
  <2>1. PICK l \in Letters : ToServer(c, Packet("MESSAGE", NewMessage(l)))
    BY <1>7 DEF SendMessage
  <2>2. \/ up'[c] = up[c]
        \/ up'[c] = Append(up[c], Packet("MESSAGE", NewMessage(l)))
    BY <1>1, <2>1 DEF ToServer, TypeOK
  <2> QED
    BY <1>6, <2>2, NewNamesBoth
<1>8. CASE HandleReceivedMessage(c)
  <2>1. PICK m, n : /\ m = Head(down[c]).object
                    /\ n = [m EXCEPT !.read = TRUE]
    OBVIOUS
  <2>2. /\ ToServer(c, Packet("MESSAGE_RECEIVED_CONFIRMATION", n))
        /\ Receives(c, "MESSAGE")
    BY <1>8, <2>1 DEF HandleReceivedMessage
  <2>3. 1 \in DOMAIN down[c] /\ Head(down[c]) = down[c][1]
    BY <1>1, <2>2 DEF Receives
  <2>4. m \in MessageObject
    BY <1>1, <2>1, <2>2, ReceivesType, ObjectTypes
  <2>5. NamesBoth(m)
    BY <2>1, <2>2, <2>3 DEF Receives, AInv, ObjectsNameBoth
  <2>6. NamesBoth(n)
    BY <2>1, <2>4, <2>5 DEF NamesBoth, MessageObject
  <2>7. \/ up'[c] = up[c]
        \/ up'[c] =
             Append(up[c], Packet("MESSAGE_RECEIVED_CONFIRMATION", n))
    BY <1>1, <2>2 DEF ToServer, TypeOK
  <2> QED
    BY <1>6, <2>6, <2>7
<1> QED
  BY <1>2, <1>3, <1>4, <1>5, <1>7, <1>8, UpPackets DEF MessageCommands

---------------------------------------------------------------------------
(* The theorem. *)

LEMMA InitAInv == Init => AInv
  BY DEF Init, AInv, ObjectsNameBoth

LEMMA AInvStep == IInv /\ AInv /\ [Next]_vars => AInv'
<1> SUFFICES ASSUME IInv, AInv, [Next]_vars
             PROVE  AInv'
  OBVIOUS
<1>1. ASSUME NEW c \in Conns
      PROVE  ObjectsNameBoth(c)'
  BY HeldNamesBoth, DownNamesBoth, UpNamesBoth
     DEF ObjectsNameBoth, NamesBoth, MessageCommands
<1> QED
  BY <1>1, RowsStep DEF AInv, NamesBoth

\* The rows of two people are those whose letter is between them.
LEMMA ArchiveOfRows ==
    ASSUME TypeOK, AInv
    PROVE  ArchiveIsConversation
<1> SUFFICES ASSUME NEW u \in Users, NEW v \in Users
             PROVE  {m.text : m \in ArchiveMessagesFor(message, u, v)} =
                    {l \in StoredLetters(message) : {l.from, l.to} = {u, v}}
  BY DEF ArchiveIsConversation
<1> DEFINE Named(i) ==
             \/ message[i].receiver = u /\ message[i].sender = v
             \/ message[i].sender = u /\ message[i].receiver = v
           Wrote(i) == {message[i].text.from, message[i].text.to} = {u, v}
           InArchive == {m.text : m \in ArchiveMessagesFor(message, u, v)}
           Between == {l \in StoredLetters(message) : {l.from, l.to} = {u, v}}
<1>1. \A i \in DOMAIN message : Wrote(i) <=> Named(i)
  <2>1. ASSUME NEW i \in DOMAIN message
        PROVE  Wrote(i) <=> Named(i)
    <3>1. {message[i].receiver, message[i].sender} =
             {message[i].text.from, message[i].text.to}
      BY DEF AInv, NamesBoth
    <3> QED
      BY <3>1
  <2> QED
    BY <2>1
<1>2. \A l : l \in InArchive <=>
               \E i \in DOMAIN message : l = message[i].text /\ Named(i)
  <2>1. \A i \in DOMAIN message : Load(message, i).text = message[i].text
    BY DEF Load
  <2>2. \A l : l \in InArchive <=>
                 \E m \in ArchiveMessagesFor(message, u, v) : l = m.text
    OBVIOUS
  <2> QED
    BY <2>1, <2>2 DEF ArchiveMessagesFor
<1>3. \A l : l \in Between <=>
               \E i \in DOMAIN message : l = message[i].text /\ Wrote(i)
  BY DEF StoredLetters
<1> HIDE DEF Named, Wrote, InArchive, Between
<1>4. InArchive = Between
  BY <1>1, <1>2, <1>3
<1> QED
  BY <1>4 DEF InArchive, Between

\* The archive of two people always holds every stored letter between them and
\* no other, although confirmations of loaded messages swap the columns.
THEOREM ArchiveIsComplete == Spec => []ArchiveIsConversation
<1>1. IInv /\ AInv => ArchiveIsConversation
  BY ArchiveOfRows DEF IInv
<1> QED
  BY <1>1, InitAInv, AInvStep, Inductive, PTL DEF Spec

=============================================================================
