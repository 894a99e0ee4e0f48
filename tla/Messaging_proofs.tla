-------------------------- MODULE Messaging_proofs --------------------------
(***************************************************************************)
(* Proofs about Messaging, for any accounts, letters, connections and      *)
(* number of server restarts.                                              *)
(***************************************************************************)
EXTENDS MessagingInv, SequenceTheorems, TLAPS

---------------------------------------------------------------------------
(* Facts about the message table. *)

\* What Message.save leaves in the table: every row that was there keeps its
\* place, and the only row that may differ is the one that the object names or
\* the new last one, which then holds the object.
LEMMA SaveRows ==
    ASSUME NEW t \in Seq(Row), NEW m \in MessageObject
    PROVE  /\ Save(t, m) \in Seq(Row)
           /\ DOMAIN t \subseteq DOMAIN Save(t, m)
           /\ \A i \in DOMAIN t : i # m.id => Save(t, m)[i] = t[i]
           /\ \A i \in DOMAIN t : i = m.id => Save(t, m)[i] = RowOf(m)
           /\ \A i \in DOMAIN Save(t, m) \ DOMAIN t : Save(t, m)[i] = RowOf(m)
<1>1. RowOf(m) \in Row
  BY DEF RowOf, Row, MessageObject
<1>2. m.id \in Nat
  BY DEF MessageObject
<1>3. CASE m.id > 0
  <2>1. Save(t, m) = [t EXCEPT ![m.id] = RowOf(m)]
    BY <1>3 DEF Save
  <2>2. CASE m.id \in 1 .. Len(t)
    BY <1>1, <2>1, <2>2, ExceptSeq
  <2>3. CASE m.id \notin 1 .. Len(t)
    <3>1. t = [i \in 1 .. Len(t) |-> t[i]]
      OBVIOUS
    <3>2. [t EXCEPT ![m.id] = RowOf(m)] = t
      BY <2>3, <3>1
    <3> QED
      BY <2>1, <2>3, <3>2
  <2> QED
    BY <2>2, <2>3
<1>4. CASE m.id = 0
  <2>1. Save(t, m) = Append(t, RowOf(m))
    BY <1>4 DEF Save
  <2>2. Append(t, RowOf(m)) \in Seq(Row)
    BY <1>1
  <2> QED
    BY <1>1, <1>4, <2>1, <2>2, AppendProperties
<1> QED
  BY <1>2, <1>3, <1>4

\* An object read from the table is a message object (the rows of the table
\* are typed).
LEMMA LoadType ==
    ASSUME NEW t \in Seq(Row), NEW u
    PROVE  /\ \A i \in DOMAIN t : Load(t, i) \in MessageObject
           /\ UnreadMessagesFor(t, u) \in SUBSET MessageObject
<1>1. ASSUME NEW i \in DOMAIN t
      PROVE  Load(t, i) \in MessageObject
  <2>1. t[i] \in Row /\ i \in Nat
    BY <1>1, ElementOfSeq
  <2> QED
    BY <2>1 DEF Load, MessageObject, Row
<1> QED
  BY <1>1 DEF UnreadMessagesFor

---------------------------------------------------------------------------
(* Type correctness. *)

LEMMA PacketTypes ==
    /\ \A u \in Ids :
         /\ Packet("SIGN_IN_REQUEST", u) \in UpPacket
         /\ Packet("CLOSE_CONNECTION", u) \in UpPacket
    /\ \A u \in Users :
         /\ Packet("CONTACT_LIST_REQUEST", u) \in UpPacket
         /\ Packet("RECEIVE_UNREADED_MESSAGES", u) \in UpPacket
    /\ \A m \in MessageObject :
         /\ Packet("MESSAGE", m) \in UpPacket
         /\ Packet("MESSAGE_RECEIVED_CONFIRMATION", m) \in UpPacket
         /\ Packet("MESSAGE", m) \in DownPacket
    /\ \A u \in Ids :
         /\ Packet("SIGN_IN_RESPONSE", u) \in DownPacket
         /\ Packet("CONTACT_LIST_RESPONSE", u) \in DownPacket
  BY DEF Packet, UpPacket, DownPacket

\* Every packet that a step takes from a channel, or puts into one, has the
\* channel's type.
LEMMA HeadTypes ==
    ASSUME TypeOK, NEW c \in Conns
    PROVE  /\ up[c] # <<>> =>
                /\ Head(up[c]) \in UpPacket
                /\ Tail(up[c]) \in Seq(UpPacket)
           /\ down[c] # <<>> =>
                /\ Head(down[c]) \in DownPacket
                /\ Tail(down[c]) \in Seq(DownPacket)
  BY HeadTailProperties DEF TypeOK

LEMMA ServesType ==
    ASSUME TypeOK, NEW c \in Conns, NEW cmd, Serves(c, cmd)
    PROVE  /\ up' \in [Conns -> Seq(UpPacket)]
           /\ Head(up[c]) \in UpPacket
           /\ Head(up[c]).command = cmd
  BY HeadTypes DEF TypeOK, Serves

LEMMA ReceivesType ==
    ASSUME TypeOK, NEW c \in Conns, NEW cmd, Receives(c, cmd)
    PROVE  /\ down' \in [Conns -> Seq(DownPacket)]
           /\ Head(down[c]) \in DownPacket
           /\ Head(down[c]).command = cmd
  BY HeadTypes DEF TypeOK, Receives

LEMMA ToServerType ==
    ASSUME TypeOK, NEW c \in Conns, NEW p \in UpPacket, ToServer(c, p)
    PROVE  up' \in [Conns -> Seq(UpPacket)]
  BY DEF TypeOK, ToServer

LEMMA ToClientType ==
    ASSUME TypeOK, NEW c \in Conns, NEW p \in DownPacket, ToClient(c, p)
    PROVE  down' \in [Conns -> Seq(DownPacket)]
  BY DEF TypeOK, ToClient

LEMMA ObjectTypes ==
    /\ \A p \in UpPacket :
         /\ p.command \in {"SIGN_IN_REQUEST", "CLOSE_CONNECTION"}
              => p.object \in Ids
         /\ p.command \in {"CONTACT_LIST_REQUEST", "RECEIVE_UNREADED_MESSAGES"}
              => p.object \in Users
         /\ p.command \in {"MESSAGE", "MESSAGE_RECEIVED_CONFIRMATION"}
              => p.object \in MessageObject
    /\ \A p \in DownPacket :
         /\ p.command \in {"SIGN_IN_RESPONSE", "CONTACT_LIST_RESPONSE"}
              => p.object \in Ids
         /\ p.command = "MESSAGE" => p.object \in MessageObject
  BY DEF UpPacket, DownPacket

\* A client that is past its sign-in dialog has an account.
SignedIn ==
    \A c \in Conns : phase[c] \in {"load", "run", "deaf"} => who[c] \in Users

\* Every step keeps the types.
LEMMA TypeStep ==
    ASSUME TypeOK, SignedIn, [Next]_vars
    PROVE  TypeOK'
<1> USE DEF Ids
<1>1. ASSUME NEW c \in Conns, Connect(c)
      PROVE  TypeOK'
  BY <1>1 DEF TypeOK, Connect, Phases, historyVars
<1>2. ASSUME NEW c \in Conns, TrySignIn(c)
      PROVE  TypeOK'
  <2>1. PICK u \in Ids : ToServer(c, Packet("SIGN_IN_REQUEST", u))
    BY <1>2 DEF TrySignIn
  <2>2. up' \in [Conns -> Seq(UpPacket)]
    BY <2>1, PacketTypes, ToServerType
  <2> QED
    BY <1>2, <2>2 DEF TypeOK, TrySignIn, Phases, serverVars, historyVars
<1>3. ASSUME NEW c \in Conns, SendMessage(c)
      PROVE  TypeOK'
  <2>1. PICK l \in Letters :
           /\ ToServer(c, Packet("MESSAGE", NewMessage(l)))
           /\ sent' = sent \cup {l}
    BY <1>3 DEF SendMessage
  <2>2. NewMessage(l) \in MessageObject
    BY LettersAssumption DEF NewMessage, MessageObject
  <2>3. up' \in [Conns -> Seq(UpPacket)]
    BY <2>1, <2>2, PacketTypes, ToServerType
  <2> QED
    BY <1>3, <2>1, <2>3 DEF TypeOK, SendMessage, serverVars, clientVars
<1>4. ASSUME NEW c \in Conns, AppClosing(c)
      PROVE  TypeOK'
  <2>1. up' \in [Conns -> Seq(UpPacket)]
    BY <1>4, PacketTypes, ToServerType DEF AppClosing, TypeOK
  <2>2. down' \in [Conns -> Seq(DownPacket)]
    BY <1>4, EmptySeq DEF AppClosing, TypeOK
  <2> QED
    BY <1>4, <2>1, <2>2
       DEF TypeOK, AppClosing, Phases, serverVars, historyVars
<1>5. ASSUME NEW c \in Conns, ClientCrash(c)
      PROVE  TypeOK'
  <2>1. down' \in [Conns -> Seq(DownPacket)]
    BY <1>5, EmptySeq DEF ClientCrash, TypeOK
  <2> QED
    BY <1>5, <2>1 DEF TypeOK, ClientCrash, Phases, serverVars, historyVars
<1>6. ASSUME NEW c \in Conns, ReceiveSignInResponse(c)
      PROVE  TypeOK'
  <2> DEFINE u == Head(down[c]).object
  <2>1. down' \in [Conns -> Seq(DownPacket)] /\ u \in Ids
    BY <1>6, ReceivesType, ObjectTypes DEF ReceiveSignInResponse
  <2>2. CASE u = NoUser
    BY <1>6, <2>1, <2>2, NoUserAssumption
       DEF TypeOK, ReceiveSignInResponse, Phases, serverVars, historyVars
  <2>3. CASE u # NoUser
    <3>1. up' \in [Conns -> Seq(UpPacket)]
      BY <1>6, <2>1, <2>3, PacketTypes, ToServerType
         DEF ReceiveSignInResponse
    <3> QED
      BY <1>6, <2>1, <2>3, <3>1
         DEF TypeOK, ReceiveSignInResponse, Phases, serverVars, historyVars
  <2> QED
    BY <2>2, <2>3
<1>7. ASSUME NEW c \in Conns, LoadContactList(c)
      PROVE  TypeOK'
  <2>1. down' \in [Conns -> Seq(DownPacket)]
    BY <1>7, HeadTypes DEF LoadContactList, TypeOK
  <2>2. up' \in [Conns -> Seq(UpPacket)]
    BY <1>7, PacketTypes, ToServerType DEF LoadContactList, SignedIn
  <2> QED
    BY <1>7, <2>1, <2>2
       DEF TypeOK, LoadContactList, Phases, serverVars, historyVars
<1>8. ASSUME NEW c \in Conns, HandleReceivedMessage(c)
      PROVE  TypeOK'
  <2> DEFINE m == Head(down[c]).object
             n == [m EXCEPT !.read = TRUE]
  <2>1. down' \in [Conns -> Seq(DownPacket)] /\ m \in MessageObject
    BY <1>8, ReceivesType, ObjectTypes DEF HandleReceivedMessage
  <2>2. n \in MessageObject
    BY <2>1 DEF MessageObject
  <2>3. up' \in [Conns -> Seq(UpPacket)]
    BY <1>8, <2>2, PacketTypes, ToServerType DEF HandleReceivedMessage
  <2>4. [letter |-> m.text, to |-> who[c], frame |-> m.sender] \in Shown
    BY <1>8, <2>1 DEF HandleReceivedMessage, SignedIn, MessageObject, Shown
  <2> QED
    BY <1>8, <2>1, <2>3, <2>4
       DEF TypeOK, HandleReceivedMessage, serverVars, clientVars
<1>9. ASSUME NEW c \in Conns, UnknownPacket(c)
      PROVE  TypeOK'
  <2>1. down' \in [Conns -> Seq(DownPacket)]
    BY <1>9, ReceivesType DEF UnknownPacket
  <2> QED
    BY <1>9, <2>1
       DEF TypeOK, UnknownPacket, serverVars, clientVars, historyVars
<1>10. ASSUME NEW c \in Conns, LoseServer(c)
       PROVE  TypeOK'
  BY <1>10 DEF TypeOK, LoseServer, Phases, serverVars, historyVars
<1>11. ASSUME NEW c \in Conns, SignInClient(c)
       PROVE  TypeOK'
  <2> DEFINE u == Head(up[c]).object
  <2>1. up' \in [Conns -> Seq(UpPacket)] /\ u \in Ids
    BY <1>11, ServesType, ObjectTypes DEF SignInClient
  <2>2. down' \in [Conns -> Seq(DownPacket)]
    BY <1>11, <2>1, PacketTypes, ToClientType DEF SignInClient
  <2> QED
    BY <1>11, <2>1, <2>2 DEF TypeOK, SignInClient, clientVars, historyVars
<1>12. ASSUME NEW c \in Conns, SendContactList(c)
       PROVE  TypeOK'
  <2>1. up' \in [Conns -> Seq(UpPacket)] /\ Head(up[c]).object \in Ids
    BY <1>12, ServesType, ObjectTypes DEF SendContactList
  <2>2. down' \in [Conns -> Seq(DownPacket)]
    BY <1>12, <2>1, PacketTypes, ToClientType DEF SendContactList
  <2> QED
    BY <1>12, <2>1, <2>2
       DEF TypeOK, SendContactList, serverVars, clientVars, historyVars
<1>13. ASSUME NEW c \in Conns, PassMessage(c)
       PROVE  TypeOK'
  <2> DEFINE m == Head(up[c]).object
  <2>1. up' \in [Conns -> Seq(UpPacket)] /\ m \in MessageObject
    BY <1>13, ServesType, ObjectTypes DEF PassMessage
  <2>2. message' \in Seq(Row)
    BY <1>13, <2>1, SaveRows DEF PassMessage, TypeOK
  <2> QED
    BY <1>13, <2>1, <2>2 DEF TypeOK, PassMessage, clientVars, historyVars
<1>14. ASSUME NEW c \in Conns, Forward(c)
       PROVE  TypeOK'
  <2>1. PICK m \in forwarding[c] :
           LET d == outputs[m.receiver] IN
           IF d = NoConn THEN down' = down
                         ELSE ToClient(d, Packet("MESSAGE", m))
    BY <1>14 DEF Forward
  <2>2. m \in MessageObject /\ m.receiver \in Users
    BY <2>1 DEF TypeOK, MessageObject
  <2>3. outputs[m.receiver] \in Conns \cup {NoConn}
    BY <2>2 DEF TypeOK
  <2>4. down' \in [Conns -> Seq(DownPacket)]
    <3>1. CASE outputs[m.receiver] = NoConn
      BY <2>1, <3>1 DEF TypeOK
    <3>2. CASE outputs[m.receiver] # NoConn
      BY <2>1, <2>2, <2>3, <3>2, PacketTypes, ToClientType
    <3> QED
      BY <3>1, <3>2
  <2> QED
    BY <1>14, <2>4 DEF TypeOK, Forward, clientVars, historyVars
<1>15. ASSUME NEW c \in Conns, ConfirmMessageReceived(c)
       PROVE  TypeOK'
  <2>1. /\ up' \in [Conns -> Seq(UpPacket)]
        /\ Head(up[c]).object \in MessageObject
    BY <1>15, ServesType, ObjectTypes DEF ConfirmMessageReceived
  <2>2. message' \in Seq(Row)
    BY <1>15, <2>1, SaveRows DEF ConfirmMessageReceived, TypeOK
  <2> QED
    BY <1>15, <2>1, <2>2
       DEF TypeOK, ConfirmMessageReceived, serverVars, clientVars, historyVars
<1>16. ASSUME NEW c \in Conns, SelectUnreaded(c)
       PROVE  TypeOK'
  <2>1. up' \in [Conns -> Seq(UpPacket)]
    BY <1>16, ServesType DEF SelectUnreaded
  <2>2. UnreadMessagesFor(message, clientId[c]) \in SUBSET MessageObject
    BY LoadType DEF TypeOK
  <2>3. unreaded' \in [Conns -> SUBSET MessageObject]
    BY <1>16, <2>2 DEF SelectUnreaded, TypeOK
  <2> QED
    BY <1>16, <2>1, <2>3 DEF TypeOK, SelectUnreaded, clientVars, historyVars
<1>17. ASSUME NEW c \in Conns, SendUnreaded(c)
       PROVE  TypeOK'
  <2>1. PICK m \in unreaded[c] :
           /\ ToClient(c, Packet("MESSAGE", m))
           /\ unreaded' = [unreaded EXCEPT ![c] = @ \ {m}]
    BY <1>17 DEF SendUnreaded
  <2>2. m \in MessageObject
    BY <2>1 DEF TypeOK
  <2>3. down' \in [Conns -> Seq(DownPacket)]
    BY <2>1, <2>2, PacketTypes, ToClientType
  <2> QED
    BY <1>17, <2>1, <2>3 DEF TypeOK, SendUnreaded, clientVars, historyVars
<1>18. ASSUME NEW c \in Conns, CloseConnectionWithClient(c)
       PROVE  TypeOK'
  <2>1. up' \in [Conns -> Seq(UpPacket)] /\ Head(up[c]).object \in Ids
    BY <1>18, ServesType, ObjectTypes DEF CloseConnectionWithClient
  <2> QED
    BY <1>18, <2>1
       DEF TypeOK, CloseConnectionWithClient, clientVars, historyVars
<1>19. ASSUME NEW c \in Conns, ConnectionReset(c)
       PROVE  TypeOK'
  <2>1. up' \in [Conns -> Seq(UpPacket)]
    BY <1>19, EmptySeq DEF ConnectionReset, TypeOK
  <2> QED
    BY <1>19, <2>1 DEF TypeOK, ConnectionReset, clientVars, historyVars
<1>20. ASSUME ServerRestart
       PROVE  TypeOK'
  <2>1. up' \in [Conns -> Seq(UpPacket)]
    BY <1>20, EmptySeq DEF ServerRestart
  <2>2. restarts' \in 0 .. MaxRestarts
    BY <1>20, MaxRestartsAssumption DEF ServerRestart, TypeOK
  <2> QED
    BY <1>20, <2>1, <2>2 DEF TypeOK, ServerRestart, clientVars, historyVars
<1>21. ASSUME UNCHANGED vars
       PROVE  TypeOK'
  BY <1>21 DEF TypeOK, vars, serverVars, clientVars, historyVars
<1>22. ASSUME NEW c \in Conns, ConnectRemembered(c)
       PROVE  TypeOK'
  <2>1. PICK d \in Conns : who' = [who EXCEPT ![c] = who[d]]
    BY <1>22 DEF ConnectRemembered
  <2> QED
    BY <1>22, <2>1 DEF TypeOK, ConnectRemembered, Phases, historyVars
<1>23. ASSUME NEW c \in Conns, ReceiverStops(c)
       PROVE  TypeOK'
  BY <1>23 DEF TypeOK, ReceiverStops, Phases, serverVars, historyVars
<1> QED
  BY <1>1, <1>2, <1>3, <1>4, <1>5, <1>6, <1>7, <1>8, <1>9, <1>10, <1>11,
     <1>12, <1>13, <1>14, <1>15, <1>16, <1>17, <1>18, <1>19, <1>20, <1>21,
     <1>22, <1>23
     DEF Next, User, Client, Server, Failure

---------------------------------------------------------------------------
(* What was said about a row or a display stays true.                      *)

\* No step drops a row, changes its text, makes it unread or takes a display
\* back.
Grows ==
    /\ DOMAIN message \subseteq DOMAIN message'
    /\ \A i \in DOMAIN message :
         /\ message'[i].text = message[i].text
         /\ message[i].read => message'[i].read
    /\ shown \subseteq shown'

LEMMA GrowsKeeps ==
    ASSUME Grows
    PROVE  /\ \A l : Displayed(l) => Displayed(l)'
           /\ \A m : RefersToItsRow(m) => RefersToItsRow(m)'
           /\ \A u : MailFor(u) \subseteq MailFor(u)'
           /\ GoodUp \subseteq GoodUp'
           /\ \A u : GoodDown(u) \subseteq GoodDown(u)'
           /\ Seq(GoodUp) \subseteq Seq(GoodUp')
           /\ \A u : Seq(GoodDown(u)) \subseteq Seq(GoodDown(u)')
<1>1. \A l : Displayed(l) => Displayed(l)'
  BY DEF Grows, Displayed
<1>2. \A m : RefersToItsRow(m) => RefersToItsRow(m)'
  BY DEF Grows, RefersToItsRow
<1>3. \A u : MailFor(u) \subseteq MailFor(u)'
  BY <1>2 DEF MailFor
<1>4. GoodUp \subseteq GoodUp'
  BY <1>1, <1>2 DEF GoodUp
<1>5. \A u : GoodDown(u) \subseteq GoodDown(u)'
  BY <1>3 DEF GoodDown
<1>6. Seq(GoodUp) \subseteq Seq(GoodUp')
  BY <1>4, SeqMonotonic
<1>7. \A u : Seq(GoodDown(u)) \subseteq Seq(GoodDown(u)')
  BY <1>5, SeqMonotonic
<1> QED
  BY <1>1, <1>2, <1>3, <1>4, <1>5, <1>6, <1>7

LEMMA SaveGrows ==
    ASSUME TypeOK, NEW m \in MessageObject, RefersToItsRow(m),
           m.id > 0 => m.read, message' = Save(message, m)
    PROVE  /\ DOMAIN message \subseteq DOMAIN message'
           /\ \A i \in DOMAIN message :
                /\ message'[i].text = message[i].text
                /\ message[i].read => message'[i].read
<1>1. message \in Seq(Row)
  BY DEF TypeOK
<1>2. \A i \in DOMAIN message :
         i = m.id => message[i].text = RowOf(m).text /\ RowOf(m).read
  <2>1. ASSUME NEW i \in DOMAIN message, i = m.id
        PROVE  m.id > 0
    BY <1>1, <2>1
  <2> QED
    BY <2>1 DEF RefersToItsRow, RowOf
<1> QED
  BY <1>1, <1>2, SaveRows

\* The thread of a connection that has anything else to serve than a sign-in
\* request works for an authenticated client, or for nobody.
LEMMA ServesGood ==
    ASSUME TypeOK, NEW c \in Conns, ConnInv(c), NEW cmd,
           cmd # "SIGN_IN_REQUEST", Serves(c, cmd)
    PROVE  /\ up[c] \in Seq(GoodUp)
           /\ Head(up[c]) \in GoodUp
           /\ Head(up[c]).command = cmd
           /\ up'[c] \in Seq(GoodUp)
           /\ \A d \in Conns : d # c => up'[d] = up[d]
           /\ up[c] # <<>>
           /\ ~AsksToSignIn(c)
<1>1. ~AsksToSignIn(c)
  <2> SUFFICES ASSUME NEW u \in Ids,
                      up[c] = <<Packet("SIGN_IN_REQUEST", u)>>
               PROVE  FALSE
    BY DEF AsksToSignIn
  <2>1. Head(up[c]) = Packet("SIGN_IN_REQUEST", u)
    OBVIOUS
  <2> QED
    BY <2>1 DEF Serves, Packet
<1>2. up[c] \in Seq(GoodUp) /\ up[c] # <<>>
  BY <1>1 DEF ConnInv, UpInv, Serves
<1>3. Head(up[c]) \in GoodUp /\ Tail(up[c]) \in Seq(GoodUp)
  BY <1>2, HeadTailProperties
<1> QED
  BY <1>1, <1>2, <1>3 DEF Serves, TypeOK

LEMMA ReceivesGood ==
    ASSUME TypeOK, NEW c \in Conns, ConnInv(c), down[c] # <<>>,
           down' = [down EXCEPT ![c] = Tail(@)]
    PROVE  /\ Head(down[c]) \in GoodDown(clientId[c])
           /\ down'[c] \in Seq(GoodDown(clientId[c]))
           /\ \A d \in Conns : d # c => down'[d] = down[d]
           /\ ~AsksToSignIn(c)
           /\ phase[c] = "signIn" => up[c] = <<>>
<1>1. down[c] \in Seq(GoodDown(clientId[c]))
  BY DEF ConnInv, DownInv
<1> QED
  BY <1>1, HeadTailProperties DEF TypeOK, ConnInv, AsksToSignIn, PhaseInv

LEMMA ToServerGood ==
    ASSUME TypeOK, NEW c \in Conns, up[c] \in Seq(GoodUp),
           NEW p \in GoodUp, ToServer(c, p)
    PROVE  /\ up'[c] \in Seq(GoodUp)
           /\ \A d \in Conns : d # c => up'[d] = up[d]
<1>1. Append(up[c], p) \in Seq(GoodUp)
  BY AppendProperties
<1> QED
  BY <1>1 DEF ToServer, TypeOK

LEMMA ToClientGood ==
    ASSUME TypeOK, NEW c \in Conns, NEW u, down[c] \in Seq(GoodDown(u)),
           NEW p \in GoodDown(u), ToClient(c, p)
    PROVE  /\ down'[c] \in Seq(GoodDown(u))
           /\ \A d \in Conns : d # c => down'[d] = down[d]
           /\ down'[c] = down[c] \/ Len(down'[c]) = Len(down[c]) + 1
<1>1. Append(down[c], p) \in Seq(GoodDown(u))
  BY AppendProperties
<1>2. Len(Append(down[c], p)) = Len(down[c]) + 1
  BY AppendProperties
<1> QED
  BY <1>1, <1>2 DEF ToClient, TypeOK

\* A step that leaves the state of a connection alone keeps what the
\* invariant says of it.
LEMMA ConnFrame ==
    ASSUME Grows, NEW c \in Conns, ConnInv(c),
           up'[c] = up[c], down'[c] = down[c], clientId'[c] = clientId[c],
           forwarding'[c] = forwarding[c], unreaded'[c] = unreaded[c],
           phase'[c] = phase[c], who'[c] = who[c]
    PROVE  ConnInv(c)'
<1>1. UpInv(c)'
  BY GrowsKeeps DEF ConnInv, UpInv, AsksToSignIn
<1>2. DownInv(c)'
  BY GrowsKeeps DEF ConnInv, DownInv
<1>3. ForwardInv(c)'
  BY DEF ConnInv, ForwardInv
<1>4. UnreadInv(c)'
  BY GrowsKeeps DEF ConnInv, UnreadInv
<1>5. PhaseInv(c)'
  BY GrowsKeeps DEF ConnInv, PhaseInv, AsksToSignIn
<1> QED
  BY <1>1, <1>2, <1>3, <1>4, <1>5 DEF ConnInv

LEMMA RowsFrame ==
    ASSUME UnreadIsAddressed, ReadMeansDisplayed,
           message' = message, shown \subseteq shown'
    PROVE  UnreadIsAddressed' /\ ReadMeansDisplayed'
  BY DEF UnreadIsAddressed, ReadMeansDisplayed, Displayed

---------------------------------------------------------------------------
(* The inductive invariant. *)

LEMMA IInvSignedIn == IInv => SignedIn
  BY DEF IInv, ConnInv, PhaseInv, SignedIn

LEMMA IInvInit == Init => IInv
<1> SUFFICES ASSUME Init
             PROVE  IInv
  OBVIOUS
<1>1. TypeOK
  BY EmptySeq, MaxRestartsAssumption DEF Init, TypeOK, Ids, Phases
<1>2. ASSUME NEW c \in Conns
      PROVE  ConnInv(c)
  BY EmptySeq
     DEF Init, ConnInv, UpInv, DownInv, ForwardInv, UnreadInv, PhaseInv
<1>3. DOMAIN message = {}
  BY DEF Init
<1> QED
  BY <1>1, <1>2, <1>3
     DEF Init, IInv, UnreadIsAddressed, ReadMeansDisplayed,
         DisplayedToAddressee, RegisteredIsAuthenticated, Ids

\* The steps of the users and of failing client programs.
LEMMA UserStep ==
    ASSUME IInv, TypeOK', NEW c \in Conns,
           User(c) \/ ClientCrash(c) \/ ReceiverStops(c)
    PROVE  IInv' /\ Grows
<1>1. Grows
  BY DEF User, Connect, ConnectRemembered, TrySignIn, SendMessage,
         AppClosing, ClientCrash, ReceiverStops, Grows, historyVars
<1>2. /\ UnreadIsAddressed' /\ ReadMeansDisplayed'
      /\ DisplayedToAddressee' /\ RegisteredIsAuthenticated'
  BY RowsFrame
     DEF IInv, User, Connect, ConnectRemembered, TrySignIn, SendMessage,
         AppClosing, ClientCrash, ReceiverStops, historyVars, serverVars,
         DisplayedToAddressee, RegisteredIsAuthenticated
<1>3. /\ TypeOK /\ ConnInv(c) /\ c \in Conns
      /\ \A d \in Conns : ConnInv(d)
  BY DEF IInv
<1>4. ASSUME Connect(c)
      PROVE  ConnInv(c)'
  <2>1. up'[c] = <<>> /\ down'[c] = <<>> /\ clientId'[c] = NoUser
    BY <1>3, <1>4 DEF Connect, ConnInv, PhaseInv
  <2>2. phase'[c] = "dialog"
    BY <1>3, <1>4 DEF Connect, TypeOK
  <2> QED
    BY <1>1, <1>3, <1>4, <2>1, <2>2, GrowsKeeps, EmptySeq
       DEF Connect, ConnInv, UpInv, DownInv, ForwardInv, UnreadInv, PhaseInv
<1>5. ASSUME TrySignIn(c)
      PROVE  ConnInv(c)'
  <2>1. PICK u \in Ids : ToServer(c, Packet("SIGN_IN_REQUEST", u))
    BY <1>5 DEF TrySignIn
  <2>2. /\ clientId[c] = NoUser /\ up[c] = <<>> /\ down[c] = <<>>
        /\ clientId'[c] = NoUser /\ down'[c] = <<>>
        /\ phase'[c] = "signIn"
    BY <1>3, <1>5 DEF TrySignIn, ConnInv, PhaseInv, TypeOK, serverVars
  <2>3. up'[c] = <<>> \/ up'[c] = <<Packet("SIGN_IN_REQUEST", u)>>
    BY <1>3, <2>1, <2>2 DEF ToServer, TypeOK
  <2>4. up'[c] = <<>> \/ AsksToSignIn(c)'
    BY <2>2, <2>3 DEF AsksToSignIn
  <2> QED
    BY <1>1, <1>3, <1>5, <2>2, <2>4, GrowsKeeps, EmptySeq
       DEF TrySignIn, ConnInv, UpInv, DownInv, ForwardInv, UnreadInv,
           PhaseInv, serverVars
<1>6. ASSUME SendMessage(c)
      PROVE  ConnInv(c)'
  <2>1. PICK l \in Letters : ToServer(c, Packet("MESSAGE", NewMessage(l)))
    BY <1>6 DEF SendMessage
  <2>2. Packet("MESSAGE", NewMessage(l)) \in GoodUp
    <3>1. NewMessage(l) \in MessageObject
      BY LettersAssumption DEF NewMessage, MessageObject
    <3> QED
      BY <3>1, PacketTypes DEF GoodUp, Packet, NewMessage
  <2>3. up'[c] \in Seq(GoodUp)
    BY <1>3, <1>6, <2>1, <2>2, ToServerGood
       DEF SendMessage, ConnInv, PhaseInv
  <2> QED
    BY <1>1, <1>3, <1>6, <2>3, GrowsKeeps
       DEF SendMessage, ConnInv, UpInv, DownInv, ForwardInv, UnreadInv,
           PhaseInv, serverVars, clientVars
<1>7. ASSUME AppClosing(c)
      PROVE  ConnInv(c)'
  <2>1. Packet("CLOSE_CONNECTION", who[c]) \in GoodUp
    BY <1>3, <1>7, PacketTypes DEF TypeOK, GoodUp, Packet
  <2>2. up[c] \in Seq(GoodUp)
    BY <1>3, <1>7, EmptySeq DEF AppClosing, ConnInv, PhaseInv
  <2>3. up'[c] \in Seq(GoodUp)
    BY <1>3, <1>7, <2>1, <2>2, ToServerGood DEF AppClosing
  <2>4. phase'[c] = "gone" /\ down'[c] = <<>>
    BY <1>3, <1>7 DEF AppClosing, TypeOK
  <2> QED
    BY <1>1, <1>3, <1>7, <2>3, <2>4, GrowsKeeps, EmptySeq
       DEF AppClosing, ConnInv, UpInv, DownInv, ForwardInv, UnreadInv,
           PhaseInv, serverVars
<1>8. ASSUME ClientCrash(c)
      PROVE  ConnInv(c)'
  <2>1. phase'[c] = "gone" /\ down'[c] = <<>>
    BY <1>3, <1>8 DEF ClientCrash, TypeOK
  <2>2. UpInv(c)'
    BY <1>1, <1>3, <1>8, <2>1, GrowsKeeps
       DEF ClientCrash, ConnInv, UpInv, AsksToSignIn, serverVars
  <2> QED
    BY <1>1, <1>3, <1>8, <2>1, <2>2, GrowsKeeps, EmptySeq
       DEF ClientCrash, ConnInv, DownInv, ForwardInv, UnreadInv,
           PhaseInv, serverVars
<1>9. ASSUME NEW d \in Conns, d # c
      PROVE  ConnInv(d)'
  <2>1. \A p : ToServer(c, p) => up'[d] = up[d]
    BY <1>3, <1>9 DEF ToServer, TypeOK
  <2>2. up'[d] = up[d]
    BY <2>1 DEF User, Connect, ConnectRemembered, TrySignIn, SendMessage,
       AppClosing, ClientCrash, ReceiverStops
  <2>3. /\ clientId' = clientId /\ forwarding' = forwarding
        /\ unreaded' = unreaded
    BY DEF User, Connect, ConnectRemembered, TrySignIn, SendMessage,
           AppClosing, ClientCrash, ReceiverStops, serverVars, clientVars
  <2>4. down'[d] = down[d] /\ phase'[d] = phase[d] /\ who'[d] = who[d]
    BY <1>3, <1>9
       DEF User, Connect, ConnectRemembered, TrySignIn, SendMessage,
           AppClosing, ClientCrash, ReceiverStops, TypeOK, clientVars
  <2> QED
    BY <1>1, <1>3, <2>2, <2>3, <2>4, ConnFrame
<1>10. ASSUME ConnectRemembered(c)
       PROVE  ConnInv(c)'
  <2>1. up'[c] = <<>> /\ down'[c] = <<>> /\ clientId'[c] = NoUser
    BY <1>3, <1>10 DEF ConnectRemembered, ConnInv, PhaseInv
  <2>2. phase'[c] = "idle"
    BY <1>3, <1>10 DEF ConnectRemembered, TypeOK
  <2> QED
    BY <1>1, <1>3, <1>10, <2>1, <2>2, GrowsKeeps, EmptySeq
       DEF ConnectRemembered, ConnInv, UpInv, DownInv, ForwardInv, UnreadInv,
           PhaseInv
<1>11. ASSUME ReceiverStops(c)
       PROVE  ConnInv(c)'
  <2>1. /\ phase[c] = "run" /\ phase'[c] = "deaf"
        /\ up'[c] = up[c] /\ down'[c] = down[c] /\ who'[c] = who[c]
        /\ clientId'[c] = clientId[c] /\ up[c] \in Seq(GoodUp)
    BY <1>3, <1>11
       DEF ReceiverStops, TypeOK, serverVars, ConnInv, PhaseInv
  <2> QED
    BY <1>1, <1>3, <1>11, <2>1, GrowsKeeps
       DEF ReceiverStops, ConnInv, UpInv, DownInv, ForwardInv, UnreadInv,
           PhaseInv, serverVars
<1> QED
  BY <1>1, <1>2, <1>4, <1>5, <1>6, <1>7, <1>8, <1>9, <1>10, <1>11
     DEF IInv, User

\* The steps by which a client program handles what it receives.
LEMMA ClientStep ==
    ASSUME IInv, TypeOK', NEW c \in Conns, Client(c)
    PROVE  IInv' /\ Grows
<1>1. Grows
  BY DEF Client, ReceiveSignInResponse, LoadContactList,
         HandleReceivedMessage, UnknownPacket, LoseServer, Grows, historyVars
<1>2. UnreadIsAddressed' /\ ReadMeansDisplayed'
  BY <1>1, RowsFrame
     DEF IInv, Client, ReceiveSignInResponse, LoadContactList,
         HandleReceivedMessage, UnknownPacket, LoseServer, Grows
<1>3. RegisteredIsAuthenticated'
  BY DEF IInv, Client, ReceiveSignInResponse, LoadContactList,
         HandleReceivedMessage, UnknownPacket, LoseServer, serverVars,
         RegisteredIsAuthenticated
<1>4. /\ TypeOK /\ ConnInv(c) /\ c \in Conns
      /\ \A d \in Conns : ConnInv(d)
  BY DEF IInv
<1>5. ASSUME ReceiveSignInResponse(c)
      PROVE  ConnInv(c)' /\ DisplayedToAddressee'
  <2> DEFINE u == Head(down[c]).object
  <2>1. DisplayedToAddressee'
    BY <1>5 DEF IInv, ReceiveSignInResponse, historyVars,
       DisplayedToAddressee
  <2>2. /\ Head(down[c]) \in GoodDown(clientId[c])
        /\ down'[c] \in Seq(GoodDown(clientId[c]))
        /\ up[c] = <<>>
        /\ Head(down[c]).command = "SIGN_IN_RESPONSE"
    BY <1>4, <1>5, ReceivesGood DEF ReceiveSignInResponse, Receives
  <2>3. u = clientId[c] /\ u \in Ids
    BY <1>4, <2>2 DEF GoodDown, TypeOK
  <2>4. clientId' = clientId /\ forwarding' = forwarding
        /\ unreaded' = unreaded
    BY <1>5 DEF ReceiveSignInResponse, serverVars
  <2>5. CASE u = NoUser
    <3>1. /\ up'[c] = <<>> /\ phase'[c] = "dialog" /\ clientId[c] = NoUser
      BY <1>4, <1>5, <2>2, <2>3, <2>5 DEF ReceiveSignInResponse, TypeOK
    <3>2. down'[c] = <<>>
      <4>1. /\ Len(down[c]) <= 1 /\ down[c] # <<>>
            /\ down[c] \in Seq(DownPacket) /\ down'[c] = Tail(down[c])
        BY <1>4, <1>5, <2>3, <2>5
           DEF ReceiveSignInResponse, Receives, ConnInv, PhaseInv, TypeOK
      <4> QED
        BY <4>1
    <3> QED
      BY <1>1, <1>4, <2>1, <2>2, <2>4, <3>1, <3>2, GrowsKeeps, EmptySeq
         DEF ConnInv, UpInv, DownInv, ForwardInv, UnreadInv, PhaseInv
  <2>6. CASE u # NoUser
    <3>1. Packet("CONTACT_LIST_REQUEST", u) \in GoodUp
      BY <2>3, <2>6, PacketTypes DEF GoodUp, Packet, Ids
    <3>2. up[c] \in Seq(GoodUp)
      BY <2>2, EmptySeq
    <3>3. up'[c] \in Seq(GoodUp)
      BY <1>4, <1>5, <2>6, <3>1, <3>2, ToServerGood DEF ReceiveSignInResponse
    <3>4. /\ phase'[c] = "load" /\ who'[c] = u /\ u \in Users
      BY <1>4, <1>5, <2>3, <2>6 DEF ReceiveSignInResponse, TypeOK, Ids
    <3> QED
      BY <1>1, <1>4, <2>1, <2>2, <2>3, <2>4, <3>3, <3>4, GrowsKeeps
         DEF ConnInv, UpInv, DownInv, ForwardInv, UnreadInv, PhaseInv
  <2> QED
    BY <2>5, <2>6
<1>6. ASSUME LoadContactList(c)
      PROVE  ConnInv(c)' /\ DisplayedToAddressee'
  <2>1. DisplayedToAddressee'
    BY <1>6 DEF IInv, LoadContactList, historyVars, DisplayedToAddressee
  <2>2. down'[c] \in Seq(GoodDown(clientId[c]))
    BY <1>4, <1>6, ReceivesGood DEF LoadContactList
  <2>3. Packet("RECEIVE_UNREADED_MESSAGES", who[c]) \in GoodUp
    BY <1>4, <1>6, PacketTypes
       DEF LoadContactList, ConnInv, PhaseInv, GoodUp, Packet
  <2>4. up'[c] \in Seq(GoodUp)
    BY <1>4, <1>6, <2>3, ToServerGood DEF LoadContactList, ConnInv, PhaseInv
  <2>5. phase'[c] = "run"
    BY <1>4, <1>6 DEF LoadContactList, TypeOK
  <2> QED
    BY <1>1, <1>4, <1>6, <2>1, <2>2, <2>4, <2>5, GrowsKeeps
       DEF LoadContactList, ConnInv, UpInv, DownInv, ForwardInv, UnreadInv,
           PhaseInv, serverVars
<1>7. ASSUME HandleReceivedMessage(c)
      PROVE  ConnInv(c)' /\ DisplayedToAddressee'
  <2> PICK m : m = Head(down[c]).object
    OBVIOUS
  <2> PICK n : n = [m EXCEPT !.read = TRUE]
    OBVIOUS
  <2> PICK p : p = Packet("MESSAGE_RECEIVED_CONFIRMATION", n)
    OBVIOUS
  <2> PICK s : s = [letter |-> m.text, to |-> who[c], frame |-> m.sender]
    OBVIOUS
  <2>1. /\ Head(down[c]) \in GoodDown(clientId[c])
        /\ down'[c] \in Seq(GoodDown(clientId[c]))
        /\ Head(down[c]).command = "MESSAGE"
    BY <1>4, <1>7, ReceivesGood DEF HandleReceivedMessage, Receives
  <2>2. m \in MailFor(clientId[c])
    BY <2>1 DEF GoodDown
  <2>3. /\ m \in MessageObject /\ m.text.to = who[c] /\ RefersToItsRow(m)
        /\ up[c] \in Seq(GoodUp) /\ who[c] = clientId[c] /\ who[c] \in Users
    BY <1>4, <1>7, <2>2
       DEF MailFor, HandleReceivedMessage, ConnInv, PhaseInv
  <2>4. shown' = shown \cup {s}
    BY <1>7 DEF HandleReceivedMessage
  <2>5. DisplayedToAddressee'
    BY <2>3, <2>4 DEF IInv, DisplayedToAddressee
  <2>6. n \in MessageObject /\ n.read /\ n.id = m.id /\ n.text = m.text
    BY <2>3 DEF MessageObject
  <2>7. Displayed(n.text)'
    BY <2>3, <2>4, <2>6 DEF Displayed
  <2>8. RefersToItsRow(n)'
    BY <1>1, <2>3, <2>6, GrowsKeeps DEF RefersToItsRow
  <2>9. p \in GoodUp'
    BY <2>6, <2>7, <2>8, PacketTypes DEF GoodUp, Packet
  <2>10. up'[c] \in Seq(GoodUp')
    <3>1. up[c] \in Seq(GoodUp')
      BY <1>1, <2>3, GrowsKeeps
    <3>2. up'[c] = up[c] \/ up'[c] = Append(up[c], p)
      BY <1>4, <1>7 DEF HandleReceivedMessage, ToServer, TypeOK
    <3> QED
      BY <2>9, <3>1, <3>2, AppendProperties
  <2> QED
    BY <1>1, <1>4, <1>7, <2>1, <2>5, <2>10, GrowsKeeps
       DEF HandleReceivedMessage, ConnInv, UpInv, DownInv, ForwardInv,
           UnreadInv, PhaseInv, serverVars, clientVars
<1>8. ASSUME UnknownPacket(c)
      PROVE  ConnInv(c)' /\ DisplayedToAddressee'
  <2>1. DisplayedToAddressee'
    BY <1>8 DEF IInv, UnknownPacket, historyVars, DisplayedToAddressee
  <2>2. down'[c] \in Seq(GoodDown(clientId[c]))
    BY <1>4, <1>8, ReceivesGood DEF UnknownPacket, Receives
  <2> QED
    BY <1>1, <1>4, <1>8, <2>1, <2>2, GrowsKeeps
       DEF UnknownPacket, ConnInv, UpInv, DownInv, ForwardInv, UnreadInv,
           PhaseInv, serverVars, clientVars
<1>9. ASSUME LoseServer(c)
      PROVE  ConnInv(c)' /\ DisplayedToAddressee'
  <2>1. DisplayedToAddressee'
    BY <1>9 DEF IInv, LoseServer, historyVars, DisplayedToAddressee
  <2>2. phase'[c] = "gone"
    BY <1>4, <1>9 DEF LoseServer, TypeOK
  <2>3. UpInv(c)'
    BY <1>1, <1>4, <1>9, GrowsKeeps
       DEF LoseServer, ConnInv, UpInv, AsksToSignIn, serverVars
  <2> QED
    BY <1>1, <1>4, <1>9, <2>1, <2>2, <2>3, GrowsKeeps
       DEF LoseServer, ConnInv, DownInv, ForwardInv, UnreadInv,
           PhaseInv, serverVars
<1>10. ASSUME NEW d \in Conns, d # c
       PROVE  ConnInv(d)'
  <2>1. \A p : ToServer(c, p) => up'[d] = up[d]
    BY <1>4, <1>10 DEF ToServer, TypeOK
  <2>2. up'[d] = up[d]
    BY <2>1 DEF Client, ReceiveSignInResponse, LoadContactList,
       HandleReceivedMessage, UnknownPacket, LoseServer
  <2>3. /\ clientId' = clientId /\ forwarding' = forwarding
        /\ unreaded' = unreaded
    BY DEF Client, ReceiveSignInResponse, LoadContactList,
           HandleReceivedMessage, UnknownPacket, LoseServer, serverVars
  <2>4. down'[d] = down[d] /\ phase'[d] = phase[d] /\ who'[d] = who[d]
    BY <1>4, <1>10
       DEF Client, ReceiveSignInResponse, LoadContactList, Receives,
           HandleReceivedMessage, UnknownPacket, LoseServer, TypeOK,
           clientVars
  <2> QED
    BY <1>1, <1>4, <2>2, <2>3, <2>4, ConnFrame
<1> QED
  BY <1>1, <1>2, <1>3, <1>5, <1>6, <1>7, <1>8, <1>9, <1>10 DEF IInv, Client

\* A thread whose connection is the registered one of an account may write
\* mail for that account to it.
LEMMA WriteKeeps ==
    ASSUME IInv, NEW d \in Conns, clientId[d] \in Users,
           NEW m \in MailFor(clientId[d]),
           ToClient(d, Packet("MESSAGE", m))
    PROVE  /\ down'[d] \in Seq(GoodDown(clientId[d]))
           /\ \A e \in Conns : e # d => down'[e] = down[e]
           /\ ~AsksToSignIn(d)
           /\ phase[d] \notin {"off", "dialog", "idle"}
<1>1. TypeOK /\ ConnInv(d)
  BY DEF IInv
<1>2. Packet("MESSAGE", m) \in GoodDown(clientId[d])
  <2>1. m \in MessageObject
    BY DEF MailFor
  <2> QED
    BY <2>1, PacketTypes DEF GoodDown, Packet
<1>3. down[d] \in Seq(GoodDown(clientId[d]))
  BY <1>1 DEF ConnInv, DownInv
<1> QED
  BY <1>1, <1>2, <1>3, ToClientGood, NoUserAssumption
     DEF AsksToSignIn, ConnInv, PhaseInv

\* The steps of a server thread that only write to its client.
LEMMA AnswerStep ==
    ASSUME IInv, TypeOK', NEW c \in Conns,
           \/ SignInClient(c) \/ SendContactList(c) \/ SendUnreaded(c)
           \/ Forward(c)
    PROVE  IInv' /\ Grows
<1>1. Grows
  BY DEF SignInClient, SendContactList, SendUnreaded, Forward, Grows,
         historyVars
<1>2. UnreadIsAddressed' /\ ReadMeansDisplayed' /\ DisplayedToAddressee'
  BY <1>1, RowsFrame
     DEF IInv, SignInClient, SendContactList, SendUnreaded, Forward, Grows,
         historyVars, DisplayedToAddressee
<1>3. TypeOK /\ RegisteredIsAuthenticated /\ \A d \in Conns : ConnInv(d)
  BY DEF IInv
<1>4. ASSUME SignInClient(c)
      PROVE  /\ \A d \in Conns : ConnInv(d)'
             /\ RegisteredIsAuthenticated'
  <2> PICK u : u = Head(up[c]).object
    OBVIOUS
  <2>1. Head(up[c]) \in UpPacket /\ u \in Ids
    BY <1>3, <1>4, ServesType, ObjectTypes DEF SignInClient
  <2>2. AsksToSignIn(c)
    <3>1. Head(up[c]).command = "SIGN_IN_REQUEST" /\ up[c] # <<>>
      BY <1>4 DEF SignInClient, Serves
    <3>2. up[c] \notin Seq(GoodUp)
      BY <3>1, HeadTailProperties DEF GoodUp
    <3> QED
      BY <1>3, <3>2 DEF ConnInv, UpInv
  <2>3. up'[c] = <<>>
    <3>1. PICK v \in Ids : up[c] = <<Packet("SIGN_IN_REQUEST", v)>>
      BY <2>2 DEF AsksToSignIn
    <3>2. up'[c] = Tail(up[c])
      BY <1>3, <1>4 DEF SignInClient, Serves, TypeOK
    <3> QED
      BY <3>1, <3>2
  <2>4. clientId'[c] = u /\ \A d \in Conns : d # c => clientId'[d] = clientId[d]
    BY <1>3, <1>4 DEF SignInClient, TypeOK
  <2>5. outputs' = [outputs EXCEPT ![u] = c]
    BY <1>4 DEF SignInClient
  <2>6. RegisteredIsAuthenticated'
    <3> SUFFICES ASSUME NEW v \in Users, outputs'[v] # NoConn
                 PROVE  clientId'[outputs'[v]] = v
      BY DEF RegisteredIsAuthenticated
    <3>1. CASE v = u
      BY <1>3, <2>4, <2>5, <3>1 DEF TypeOK, Ids
    <3>2. CASE v # u
      <4>1. outputs'[v] = outputs[v] /\ outputs[v] \in Conns
        BY <1>3, <2>5, <3>2 DEF TypeOK, Ids
      <4>2. clientId[outputs[v]] = v
        BY <1>3, <4>1 DEF RegisteredIsAuthenticated
      <4>3. outputs[v] # c
        BY <2>2, <4>2, NoUserAssumption DEF AsksToSignIn
      <4> QED
        BY <2>4, <4>1, <4>2, <4>3
    <3> QED
      BY <3>1, <3>2
  <2>7. ConnInv(c)'
    <3> PICK p : p = Packet("SIGN_IN_RESPONSE", u)
      OBVIOUS
    <3>1. p \in GoodDown(u)
      BY <2>1, PacketTypes DEF GoodDown, Packet
    <3>2. down[c] = <<>> /\ clientId[c] = NoUser
      BY <2>2 DEF AsksToSignIn
    <3>3. /\ down'[c] \in Seq(GoodDown(u))
          /\ Len(down'[c]) <= 1
      <4>1. down'[c] = <<>> \/ down'[c] = Append(<<>>, p)
        BY <1>3, <1>4, <3>2 DEF SignInClient, ToClient, TypeOK
      <4>2. <<>> \in Seq(GoodDown(u)) /\ Len(<<>>) = 0
        BY EmptySeq
      <4>3. /\ Append(<<>>, p) \in Seq(GoodDown(u))
            /\ Len(Append(<<>>, p)) = 1
        BY <3>1, <4>2, AppendProperties
      <4>4. CASE down'[c] = <<>>
        BY <4>2, <4>4
      <4>5. CASE down'[c] = Append(<<>>, p)
        BY <4>3, <4>5
      <4> QED
        BY <4>1, <4>4, <4>5
    <3>4. /\ forwarding' = forwarding /\ forwarding[c] = {}
          /\ unreaded' = unreaded /\ unreaded[c] = {}
          /\ phase' = phase /\ who' = who
      BY <1>4 DEF SignInClient, Serves, clientVars
    <3>5. phase[c] \notin {"off", "dialog", "idle", "load", "run", "deaf"}
      <4>1. up[c] # <<>>
        BY <1>4 DEF SignInClient, Serves
      <4> QED
        BY <1>3, <3>2, <4>1, NoUserAssumption DEF ConnInv, PhaseInv
    <3>6. PhaseInv(c)'
      <4>1. phase'[c] \notin {"off", "dialog", "idle", "load", "run", "deaf"}
        BY <3>4, <3>5
      <4> QED
        BY <2>3, <3>3, <4>1 DEF PhaseInv
    <3>7. DownInv(c)' /\ UpInv(c)'
      BY <1>1, <2>3, <2>4, <3>3, GrowsKeeps, EmptySeq DEF DownInv, UpInv
    <3> QED
      BY <3>4, <3>6, <3>7 DEF ConnInv, ForwardInv, UnreadInv
  <2>8. ASSUME NEW d \in Conns, d # c
        PROVE  ConnInv(d)'
    <3>1. up'[d] = up[d] /\ down'[d] = down[d]
      BY <1>3, <1>4, <2>8 DEF SignInClient, Serves, ToClient, TypeOK
    <3> QED
      BY <1>1, <1>3, <1>4, <2>4, <2>8, <3>1, ConnFrame
         DEF SignInClient, clientVars
  <2> QED
    BY <2>6, <2>7, <2>8
<1>5. ASSUME SendContactList(c)
      PROVE  /\ \A d \in Conns : ConnInv(d)'
             /\ RegisteredIsAuthenticated'
  <2>1. RegisteredIsAuthenticated'
    BY <1>3, <1>5 DEF SendContactList, serverVars, RegisteredIsAuthenticated
  <2> PICK p : p = Packet("CONTACT_LIST_RESPONSE", Head(up[c]).object)
    OBVIOUS
  <2>2. /\ up[c] \in Seq(GoodUp) /\ up'[c] \in Seq(GoodUp)
        /\ up[c] # <<>> /\ ~AsksToSignIn(c)
        /\ \A d \in Conns : d # c => up'[d] = up[d]
    BY <1>3, <1>5, ServesGood DEF SendContactList
  <2>3. p \in GoodDown(clientId[c])
    <3>1. Head(up[c]).object \in Ids
      BY <1>3, <1>5, ServesType, ObjectTypes DEF SendContactList, Ids
    <3> QED
      BY <3>1, PacketTypes DEF GoodDown, Packet
  <2>4. /\ down'[c] \in Seq(GoodDown(clientId[c]))
        /\ \A d \in Conns : d # c => down'[d] = down[d]
    BY <1>3, <1>5, <2>3, ToClientGood DEF SendContactList, ConnInv, DownInv
  <2>5. phase[c] \notin {"off", "dialog", "idle", "signIn"}
    BY <1>3, <2>2 DEF ConnInv, PhaseInv
  <2>6. ConnInv(c)'
    BY <1>1, <1>3, <1>5, <2>2, <2>4, <2>5, GrowsKeeps
       DEF SendContactList, ConnInv, UpInv, DownInv, ForwardInv, UnreadInv,
           PhaseInv, serverVars, clientVars
  <2>7. ASSUME NEW d \in Conns, d # c
        PROVE  ConnInv(d)'
    BY <1>1, <1>3, <1>5, <2>2, <2>4, <2>7, ConnFrame
       DEF SendContactList, serverVars, clientVars
  <2> QED
    BY <2>1, <2>6, <2>7
<1>6. ASSUME SendUnreaded(c)
      PROVE  /\ \A d \in Conns : ConnInv(d)'
             /\ RegisteredIsAuthenticated'
  <2>1. RegisteredIsAuthenticated'
    BY <1>3, <1>6 DEF SendUnreaded, RegisteredIsAuthenticated
  <2>2. PICK m \in unreaded[c] :
           /\ ToClient(c, Packet("MESSAGE", m))
           /\ unreaded' = [unreaded EXCEPT ![c] = @ \ {m}]
    BY <1>6 DEF SendUnreaded
  <2>3. m \in MailFor(clientId[c])
    BY <1>3 DEF ConnInv, UnreadInv
  <2>4. clientId[c] \in Users
    BY <2>3, LettersAssumption DEF MailFor, MessageObject
  <2>5. /\ down'[c] \in Seq(GoodDown(clientId[c]))
        /\ \A e \in Conns : e # c => down'[e] = down[e]
        /\ ~AsksToSignIn(c)
        /\ phase[c] \notin {"off", "dialog", "idle"}
    BY <2>2, <2>3, <2>4, WriteKeeps
  <2>6. /\ unreaded'[c] \subseteq unreaded[c]
        /\ \A d \in Conns : d # c => unreaded'[d] = unreaded[d]
    BY <1>3, <2>2 DEF TypeOK
  <2>7. clientId' = clientId /\ forwarding' = forwarding /\ up' = up
        /\ phase' = phase /\ who' = who
    BY <1>6 DEF SendUnreaded, clientVars
  <2>8. ConnInv(c)'
    BY <1>1, <1>3, <2>4, <2>5, <2>6, <2>7, GrowsKeeps, NoUserAssumption
       DEF ConnInv, UpInv, DownInv, ForwardInv, UnreadInv, PhaseInv
  <2>9. ASSUME NEW d \in Conns, d # c
        PROVE  ConnInv(d)'
    BY <1>1, <1>3, <2>5, <2>6, <2>7, <2>9, ConnFrame
  <2> QED
    BY <2>1, <2>8, <2>9
<1>7. ASSUME Forward(c)
      PROVE  /\ \A d \in Conns : ConnInv(d)'
             /\ RegisteredIsAuthenticated'
  <2>1. RegisteredIsAuthenticated'
    BY <1>3, <1>7 DEF Forward, RegisteredIsAuthenticated
  <2>2. PICK m \in forwarding[c] :
           LET d == outputs[m.receiver] IN
           IF d = NoConn THEN down' = down
                         ELSE ToClient(d, Packet("MESSAGE", m))
    BY <1>7 DEF Forward
  <2>3. /\ m \in MessageObject /\ m.id = 0 /\ ~m.read
        /\ m.receiver = m.text.to /\ m.receiver \in Users
    BY <1>3, <2>2 DEF TypeOK, ConnInv, ForwardInv, MessageObject
  <2>4. m \in MailFor(m.receiver)
    BY <2>3 DEF MailFor, RefersToItsRow
  <2>5. /\ clientId' = clientId /\ unreaded' = unreaded /\ up' = up
        /\ phase' = phase /\ who' = who
        /\ \A d \in Conns : forwarding'[d] \subseteq forwarding[d]
    BY <1>3, <1>7 DEF Forward, clientVars, TypeOK
  <2>6. ASSUME NEW d \in Conns, down'[d] = down[d]
        PROVE  ConnInv(d)'
    BY <1>1, <1>3, <2>5, <2>6, GrowsKeeps
       DEF ConnInv, UpInv, DownInv, ForwardInv, UnreadInv, PhaseInv,
           AsksToSignIn
  <2>7. CASE outputs[m.receiver] = NoConn
    BY <2>1, <2>2, <2>6, <2>7
  <2>8. CASE outputs[m.receiver] # NoConn
    <3> PICK d : d = outputs[m.receiver]
      OBVIOUS
    <3>1. d \in Conns /\ clientId[d] = m.receiver
      BY <1>3, <2>3, <2>8 DEF RegisteredIsAuthenticated, TypeOK, Ids
    <3>2. /\ down'[d] \in Seq(GoodDown(clientId[d]))
          /\ \A e \in Conns : e # d => down'[e] = down[e]
          /\ ~AsksToSignIn(d)
          /\ phase[d] \notin {"off", "dialog", "idle"}
      BY <2>2, <2>3, <2>4, <2>8, <3>1, WriteKeeps
    <3>3. ConnInv(d)'
      BY <1>1, <1>3, <2>3, <2>5, <3>1, <3>2, GrowsKeeps, NoUserAssumption
         DEF ConnInv, UpInv, DownInv, ForwardInv, UnreadInv, PhaseInv
    <3> QED
      BY <2>1, <2>6, <3>2, <3>3
  <2> QED
    BY <2>7, <2>8
<1> QED
  BY <1>1, <1>2, <1>4, <1>5, <1>6, <1>7 DEF IInv

\* The steps of a server thread that save a message.
LEMMA SaveStep ==
    ASSUME IInv, TypeOK', NEW c \in Conns,
           PassMessage(c) \/ ConfirmMessageReceived(c)
    PROVE  IInv' /\ Grows
<1> PICK m : m = Head(up[c]).object
  OBVIOUS
<1>1. /\ TypeOK /\ \A d \in Conns : ConnInv(d)
      /\ message \in Seq(Row) /\ message' \in Seq(Row)
  BY DEF IInv, TypeOK
<1>2. message' = Save(message, m) /\ shown' = shown
  BY DEF PassMessage, ConfirmMessageReceived, historyVars
<1>3. /\ up'[c] \in Seq(GoodUp) /\ up[c] # <<>> /\ ~AsksToSignIn(c)
      /\ \A d \in Conns : d # c => up'[d] = up[d]
      /\ Head(up[c]) \in GoodUp
  BY <1>1, ServesGood DEF PassMessage, ConfirmMessageReceived
<1>4. m \in MessageObject /\ RefersToItsRow(m) /\ (m.id > 0 => m.read)
  <2>1. CASE PassMessage(c)
    <3>1. Head(up[c]).command = "MESSAGE" /\ Head(up[c]) \in UpPacket
      BY <1>3, <2>1 DEF PassMessage, Serves, GoodUp
    <3>2. m.id = 0
      BY <1>3, <3>1 DEF GoodUp
    <3> QED
      BY <3>1, <3>2, ObjectTypes DEF RefersToItsRow
  <2>2. CASE ConfirmMessageReceived(c)
    <3>1. /\ Head(up[c]).command = "MESSAGE_RECEIVED_CONFIRMATION"
          /\ Head(up[c]) \in UpPacket
      BY <1>3, <2>2 DEF ConfirmMessageReceived, Serves, GoodUp
    <3> QED
      BY <1>3, <3>1, ObjectTypes DEF GoodUp
  <2> QED
    BY <2>1, <2>2
<1>5. Grows
  BY <1>1, <1>2, <1>4, SaveGrows DEF Grows
<1>6. \A i \in DOMAIN message' :
         (i \in DOMAIN message /\ message'[i] = message[i])
         \/ message'[i] = RowOf(m)
  <2>1. /\ \A i \in DOMAIN message : i # m.id => message'[i] = message[i]
        /\ \A i \in DOMAIN message : i = m.id => message'[i] = RowOf(m)
        /\ \A i \in DOMAIN message' \ DOMAIN message : message'[i] = RowOf(m)
    BY <1>1, <1>2, <1>4, SaveRows
  <2> QED
    BY <2>1
<1>7. DisplayedToAddressee' /\ RegisteredIsAuthenticated'
  BY <1>2 DEF IInv, PassMessage, ConfirmMessageReceived, serverVars,
     DisplayedToAddressee, RegisteredIsAuthenticated
<1>8. clientId' = clientId /\ unreaded' = unreaded /\ down' = down
      /\ phase' = phase /\ who' = who
  BY DEF PassMessage, ConfirmMessageReceived, serverVars, clientVars
<1>9. phase[c] \notin {"off", "dialog", "idle", "signIn"}
  BY <1>1, <1>3 DEF ConnInv, PhaseInv
<1>10. ASSUME PassMessage(c)
       PROVE  /\ UnreadIsAddressed' /\ ReadMeansDisplayed'
              /\ \A d \in Conns : ConnInv(d)'
  <2>1. m.id = 0 /\ ~m.read /\ m.receiver = m.text.to
    BY <1>3, <1>10 DEF PassMessage, Serves, GoodUp
  <2>2. UnreadIsAddressed' /\ ReadMeansDisplayed'
    BY <1>2, <1>6, <2>1
       DEF IInv, UnreadIsAddressed, ReadMeansDisplayed, Displayed, RowOf
  <2>3. /\ forwarding'[c] = {m}
        /\ \A d \in Conns : d # c => forwarding'[d] = forwarding[d]
    BY <1>1, <1>10 DEF PassMessage, TypeOK
  <2>4. ConnInv(c)'
    BY <1>1, <1>3, <1>5, <1>8, <1>9, <2>1, <2>3, GrowsKeeps
       DEF ConnInv, UpInv, DownInv, ForwardInv, UnreadInv, PhaseInv
  <2>5. ASSUME NEW d \in Conns, d # c
        PROVE  ConnInv(d)'
    BY <1>1, <1>3, <1>5, <1>8, <2>3, <2>5, ConnFrame
  <2> QED
    BY <2>2, <2>4, <2>5
<1>11. ASSUME ConfirmMessageReceived(c)
       PROVE  /\ UnreadIsAddressed' /\ ReadMeansDisplayed'
              /\ \A d \in Conns : ConnInv(d)'
  <2>1. m.read /\ Displayed(m.text)
    BY <1>3, <1>11 DEF ConfirmMessageReceived, Serves, GoodUp
  <2>2. UnreadIsAddressed' /\ ReadMeansDisplayed'
    BY <1>2, <1>6, <2>1
       DEF IInv, UnreadIsAddressed, ReadMeansDisplayed, Displayed, RowOf
  <2>3. forwarding' = forwarding
    BY <1>11 DEF ConfirmMessageReceived, serverVars
  <2>4. ConnInv(c)'
    BY <1>1, <1>3, <1>5, <1>8, <1>9, <2>3, GrowsKeeps
       DEF ConnInv, UpInv, DownInv, ForwardInv, UnreadInv, PhaseInv
  <2>5. ASSUME NEW d \in Conns, d # c
        PROVE  ConnInv(d)'
    BY <1>1, <1>3, <1>5, <1>8, <2>3, <2>5, ConnFrame
  <2> QED
    BY <2>2, <2>4, <2>5
<1> QED
  BY <1>5, <1>7, <1>10, <1>11 DEF IInv

\* The SELECT of the unread messages, and the end of a server thread.
LEMMA ThreadStep ==
    ASSUME IInv, TypeOK', NEW c \in Conns,
           \/ SelectUnreaded(c) \/ CloseConnectionWithClient(c)
           \/ ConnectionReset(c)
    PROVE  IInv' /\ Grows
<1>1. Grows
  BY DEF SelectUnreaded, CloseConnectionWithClient, ConnectionReset, Grows,
         historyVars
<1>2. UnreadIsAddressed' /\ ReadMeansDisplayed' /\ DisplayedToAddressee'
  BY <1>1, RowsFrame
     DEF IInv, SelectUnreaded, CloseConnectionWithClient, ConnectionReset,
         historyVars, Grows, DisplayedToAddressee
<1>3. TypeOK /\ RegisteredIsAuthenticated /\ \A d \in Conns : ConnInv(d)
  BY DEF IInv
<1>4. RegisteredIsAuthenticated'
  <2>1. ASSUME NEW u \in Users
        PROVE  outputs'[u] = outputs[u] \/ outputs'[u] = NoConn
    BY <1>3 DEF SelectUnreaded, CloseConnectionWithClient, ConnectionReset,
                TypeOK, Ids
  <2>2. clientId' = clientId
    BY DEF SelectUnreaded, CloseConnectionWithClient, ConnectionReset
  <2> QED
    BY <1>3, <2>1, <2>2 DEF RegisteredIsAuthenticated
<1>5. /\ clientId' = clientId /\ forwarding' = forwarding /\ down' = down
      /\ phase' = phase /\ who' = who /\ message' = message
  BY DEF SelectUnreaded, CloseConnectionWithClient, ConnectionReset,
         clientVars
<1>6. /\ up'[c] \in Seq(GoodUp)
      /\ \A d \in Conns : d # c => up'[d] = up[d]
  <2>1. CASE SelectUnreaded(c) \/ CloseConnectionWithClient(c)
    BY <1>3, <2>1, ServesGood DEF SelectUnreaded, CloseConnectionWithClient
  <2>2. CASE ConnectionReset(c)
    BY <1>3, <2>2, EmptySeq DEF ConnectionReset, TypeOK
  <2> QED
    BY <2>1, <2>2
<1>7. phase[c] \notin {"off", "dialog", "idle", "signIn"}
  <2>1. CASE SelectUnreaded(c) \/ CloseConnectionWithClient(c)
    <3>1. up[c] # <<>> /\ ~AsksToSignIn(c)
      BY <1>3, <2>1, ServesGood
         DEF SelectUnreaded, CloseConnectionWithClient
    <3> QED
      BY <1>3, <3>1 DEF ConnInv, PhaseInv
  <2>2. CASE ConnectionReset(c)
    BY <2>2 DEF ConnectionReset
  <2> QED
    BY <2>1, <2>2
<1>8. /\ UnreadInv(c)'
      /\ \A d \in Conns : d # c => unreaded'[d] = unreaded[d]
  <2>1. CASE SelectUnreaded(c)
    <3>1. /\ unreaded'[c] = {}
             \/ unreaded'[c] = UnreadMessagesFor(message, clientId[c])
          /\ \A d \in Conns : d # c => unreaded'[d] = unreaded[d]
      BY <1>3, <2>1 DEF SelectUnreaded, TypeOK
    <3>2. ASSUME NEW i \in DOMAIN message,
                 message[i].receiver = clientId[c], ~message[i].read
          PROVE  Load(message, i) \in MailFor(clientId[c])
      <4>1. /\ Load(message, i) \in MessageObject
        BY <1>3, LoadType DEF TypeOK
      <4>2. message[i].text.to = clientId[c]
        BY <3>2 DEF IInv, UnreadIsAddressed
      <4> QED
        BY <3>2, <4>1, <4>2 DEF MailFor, Load, RefersToItsRow
    <3>3. UnreadMessagesFor(message, clientId[c]) \subseteq MailFor(clientId[c])
      BY <3>2 DEF UnreadMessagesFor
    <3> QED
      BY <1>1, <1>5, <3>1, <3>3, GrowsKeeps DEF UnreadInv
  <2>2. CASE CloseConnectionWithClient(c) \/ ConnectionReset(c)
    <3>1. unreaded' = unreaded
      BY <2>2 DEF CloseConnectionWithClient, ConnectionReset
    <3> QED
      BY <1>1, <1>3, <1>5, <3>1, GrowsKeeps DEF ConnInv, UnreadInv
  <2> QED
    BY <2>1, <2>2
<1>9. ConnInv(c)'
  BY <1>1, <1>3, <1>5, <1>6, <1>7, <1>8, GrowsKeeps
     DEF ConnInv, UpInv, DownInv, ForwardInv, PhaseInv
<1>10. ASSUME NEW d \in Conns, d # c
       PROVE  ConnInv(d)'
  BY <1>1, <1>3, <1>5, <1>6, <1>8, <1>10, ConnFrame
<1> QED
  BY <1>1, <1>2, <1>4, <1>9, <1>10 DEF IInv

LEMMA RestartStep ==
    ASSUME IInv, TypeOK', ServerRestart
    PROVE  IInv' /\ Grows
<1>1. Grows
  BY DEF ServerRestart, Grows, historyVars
<1>2. UnreadIsAddressed' /\ ReadMeansDisplayed' /\ DisplayedToAddressee'
  BY <1>1, RowsFrame
     DEF IInv, ServerRestart, historyVars, Grows, DisplayedToAddressee
<1>3. RegisteredIsAuthenticated'
  BY DEF ServerRestart, RegisteredIsAuthenticated, Ids
<1>4. ASSUME NEW c \in Conns
      PROVE  ConnInv(c)'
  <2>1. /\ up'[c] = <<>> /\ forwarding'[c] = {} /\ unreaded'[c] = {}
        /\ clientId' = clientId /\ down' = down /\ phase' = phase
        /\ who' = who
    BY DEF ServerRestart, clientVars
  <2>2. ConnInv(c)
    BY DEF IInv
  <2>3. up'[c] \in Seq(GoodUp')
    BY <2>1, EmptySeq
  <2> QED
    BY <1>1, <2>1, <2>2, <2>3, GrowsKeeps
       DEF ConnInv, UpInv, DownInv, ForwardInv, UnreadInv, PhaseInv
<1> QED
  BY <1>1, <1>2, <1>3, <1>4 DEF IInv

LEMMA IInvStep ==
    ASSUME IInv, [Next]_vars
    PROVE  IInv' /\ Grows
<1>1. TypeOK'
  BY IInvSignedIn, TypeStep DEF IInv
<1>2. CASE UNCHANGED vars
  <2>1. Grows
    BY <1>2 DEF vars, historyVars, Grows
  <2>2. ASSUME NEW c \in Conns
        PROVE  ConnInv(c)'
    BY <1>2, <2>1, ConnFrame DEF IInv, vars, serverVars, clientVars
  <2> QED
    BY <1>1, <1>2, <2>1, <2>2, RowsFrame
       DEF IInv, vars, serverVars, historyVars, DisplayedToAddressee,
           RegisteredIsAuthenticated
<1>3. ASSUME NEW c \in Conns, User(c) \/ Client(c) \/ Server(c) \/ Failure(c)
      PROVE  IInv' /\ Grows
  BY <1>1, <1>3, UserStep, ClientStep, AnswerStep, SaveStep, ThreadStep
     DEF Server, Failure
<1>4. CASE ServerRestart
  BY <1>1, <1>4, RestartStep
<1> QED
  BY <1>2, <1>3, <1>4 DEF Next

---------------------------------------------------------------------------
(* The theorems. *)

\* IInv is an invariant of Messaging: what is in flight and in the hands of
\* the server threads is always consistent with the table and the displays.
THEOREM Inductive == Spec => []IInv
<1>1. Init => IInv
  BY IInvInit
<1>2. IInv /\ [Next]_vars => IInv'
  BY IInvStep
<1> QED
  BY <1>1, <1>2, PTL DEF Spec

\* Every variable of Messaging keeps its type.
THEOREM TypeCorrect == Spec => []TypeOK
<1>1. IInv => TypeOK
  BY DEF IInv
<1> QED
  BY <1>1, Inductive, PTL

\* An accepted letter that has not been displayed is still in the table as an
\* unread message of its addressee.
THEOREM NothingIsLost == Spec => []UndeliveredIsKept
<1>1. IInv => UndeliveredIsKept
  <2> SUFFICES ASSUME IInv, NEW i \in DOMAIN message,
                      ~Displayed(message[i].text)
               PROVE  \E m \in UnreadMessagesFor(message, message[i].text.to) :
                         m.text = message[i].text
    BY DEF UndeliveredIsKept, StoredLetters
  <2>1. ~message[i].read
    BY DEF IInv, ReadMeansDisplayed
  <2>2. message[i].receiver = message[i].text.to
    BY <2>1 DEF IInv, UnreadIsAddressed
  <2>3. Load(message, i) \in UnreadMessagesFor(message, message[i].text.to)
    BY <2>1, <2>2 DEF UnreadMessagesFor
  <2>4. Load(message, i).text = message[i].text
    BY DEF Load
  <2> QED
    BY <2>3, <2>4
<1> QED
  BY <1>1, Inductive, PTL

\* A row is marked as read only after its letter was displayed to its
\* addressee.
THEOREM ReadIsDisplayed == Spec => []ReadMeansDisplayed
<1>1. IInv => ReadMeansDisplayed
  BY DEF IInv
<1> QED
  BY <1>1, Inductive, PTL

\* A letter is displayed to nobody but its addressee.
THEOREM OnlyToAddressee == Spec => []DisplayedToAddressee
<1>1. IInv => DisplayedToAddressee
  BY DEF IInv
<1> QED
  BY <1>1, Inductive, PTL

\* Whoever is registered for an account has authenticated it.
THEOREM RegisteredOwns == Spec => []RegisteredIsAuthenticated
<1>1. IInv => RegisteredIsAuthenticated
  BY DEF IInv
<1> QED
  BY <1>1, Inductive, PTL

\* No step changes the text of a message in the table, drops it or makes it
\* unread again.
THEOREM TableGrows == Spec => HistoryGrows
<1>1. IInv /\ [Next]_vars =>
        [\A i \in DOMAIN message :
            /\ i \in DOMAIN message'
            /\ message'[i].text = message[i].text
            /\ message[i].read => message'[i].read]_vars
  BY IInvStep DEF Grows
<1> QED
  BY <1>1, Inductive, PTL DEF Spec, HistoryGrows

---------------------------------------------------------------------------
(* The map outputs loses a program that is running only when another       *)
(* program has used the same account.                                      *)

ProgramStep ==
    \E c \in Conns : User(c) \/ Client(c) \/ Server(c) \/ Failure(c)

\* A thread that serves a sign-in request has authenticated nobody before.
LEMMA SignInIsFirst ==
    ASSUME TypeOK, NEW c \in Conns, ConnInv(c), SignInClient(c)
    PROVE  AsksToSignIn(c)
<1>1. Head(up[c]).command = "SIGN_IN_REQUEST" /\ up[c] # <<>>
  BY DEF SignInClient, Serves
<1>2. up[c] \notin Seq(GoodUp)
  BY <1>1, HeadTailProperties DEF GoodUp
<1> QED
  BY <1>2 DEF ConnInv, UpInv

\* A program that has ended stays so, and no step changes an id that a
\* program has, or that a server thread has authenticated.
LEMMA IdsStay ==
    ASSUME IInv, [Next]_vars, NEW c \in Conns, HasNoIdYet(c)
    PROVE  /\ phase[c] = "gone" => phase'[c] = "gone"
           /\ who[c] # NoUser \/ phase[c] = "gone" => who'[c] = who[c]
           /\ clientId[c] # NoUser => clientId'[c] = clientId[c]
           /\ HasNoIdYet(c)'
<1>1. TypeOK /\ ConnInv(c)
  BY DEF IInv
<1>2. CASE UNCHANGED vars
  BY <1>2 DEF vars, serverVars, clientVars, HasNoIdYet
<1>3. CASE ServerRestart
  BY <1>3 DEF ServerRestart, clientVars, HasNoIdYet
<1>4. ASSUME NEW d \in Conns, User(d)
      PROVE  /\ phase[c] = "gone" => phase'[c] = "gone"
             /\ who[c] # NoUser \/ phase[c] = "gone" => who'[c] = who[c]
             /\ clientId'[c] = clientId[c]
             /\ HasNoIdYet(c)'
  BY <1>1, <1>4
     DEF User, Connect, ConnectRemembered, TrySignIn, SendMessage, AppClosing,
         TypeOK, serverVars, clientVars, HasNoIdYet
<1>5. ASSUME NEW d \in Conns, Client(d)
      PROVE  /\ phase[c] = "gone" => phase'[c] = "gone"
             /\ who[c] # NoUser \/ phase[c] = "gone" => who'[c] = who[c]
             /\ clientId'[c] = clientId[c]
             /\ HasNoIdYet(c)'
  BY <1>1, <1>5
     DEF Client, ReceiveSignInResponse, LoadContactList,
         HandleReceivedMessage, UnknownPacket, LoseServer, TypeOK, serverVars,
         clientVars, HasNoIdYet
<1>6. ASSUME NEW d \in Conns, Server(d)
      PROVE  /\ phase' = phase /\ who' = who
             /\ clientId[c] # NoUser => clientId'[c] = clientId[c]
  <2>1. phase' = phase /\ who' = who
    BY <1>6
       DEF Server, SignInClient, SendContactList, PassMessage, Forward,
           ConfirmMessageReceived, SelectUnreaded, SendUnreaded,
           CloseConnectionWithClient, clientVars
  <2>2. CASE SignInClient(d)
    <3>1. clientId[d] = NoUser
      BY <2>2, SignInIsFirst DEF IInv, AsksToSignIn
    <3> QED
      BY <1>1, <2>1, <2>2, <3>1 DEF SignInClient, TypeOK
  <2>3. CASE ~SignInClient(d)
    BY <1>6, <2>1, <2>3
       DEF Server, SendContactList, PassMessage, Forward,
           ConfirmMessageReceived, SelectUnreaded, SendUnreaded,
           CloseConnectionWithClient, serverVars
  <2> QED
    BY <2>1, <2>2, <2>3
<1>7. ASSUME NEW d \in Conns, Failure(d)
      PROVE  /\ phase[c] = "gone" => phase'[c] = "gone"
             /\ phase'[c] \in {phase[c], "deaf", "gone"}
             /\ who' = who /\ clientId' = clientId
  BY <1>1, <1>7
     DEF Failure, ClientCrash, ReceiverStops, ConnectionReset, TypeOK,
         serverVars, clientVars
<1>8. CASE ProgramStep
  BY <1>4, <1>5, <1>6, <1>7, <1>8 DEF ProgramStep, HasNoIdYet
<1> QED
  BY <1>2, <1>3, <1>8 DEF Next, ProgramStep

\* What a step may do to the packets on their way to the server: only a
\* program that is closed adds a CLOSE_CONNECTION, with its own id.
LEMMA UpStep ==
    ASSUME IInv, [Next]_vars, NEW c \in Conns
    PROVE  \/ up'[c] = up[c]
           \/ up'[c] = <<>>
           \/ up[c] # <<>> /\ up'[c] = Tail(up[c])
           \/ \E p : /\ p.command # "CLOSE_CONNECTION"
                     /\ up'[c] = Append(up[c], p)
           \/ /\ phase'[c] = "gone" /\ phase[c] # "gone"
              /\ who'[c] = who[c]
              /\ up'[c] = Append(up[c], Packet("CLOSE_CONNECTION", who[c]))
<1>1. TypeOK
  BY DEF IInv
<1>2. ASSUME NEW d \in Conns, NEW p, ToServer(d, p)
      PROVE  up'[c] = up[c] \/ (c = d /\ up'[c] = Append(up[c], p))
  BY <1>1, <1>2 DEF ToServer, TypeOK
<1>3. ASSUME NEW d \in Conns, NEW cmd, NEW obj,
             ToServer(d, Packet(cmd, obj)), cmd # "CLOSE_CONNECTION"
      PROVE  \/ up'[c] = up[c]
             \/ \E p : /\ p.command # "CLOSE_CONNECTION"
                       /\ up'[c] = Append(up[c], p)
  <2>1. Packet(cmd, obj).command # "CLOSE_CONNECTION"
    BY <1>3 DEF Packet
  <2> QED
    BY <1>2, <1>3, <2>1
<1>4. ASSUME NEW d \in Conns, NEW cmd, Serves(d, cmd)
      PROVE  up'[c] = up[c] \/ (up[c] # <<>> /\ up'[c] = Tail(up[c]))
  BY <1>1, <1>4 DEF Serves, TypeOK
<1>5. CASE UNCHANGED vars \/ ServerRestart
  BY <1>5 DEF vars, ServerRestart
<1>6. ASSUME NEW d \in Conns, AppClosing(d)
      PROVE  \/ up'[c] = up[c]
             \/ /\ phase'[c] = "gone" /\ phase[c] # "gone"
                /\ who'[c] = who[c]
                /\ up'[c] = Append(up[c], Packet("CLOSE_CONNECTION", who[c]))
  <2>1. CASE c = d
    BY <1>1, <1>2, <1>6, <2>1 DEF AppClosing, TypeOK
  <2>2. CASE c # d
    BY <1>2, <1>6, <2>2 DEF AppClosing
  <2> QED
    BY <2>1, <2>2
<1>7. ASSUME NEW d \in Conns, User(d), ~AppClosing(d)
      PROVE  \/ up'[c] = up[c]
             \/ \E p : /\ p.command # "CLOSE_CONNECTION"
                       /\ up'[c] = Append(up[c], p)
  BY <1>3, <1>7
     DEF User, Connect, ConnectRemembered, TrySignIn, SendMessage
<1>8. ASSUME NEW d \in Conns, Client(d)
      PROVE  \/ up'[c] = up[c]
             \/ \E p : /\ p.command # "CLOSE_CONNECTION"
                       /\ up'[c] = Append(up[c], p)
  BY <1>3, <1>8
     DEF Client, ReceiveSignInResponse, LoadContactList,
         HandleReceivedMessage, UnknownPacket, LoseServer
<1>9. ASSUME NEW d \in Conns, Server(d)
      PROVE  up'[c] = up[c] \/ (up[c] # <<>> /\ up'[c] = Tail(up[c]))
  BY <1>4, <1>9
     DEF Server, SignInClient, SendContactList, PassMessage, Forward,
         ConfirmMessageReceived, SelectUnreaded, SendUnreaded,
         CloseConnectionWithClient
<1>10. ASSUME NEW d \in Conns, Failure(d)
       PROVE  up'[c] = up[c] \/ up'[c] = <<>>
  BY <1>1, <1>10
     DEF Failure, ClientCrash, ReceiverStops, ConnectionReset, TypeOK
<1> QED
  BY <1>5, <1>6, <1>7, <1>8, <1>9, <1>10 DEF Next

LEMMA ClosesItsOwnStep ==
    ASSUME IInv, [Next]_vars, NEW c \in Conns,
           ClosesItsOwn(c), HasNoIdYet(c)
    PROVE  ClosesItsOwn(c)'
<1>1. up[c] \in Seq(UpPacket)
  BY DEF IInv, TypeOK
<1>2. phase[c] = "gone" => phase'[c] = "gone" /\ who'[c] = who[c]
  BY IdsStay
<1>3. CASE up'[c] = up[c] \/ up'[c] = <<>>
  BY <1>2, <1>3 DEF ClosesItsOwn
<1>4. CASE up[c] # <<>> /\ up'[c] = Tail(up[c])
  <2>1. ASSUME NEW i \in DOMAIN Tail(up[c])
        PROVE  /\ i + 1 \in DOMAIN up[c]
               /\ Tail(up[c])[i] = up[c][i + 1]
    BY <1>1, <1>4, <2>1
  <2> QED
    BY <1>2, <1>4, <2>1 DEF ClosesItsOwn
<1>5. ASSUME NEW p, up'[c] = Append(up[c], p),
             p.command # "CLOSE_CONNECTION"
      PROVE  ClosesItsOwn(c)'
  <2>1. ASSUME NEW i \in DOMAIN Append(up[c], p)
        PROVE  \/ i \in DOMAIN up[c] /\ Append(up[c], p)[i] = up[c][i]
               \/ Append(up[c], p)[i] = p
    BY <1>1, <2>1
  <2> QED
    BY <1>2, <1>5, <2>1 DEF ClosesItsOwn
<1>6. ASSUME phase'[c] = "gone", phase[c] # "gone", who'[c] = who[c],
             up'[c] = Append(up[c], Packet("CLOSE_CONNECTION", who[c]))
      PROVE  ClosesItsOwn(c)'
  <2>1. PICK p : p = Packet("CLOSE_CONNECTION", who[c])
    OBVIOUS
  <2>2. ASSUME NEW i \in DOMAIN Append(up[c], p)
        PROVE  \/ i \in DOMAIN up[c] /\ Append(up[c], p)[i] = up[c][i]
               \/ Append(up[c], p)[i] = p
    BY <1>1, <2>2
  <2>3. p.object = who[c]
    BY <2>1 DEF Packet
  <2> QED
    BY <1>6, <2>1, <2>2, <2>3 DEF ClosesItsOwn
<1> QED
  BY <1>3, <1>4, <1>5, <1>6, UpStep

\* Once an account is shared it stays so.
LEMMA SharingStays ==
    ASSUME IInv, RInv, [Next]_vars, NEW c \in Conns,
           clientId[c] \in Users, SharesAccount(c)
    PROVE  SharesAccount(c)'
<1>1. PICK d \in Conns \ {c} : clientId[c] \in {who[d], clientId[d]}
  BY DEF SharesAccount
<1>2. clientId[c] # NoUser
  BY NoUserAssumption
<1>3. clientId'[c] = clientId[c]
  BY <1>2, IdsStay DEF RInv
<1>4. /\ who[d] # NoUser => who'[d] = who[d]
      /\ clientId[d] # NoUser => clientId'[d] = clientId[d]
  BY IdsStay DEF RInv
<1> QED
  BY <1>1, <1>2, <1>3, <1>4 DEF SharesAccount

\* How a step may take the entry of a serving connection from it: another
\* connection signs in to the account, or removes the entry with its own id.
LEMMA EntryStep ==
    ASSUME IInv, RInv, [Next]_vars, NEW c \in Conns, NEW u \in Users,
           outputs[u] = c, thread'[c] = "serving"
    PROVE  \/ outputs'[u] = c
           \/ \E d \in Conns \ {c} : u \in {who'[d], clientId'[d]}
<1>1. TypeOK /\ u \in Ids
  BY DEF IInv, Ids
<1>2. CASE UNCHANGED vars
  BY <1>2 DEF vars, serverVars
<1>3. CASE ServerRestart
  BY <1>1, <1>3 DEF ServerRestart, TypeOK
<1>4. ASSUME NEW d \in Conns, User(d) \/ Client(d) \/ Failure(d)
      PROVE  outputs' = outputs
  BY <1>4
     DEF User, Connect, ConnectRemembered, TrySignIn, SendMessage, AppClosing,
         Client, ReceiveSignInResponse, LoadContactList,
         HandleReceivedMessage, UnknownPacket, LoseServer,
         Failure, ClientCrash, ReceiverStops, ConnectionReset, serverVars
<1>5. ASSUME NEW d \in Conns, SignInClient(d)
      PROVE  \/ outputs'[u] = c
             \/ d # c /\ u = clientId'[d]
  BY <1>1, <1>5 DEF SignInClient, TypeOK
<1>6. ASSUME NEW d \in Conns, CloseConnectionWithClient(d)
      PROVE  \/ outputs'[u] = c
             \/ d # c /\ u = who'[d]
  <2>1. d # c
    BY <1>1, <1>6 DEF CloseConnectionWithClient, TypeOK
  <2>2. Head(up[d]).object = who[d] /\ who'[d] = who[d]
    <3>1. /\ 1 \in DOMAIN up[d] /\ Head(up[d]) = up[d][1]
          /\ up[d][1].command = "CLOSE_CONNECTION"
      BY <1>1, <1>6 DEF CloseConnectionWithClient, Serves, TypeOK
    <3> QED
      BY <1>6, <3>1
         DEF RInv, ClosesItsOwn, CloseConnectionWithClient, clientVars
  <2>3. outputs' = [outputs EXCEPT ![Head(up[d]).object] = NoConn]
    BY <1>6 DEF CloseConnectionWithClient
  <2> QED
    BY <1>1, <2>1, <2>2, <2>3 DEF TypeOK
<1>7. ASSUME NEW d \in Conns, Server(d), ~SignInClient(d),
             ~CloseConnectionWithClient(d)
      PROVE  outputs' = outputs
  BY <1>7
     DEF Server, SendContactList, PassMessage, Forward,
         ConfirmMessageReceived, SelectUnreaded, SendUnreaded, serverVars
<1> QED
  BY <1>2, <1>3, <1>4, <1>5, <1>6, <1>7 DEF Next

\* A thread begins to serve before it has authenticated anybody.
LEMMA ServesOn ==
    ASSUME IInv, [Next]_vars, NEW c \in Conns, thread'[c] = "serving",
           clientId[c] # NoUser
    PROVE  thread[c] = "serving"
<1>1. TypeOK /\ ConnInv(c)
  BY DEF IInv
<1>2. CASE UNCHANGED vars
  BY <1>2 DEF vars, serverVars
<1>3. CASE ServerRestart
  BY <1>1, <1>3 DEF ServerRestart, TypeOK
<1>4. ASSUME NEW d \in Conns, Connect(d) \/ ConnectRemembered(d)
      PROVE  thread[c] = "serving"
  <2>1. d # c
    BY <1>1, <1>4 DEF Connect, ConnectRemembered, ConnInv, PhaseInv
  <2> QED
    BY <1>1, <1>4, <2>1 DEF Connect, ConnectRemembered, TypeOK
<1>5. ASSUME NEW d \in Conns,
             TrySignIn(d) \/ SendMessage(d) \/ AppClosing(d) \/ Client(d)
      PROVE  thread' = thread
  BY <1>5
     DEF TrySignIn, SendMessage, AppClosing, Client, ReceiveSignInResponse,
         LoadContactList, HandleReceivedMessage, UnknownPacket, LoseServer,
         serverVars
<1>6. ASSUME NEW d \in Conns, Server(d) \/ Failure(d)
      PROVE  thread'[c] \in {thread[c], "ended"}
  BY <1>1, <1>6
     DEF Server, SignInClient, SendContactList, PassMessage, Forward,
         ConfirmMessageReceived, SelectUnreaded, SendUnreaded,
         CloseConnectionWithClient, Failure, ClientCrash, ReceiverStops,
         ConnectionReset,
         serverVars, TypeOK
<1> QED
  BY <1>2, <1>3, <1>4, <1>5, <1>6 DEF Next, User

LEMMA IsReachableStep ==
    ASSUME IInv, RInv, [Next]_vars, NEW c \in Conns
    PROVE  IsReachable(c)'
<1> SUFFICES ASSUME thread'[c] = "serving", phase'[c] # "gone",
                    clientId'[c] \in Users
             PROVE  outputs'[clientId'[c]] = c \/ SharesAccount(c)'
  BY DEF IsReachable
<1>1. TypeOK /\ \A d \in Conns : ConnInv(d)
  BY DEF IInv
<1>2. CASE clientId[c] # NoUser
  <2>1. clientId'[c] = clientId[c] /\ phase[c] # "gone"
    BY <1>2, IdsStay DEF RInv
  <2>2. outputs[clientId[c]] = c \/ SharesAccount(c)
    BY <1>2, <2>1, ServesOn DEF RInv, IsReachable
  <2>3. CASE SharesAccount(c)
    BY <2>1, <2>3, SharingStays
  <2>4. CASE outputs[clientId[c]] = c
    BY <2>1, <2>4, EntryStep DEF SharesAccount
  <2> QED
    BY <2>2, <2>3, <2>4
<1>3. CASE clientId[c] = NoUser
  <2>1. clientId'[c] # clientId[c]
    BY <1>3, NoUserAssumption
  <2>2. PICK d \in Conns : SignInClient(d)
    BY <2>1
       DEF Next, vars, serverVars, ServerRestart, User, Connect,
           ConnectRemembered, TrySignIn, SendMessage, AppClosing, Client,
           ReceiveSignInResponse, LoadContactList, HandleReceivedMessage,
           UnknownPacket, LoseServer, Failure, ClientCrash, ReceiverStops,
           ConnectionReset,
           Server, SendContactList, PassMessage, Forward,
           ConfirmMessageReceived, SelectUnreaded, SendUnreaded,
           CloseConnectionWithClient
  <2>3. d = c
    BY <1>1, <2>1, <2>2 DEF SignInClient, TypeOK
  <2> QED
    BY <1>1, <2>2, <2>3 DEF SignInClient, TypeOK, Ids
<1> QED
  BY <1>2, <1>3

---------------------------------------------------------------------------

\* A signed-in program whose thread serves it is the one registered for its
\* account, unless another program has been given the same account id.
THEOREM RegistrationLasts == Spec => []ReachableUnlessShared
<1>1. Init => RInv
  BY NoUserAssumption
     DEF Init, RInv, ClosesItsOwn, HasNoIdYet, IsReachable
<1>2. IInv /\ RInv /\ [Next]_vars => RInv'
  BY IdsStay, ClosesItsOwnStep, IsReachableStep DEF RInv
<1>3. IInv /\ RInv => ReachableUnlessShared
  <2> SUFFICES ASSUME IInv, RInv, NEW c \in Conns,
                      phase[c] \in {"run", "deaf"}, thread[c] = "serving"
               PROVE  \/ outputs[who[c]] = c
                      \/ \E d \in Conns \ {c} : who[c] \in {who[d], clientId[d]}
    BY DEF ReachableUnlessShared
  <2>1. who[c] = clientId[c] /\ who[c] \in Users
    BY DEF IInv, ConnInv, PhaseInv
  <2> QED
    BY <2>1 DEF RInv, IsReachable, SharesAccount
<1> QED
  BY <1>1, <1>2, <1>3, Inductive, PTL DEF Spec

=============================================================================
