--------------------------- MODULE Presence_proofs ---------------------------
(***************************************************************************)
(* Proofs about the availability of contacts, for any users, sessions,     *)
(* contact lists and statuses, and whatever is in flight.                  *)
(***************************************************************************)
EXTENDS Presence, SequenceTheorems, TLAPS

---------------------------------------------------------------------------
(* The packets. *)

LEMMA PacketTypes ==
    /\ \A s \in Statuses : StatusChanged(s) \in UpPacket
    /\ \A c \in Sessions :
         StatusesRequest(c) \in UpPacket /\ CloseConnection(c) \in UpPacket
  BY SessionsAssumption
     DEF StatusChanged, StatusesRequest, CloseConnection, UpPacket

LEMMA PacketCommands ==
    /\ \A s : StatusChanged(s).command = "STATUS_CHANGED"
    /\ \A c : /\ StatusesRequest(c).command = "CONTACTS_STATUSES_REQUEST"
              /\ CloseConnection(c).object = Owner[c]
  BY DEF StatusChanged, StatusesRequest, CloseConnection

LEMMA NoEntriesType == NoEntries \in StatusMap
  BY DEF NoEntries, StatusMap

\* What a client writes is in the stream or lost, and asks to close nobody
\* else's connection.
LEMMA Written ==
    ASSUME PInv, NEW c \in Sessions, NEW packets \in Seq(UpPacket),
           ToServer(c, packets), ClosesItsUser(packets, c)
    PROVE  /\ up' \in [Sessions -> Seq(UpPacket)]
           /\ \A d \in Sessions : ClosesItsUser(up[d], d)'
<1>1. /\ up \in [Sessions -> Seq(UpPacket)]
      /\ \A d \in Sessions : ClosesItsUser(up[d], d)
  BY DEF PInv, TypeOK
<1>2. CASE up' = up
  BY <1>1, <1>2 DEF ClosesItsUser
<1>3. CASE up' = [up EXCEPT ![c] = @ \o packets]
  <2> DEFINE s == up[c] \o packets
  <2>1. /\ s \in Seq(UpPacket)
        /\ Len(s) = Len(up[c]) + Len(packets)
        /\ \A i \in 1 .. Len(up[c]) + Len(packets) :
             s[i] = IF i <= Len(up[c]) THEN up[c][i]
                                       ELSE packets[i - Len(up[c])]
    BY <1>1, ConcatProperties
  <2> HIDE DEF s
  <2>2. DOMAIN s = 1 .. Len(up[c]) + Len(packets)
    BY <2>1
  <2>3. Len(up[c]) \in Nat /\ Len(packets) \in Nat
    BY <1>1
  <2>4. ASSUME NEW i \in DOMAIN s, s[i].command = "CLOSE_CONNECTION"
        PROVE  s[i].object = Owner[c]
    <3>1. CASE i <= Len(up[c])
      <4>1. i \in DOMAIN up[c] /\ s[i] = up[c][i]
        BY <1>1, <2>1, <2>2, <3>1
      <4> QED
        BY <1>1, <2>4, <4>1 DEF ClosesItsUser
    <3>2. CASE i > Len(up[c])
      <4>1. /\ i - Len(up[c]) \in DOMAIN packets
            /\ s[i] = packets[i - Len(up[c])]
        BY <2>1, <2>2, <2>3, <3>2
      <4> QED
        BY <2>4, <4>1 DEF ClosesItsUser
    <3> QED
      BY <2>2, <2>3, <3>1, <3>2
  <2>5. up' = [up EXCEPT ![c] = s]
    BY <1>3 DEF s
  <2>6. up' \in [Sessions -> Seq(UpPacket)]
    BY <1>1, <2>1, <2>5
  <2>7. ASSUME NEW d \in Sessions
        PROVE  ClosesItsUser(up[d], d)'
    BY <1>1, <2>4, <2>5 DEF ClosesItsUser
  <2> QED
    BY <2>6, <2>7
<1> QED
  BY <1>2, <1>3 DEF ToServer

\* What a server thread reads was written to it.
LEMMA Served ==
    ASSUME PInv, NEW c \in Sessions, NEW command, Serves(c, command)
    PROVE  /\ up' \in [Sessions -> Seq(UpPacket)]
           /\ \A d \in Sessions : ClosesItsUser(up[d], d)'
           /\ Head(up[c]) \in UpPacket
           /\ Head(up[c]).command = command
           /\ command = "CLOSE_CONNECTION" => Head(up[c]).object = Owner[c]
<1>1. /\ up \in [Sessions -> Seq(UpPacket)]
      /\ \A d \in Sessions : ClosesItsUser(up[d], d)
      /\ up[c] # <<>>
      /\ up' = [up EXCEPT ![c] = Tail(@)]
      /\ Head(up[c]).command = command
  BY DEF PInv, TypeOK, Serves
<1>2. /\ Head(up[c]) \in UpPacket
      /\ Tail(up[c]) \in Seq(UpPacket)
      /\ 1 \in DOMAIN up[c] /\ Head(up[c]) = up[c][1]
      /\ \A i \in DOMAIN Tail(up[c]) :
           i + 1 \in DOMAIN up[c] /\ Tail(up[c])[i] = up[c][i + 1]
  BY <1>1, HeadTailProperties
<1>3. ASSUME NEW d \in Sessions
      PROVE  ClosesItsUser(up[d], d)'
  BY <1>1, <1>2 DEF ClosesItsUser
<1> QED
  BY <1>1, <1>2, <1>3 DEF ClosesItsUser

\* What the three kinds of packets carry.
LEMMA Contents ==
    ASSUME NEW p \in UpPacket
    PROVE  /\ p.command = "STATUS_CHANGED" => p.object \in Statuses
           /\ p.command = "CONTACTS_STATUSES_REQUEST" =>
                p.object \in SUBSET Users
  BY DEF UpPacket

---------------------------------------------------------------------------
(* The client program. *)

\* A session begins with a thread, and is not closed.
LEMMA GrantedContactIdKeeps ==
    ASSUME PInv, NEW c \in Sessions, GrantedContactId(c)
    PROVE  PInv'
<1> USE SessionsAssumption, StatusesAssumption
    DEF PInv, GrantedContactId, serverVars, answerVars, clientVars
<1> PICK s \in Statuses :
           /\ status' = [status EXCEPT ![c] = s]
           /\ ToServer(c, <<StatusChanged(s), StatusesRequest(c)>>)
  OBVIOUS
<1> DEFINE packets == <<StatusChanged(s), StatusesRequest(c)>>
<1>0. /\ up' \in [Sessions -> Seq(UpPacket)]
      /\ \A d \in Sessions : ClosesItsUser(up[d], d)'
  <2>1. packets \in Seq(UpPacket)
    BY PacketTypes DEF TypeOK
  <2>2. ClosesItsUser(packets, c)
    <3>1. DOMAIN packets = {1, 2} /\ packets[1] = StatusChanged(s) /\ packets[2] = StatusesRequest(c)
      OBVIOUS
    <3> HIDE DEF packets
    <3> QED
      BY <3>1, PacketCommands DEF ClosesItsUser
  <2> HIDE DEF packets
  <2>3. ToServer(c, packets)
    BY DEF packets
  <2> QED
    BY <2>1, <2>2, <2>3, Written
<1>1. TypeOK'
  BY <1>0 DEF TypeOK
<1>2. ThreadOfSession'
  BY DEF ThreadOfSession, TypeOK
<1>3. HasStatus'
  BY DEF HasStatus, TypeOK
<1>4. \A d \in Sessions : ClosesItsUser(up[d], d)'
  BY <1>0
<1>5. FoundIsThere'
  BY DEF FoundIsThere, SessionsOf
<1>6. ClosedIsForgotten'
  BY DEF ClosedIsForgotten, SessionsOf, ThreadOfSession
<1>7. NullOnlyOfAClose'
  BY DEF NullOnlyOfAClose, SessionsOf
<1> QED
  BY <1>1, <1>2, <1>3, <1>4, <1>5, <1>6, <1>7

\* A program with a remembered id has a thread, and no status.
LEMMA StartRememberedKeeps ==
    ASSUME PInv, NEW c \in Sessions, StartRemembered(c)
    PROVE  PInv'
<1> USE SessionsAssumption, StatusesAssumption
    DEF PInv, StartRemembered, serverVars, answerVars, clientVars
<1>1. TypeOK'
  BY DEF TypeOK
<1>2. ThreadOfSession'
  BY DEF ThreadOfSession, TypeOK
<1>3. HasStatus'
  BY DEF HasStatus, TypeOK
<1>4. \A d \in Sessions : ClosesItsUser(up[d], d)'
  BY DEF ClosesItsUser
<1>5. FoundIsThere'
  BY DEF FoundIsThere, SessionsOf
<1>6. ClosedIsForgotten'
  BY DEF ClosedIsForgotten, SessionsOf, ThreadOfSession, TypeOK
<1>7. NullOnlyOfAClose'
  BY DEF NullOnlyOfAClose, SessionsOf
<1> QED
  BY <1>1, <1>2, <1>3, <1>4, <1>5, <1>6, <1>7

\* A choice from the menu only sends a packet.
LEMMA ChangeStatusKeeps ==
    ASSUME PInv, NEW c \in Sessions, ChangeStatus(c)
    PROVE  PInv'
<1> USE SessionsAssumption, StatusesAssumption
    DEF PInv, ChangeStatus, serverVars, answerVars, clientVars
<1> PICK s \in Statuses :
           /\ status' = [status EXCEPT ![c] = s]
           /\ ToServer(c, <<StatusChanged(s)>>)
  OBVIOUS
<1> DEFINE packets == <<StatusChanged(s)>>
<1>0. /\ up' \in [Sessions -> Seq(UpPacket)]
      /\ \A d \in Sessions : ClosesItsUser(up[d], d)'
  <2>1. packets \in Seq(UpPacket)
    BY PacketTypes DEF TypeOK
  <2>2. ClosesItsUser(packets, c)
    BY PacketCommands DEF ClosesItsUser
  <2> HIDE DEF packets
  <2>3. ToServer(c, packets)
    BY DEF packets
  <2> QED
    BY <2>1, <2>2, <2>3, Written
<1>1. TypeOK'
  <2>0. changes \in [Sessions -> Nat] /\ changes[c] + 1 \in Nat
    BY DEF TypeOK
  <2>1. changes' \in [Sessions -> Nat]
    BY <2>0
  <2>2. ASSUME NEW d \in Sessions
        PROVE  changes'[d] <= MaxChanges[d]
    <3>1. /\ changes[d] \in Nat /\ MaxChanges[d] \in Nat
          /\ changes[d] <= MaxChanges[d]
      BY MaxChangesAssumption DEF TypeOK
    <3>2. changes'[d] = IF d = c THEN changes[d] + 1 ELSE changes[d]
      BY <2>0
    <3> QED
      BY <3>1, <3>2
  <2> QED
    BY <1>0, <2>1, <2>2 DEF TypeOK
<1>2. ThreadOfSession'
  BY DEF ThreadOfSession
<1>3. HasStatus'
  BY DEF HasStatus, TypeOK
<1>4. \A d \in Sessions : ClosesItsUser(up[d], d)'
  BY <1>0
<1>5. FoundIsThere'
  BY DEF FoundIsThere, SessionsOf
<1>6. ClosedIsForgotten'
  BY DEF ClosedIsForgotten, SessionsOf
<1>7. NullOnlyOfAClose'
  BY DEF NullOnlyOfAClose, SessionsOf
<1> QED
  BY <1>1, <1>2, <1>3, <1>4, <1>5, <1>6, <1>7

\* The timer's first packet.
LEMMA SendClientStatusKeeps ==
    ASSUME PInv, NEW c \in Sessions, SendClientStatus(c)
    PROVE  PInv'
<1> USE SessionsAssumption, StatusesAssumption
    DEF PInv, SendClientStatus, serverVars, answerVars, clientVars
<1> DEFINE packets == <<StatusChanged(status[c])>>
<1>0. /\ up' \in [Sessions -> Seq(UpPacket)]
      /\ \A d \in Sessions : ClosesItsUser(up[d], d)'
  <2>1. packets \in Seq(UpPacket)
    BY PacketTypes DEF TypeOK, HasStatus
  <2>2. ClosesItsUser(packets, c)
    BY PacketCommands DEF ClosesItsUser
  <2> HIDE DEF packets
  <2>3. ToServer(c, packets)
    BY DEF packets
  <2> QED
    BY <2>1, <2>2, <2>3, Written
<1>1. TypeOK'
  BY <1>0 DEF TypeOK
<1>2. ThreadOfSession'
  BY DEF ThreadOfSession
<1>3. HasStatus'
  BY DEF HasStatus
<1>4. \A d \in Sessions : ClosesItsUser(up[d], d)'
  BY <1>0
<1>5. FoundIsThere'
  BY DEF FoundIsThere, SessionsOf
<1>6. ClosedIsForgotten'
  BY DEF ClosedIsForgotten, SessionsOf
<1>7. NullOnlyOfAClose'
  BY DEF NullOnlyOfAClose, SessionsOf
<1> QED
  BY <1>1, <1>2, <1>3, <1>4, <1>5, <1>6, <1>7

\* The timer's second packet.
LEMMA UpdateContactsStatusesKeeps ==
    ASSUME PInv, NEW c \in Sessions, UpdateContactsStatuses(c)
    PROVE  PInv'
<1> USE SessionsAssumption, StatusesAssumption
    DEF PInv, UpdateContactsStatuses, serverVars, answerVars, clientVars
<1> DEFINE packets == <<StatusesRequest(c)>>
<1>0. /\ up' \in [Sessions -> Seq(UpPacket)]
      /\ \A d \in Sessions : ClosesItsUser(up[d], d)'
  <2>1. packets \in Seq(UpPacket)
    BY PacketTypes DEF TypeOK
  <2>2. ClosesItsUser(packets, c)
    BY PacketCommands DEF ClosesItsUser
  <2> HIDE DEF packets
  <2>3. ToServer(c, packets)
    BY DEF packets
  <2> QED
    BY <2>1, <2>2, <2>3, Written
<1>1. TypeOK'
  BY <1>0 DEF TypeOK
<1>2. ThreadOfSession'
  BY DEF ThreadOfSession
<1>3. HasStatus'
  BY DEF HasStatus
<1>4. \A d \in Sessions : ClosesItsUser(up[d], d)'
  BY <1>0
<1>5. FoundIsThere'
  BY DEF FoundIsThere, SessionsOf
<1>6. ClosedIsForgotten'
  BY DEF ClosedIsForgotten, SessionsOf
<1>7. NullOnlyOfAClose'
  BY DEF NullOnlyOfAClose, SessionsOf
<1> QED
  BY <1>1, <1>2, <1>3, <1>4, <1>5, <1>6, <1>7

\* The receiver thread reads a whole map.
LEMMA ContactsStatusesReceivedKeeps ==
    ASSUME PInv, NEW c \in Sessions, ContactsStatusesReceived(c)
    PROVE  PInv'
<1> USE SessionsAssumption, StatusesAssumption
    DEF PInv, ContactsStatusesReceived, serverVars, answerVars, clientVars
<1>1. TypeOK'
  BY HeadTailProperties DEF TypeOK
<1>2. ThreadOfSession'
  BY DEF ThreadOfSession
<1>3. HasStatus'
  BY DEF HasStatus
<1>4. \A d \in Sessions : ClosesItsUser(up[d], d)'
  BY DEF ClosesItsUser
<1>5. FoundIsThere'
  BY DEF FoundIsThere, SessionsOf
<1>6. ClosedIsForgotten'
  BY DEF ClosedIsForgotten, SessionsOf
<1>7. NullOnlyOfAClose'
  BY DEF NullOnlyOfAClose, SessionsOf
<1> QED
  BY <1>1, <1>2, <1>3, <1>4, <1>5, <1>6, <1>7

\* A receiver that stops leaves the server's side as it is.
LEMMA ReceiverStopsKeeps ==
    ASSUME PInv, NEW c \in Sessions, ReceiverStops(c)
    PROVE  PInv'
<1> USE SessionsAssumption, StatusesAssumption
    DEF PInv, ReceiverStops, serverVars, answerVars, clientVars
<1>1. TypeOK'
  BY DEF TypeOK
<1>2. ThreadOfSession'
  BY DEF ThreadOfSession, TypeOK
<1>3. HasStatus'
  BY DEF HasStatus, TypeOK
<1>4. \A d \in Sessions : ClosesItsUser(up[d], d)'
  BY DEF ClosesItsUser
<1>5. FoundIsThere'
  BY DEF FoundIsThere, SessionsOf
<1>6. ClosedIsForgotten'
  BY DEF ClosedIsForgotten, SessionsOf, ThreadOfSession, TypeOK
<1>7. NullOnlyOfAClose'
  BY DEF NullOnlyOfAClose, SessionsOf
<1> QED
  BY <1>1, <1>2, <1>3, <1>4, <1>5, <1>6, <1>7

\* The program's last two packets.
LEMMA AppClosingKeeps ==
    ASSUME PInv, NEW c \in Sessions, AppClosing(c)
    PROVE  PInv'
<1> USE SessionsAssumption, StatusesAssumption
    DEF PInv, AppClosing, serverVars, answerVars, clientVars, Exit
<1> DEFINE packets == <<StatusChanged(OFFLINE), CloseConnection(c)>>
<1>0. /\ up' \in [Sessions -> Seq(UpPacket)]
      /\ \A d \in Sessions : ClosesItsUser(up[d], d)'
  <2>1. packets \in Seq(UpPacket)
    BY PacketTypes DEF TypeOK
  <2>2. ClosesItsUser(packets, c)
    BY PacketCommands DEF ClosesItsUser
  <2> HIDE DEF packets
  <2>3. ToServer(c, packets)
    BY DEF packets
  <2> QED
    BY <2>1, <2>2, <2>3, Written
<1>1. TypeOK'
  <2>1. /\ phase' \in [Sessions -> {"off", "idle", "run", "deaf", "gone"}]
        /\ down' \in [Sessions -> Seq(StatusMap)]
        /\ status' \in [Sessions -> Statuses \cup {Null}]
        /\ ticking' \in [Sessions -> BOOLEAN]
        /\ contactStatuses' \in [Sessions -> StatusMap]
    BY NoEntriesType DEF TypeOK
  <2> QED
    BY <1>0, <2>1 DEF TypeOK
<1>2. ThreadOfSession'
  BY DEF ThreadOfSession
<1>3. HasStatus'
  BY DEF HasStatus, TypeOK
<1>4. \A d \in Sessions : ClosesItsUser(up[d], d)'
  BY <1>0
<1>5. FoundIsThere'
  BY DEF FoundIsThere, SessionsOf
<1>6. ClosedIsForgotten'
  BY DEF ClosedIsForgotten, SessionsOf
<1>7. NullOnlyOfAClose'
  BY DEF NullOnlyOfAClose, SessionsOf
<1> QED
  BY <1>1, <1>2, <1>3, <1>4, <1>5, <1>6, <1>7

\* A crash leaves the server's side as it is.
LEMMA ClientCrashKeeps ==
    ASSUME PInv, NEW c \in Sessions, ClientCrash(c)
    PROVE  PInv'
<1> USE SessionsAssumption, StatusesAssumption
    DEF PInv, ClientCrash, serverVars, answerVars, clientVars, Exit
<1>1. TypeOK'
  BY NoEntriesType DEF TypeOK
<1>2. ThreadOfSession'
  BY DEF ThreadOfSession
<1>3. HasStatus'
  BY DEF HasStatus, TypeOK
<1>4. \A d \in Sessions : ClosesItsUser(up[d], d)'
  BY DEF ClosesItsUser
<1>5. FoundIsThere'
  BY DEF FoundIsThere, SessionsOf
<1>6. ClosedIsForgotten'
  BY DEF ClosedIsForgotten, SessionsOf
<1>7. NullOnlyOfAClose'
  BY DEF NullOnlyOfAClose, SessionsOf
<1> QED
  BY <1>1, <1>2, <1>3, <1>4, <1>5, <1>6, <1>7

---------------------------------------------------------------------------
(* The server thread. *)

\* A status is stored for a session that is not closed.
LEMMA UpdateStatusKeeps ==
    ASSUME PInv, NEW c \in Sessions, UpdateStatus(c)
    PROVE  PInv'
<1> USE SessionsAssumption, StatusesAssumption
    DEF PInv, UpdateStatus, serverVars, answerVars, clientVars
<1>0. /\ up' \in [Sessions -> Seq(UpPacket)]
      /\ \A d \in Sessions : ClosesItsUser(up[d], d)'
      /\ Head(up[c]) \in UpPacket
      /\ Head(up[c]).command = "STATUS_CHANGED"
      /\ thread[c] = "serving"
  BY Served DEF Serves
<1>1. TypeOK'
  BY <1>0, Contents DEF TypeOK
<1>2. ThreadOfSession'
  BY <1>0 DEF ThreadOfSession
<1>3. HasStatus'
  BY DEF HasStatus
<1>4. \A d \in Sessions : ClosesItsUser(up[d], d)'
  BY <1>0
<1>5. FoundIsThere'
  BY <1>0, Contents DEF FoundIsThere, SessionsOf, TypeOK
<1>6. ClosedIsForgotten'
  BY <1>0 DEF ClosedIsForgotten, SessionsOf, ThreadOfSession, TypeOK
<1>7. NullOnlyOfAClose'
  BY DEF NullOnlyOfAClose, SessionsOf
<1> QED
  BY <1>1, <1>2, <1>3, <1>4, <1>5, <1>6, <1>7

\* An answer begins with an empty map.
LEMMA ReadContactIdsKeeps ==
    ASSUME PInv, NEW c \in Sessions, ReadContactIds(c)
    PROVE  PInv'
<1> USE SessionsAssumption, StatusesAssumption
    DEF PInv, ReadContactIds, serverVars, answerVars, clientVars
<1>0. /\ up' \in [Sessions -> Seq(UpPacket)]
      /\ \A d \in Sessions : ClosesItsUser(up[d], d)'
      /\ Head(up[c]) \in UpPacket
      /\ Head(up[c]).command = "CONTACTS_STATUSES_REQUEST"
      /\ thread[c] = "serving"
  BY Served DEF Serves
<1>1. TypeOK'
  BY <1>0, Contents DEF TypeOK, StatusMap, NoEntries
<1>2. ThreadOfSession'
  BY DEF ThreadOfSession
<1>3. HasStatus'
  BY DEF HasStatus
<1>4. \A d \in Sessions : ClosesItsUser(up[d], d)'
  BY <1>0
<1>5. FoundIsThere'
  BY DEF FoundIsThere, SessionsOf
<1>6. ClosedIsForgotten'
  BY DEF ClosedIsForgotten, SessionsOf
<1>7. NullOnlyOfAClose'
  BY DEF NullOnlyOfAClose, SessionsOf, NoEntries, TypeOK
<1> QED
  BY <1>1, <1>2, <1>3, <1>4, <1>5, <1>6, <1>7

\* A key is seen while it is in the map.
LEMMA ContainsKeyKeeps ==
    ASSUME PInv, NEW c \in Sessions, ContainsKey(c)
    PROVE  PInv'
<1> USE SessionsAssumption, StatusesAssumption
    DEF PInv, ContainsKey, serverVars, answerVars, clientVars
<1> PICK k \in asked[c] :
           /\ asked' = [asked EXCEPT ![c] = @ \ {k}]
           /\ \/ /\ contactsStatuses[k] = Absent
                 /\ statuses' = [statuses EXCEPT ![c][k] = OFFLINE]
                 /\ UNCHANGED found
              \/ /\ contactsStatuses[k] # Absent
                 /\ found' = [found EXCEPT ![c] = {k}]
                 /\ UNCHANGED statuses
  OBVIOUS
<1>0. /\ k \in Users
      /\ asked \in [Sessions -> SUBSET Users]
      /\ statuses \in [Sessions -> StatusMap]
      /\ found \in [Sessions -> SUBSET Users]
  BY DEF TypeOK
<1>a. /\ statuses' \in [Sessions -> StatusMap]
      /\ \A d \in Sessions, u \in Users :
           statuses'[d][u] \in {statuses[d][u], OFFLINE}
  <2>1. CASE statuses' = [statuses EXCEPT ![c][k] = OFFLINE]
    <3> DEFINE answer == [statuses[c] EXCEPT ![k] = OFFLINE]
    <3>1. statuses' = [statuses EXCEPT ![c] = answer]
      BY <2>1
    <3>2. /\ answer \in StatusMap
          /\ \A u \in Users : answer[u] \in {statuses[c][u], OFFLINE}
      BY <1>0 DEF StatusMap
    <3> HIDE DEF answer
    <3> QED
      BY <1>0, <3>1, <3>2
  <2>2. CASE statuses' = statuses
    BY <2>2 DEF TypeOK
  <2> QED
    BY <2>1, <2>2
<1>b. /\ asked' \in [Sessions -> SUBSET Users]
      /\ found' \in [Sessions -> SUBSET Users]
      /\ \A d \in Sessions : \A u \in found'[d] :
           u \in found[d] \/ contactsStatuses[u] # Absent
  BY <1>0
<1>1. TypeOK'
  BY <1>a, <1>b DEF TypeOK
<1>2. ThreadOfSession'
  BY DEF ThreadOfSession
<1>3. HasStatus'
  BY DEF HasStatus
<1>4. \A d \in Sessions : ClosesItsUser(up[d], d)'
  BY DEF ClosesItsUser
<1>5. FoundIsThere'
  BY <1>b DEF FoundIsThere, SessionsOf
<1>6. ClosedIsForgotten'
  BY DEF ClosedIsForgotten, SessionsOf
<1>7. NullOnlyOfAClose'
  BY <1>a DEF NullOnlyOfAClose, SessionsOf
<1> QED
  BY <1>1, <1>2, <1>3, <1>4, <1>5, <1>6, <1>7

\* A null is the value of an entry that is gone since its key was seen.
LEMMA GetStatusKeeps ==
    ASSUME PInv, NEW c \in Sessions, GetStatus(c)
    PROVE  PInv'
<1> USE SessionsAssumption, StatusesAssumption
    DEF PInv, GetStatus, serverVars, answerVars, clientVars
<1> PICK k \in found[c] :
           statuses' = [statuses EXCEPT
              ![c][k] = IF contactsStatuses[k] = Absent
                        THEN Null ELSE contactsStatuses[k]]
  OBVIOUS
<1>0. /\ k \in Users
      /\ contactsStatuses[k] \in Statuses \cup {Absent}
      /\ statuses \in [Sessions -> StatusMap]
  BY DEF TypeOK
<1>a. /\ statuses' \in [Sessions -> StatusMap]
      /\ \A d \in Sessions, u \in Users :
           \/ statuses'[d][u] = statuses[d][u]
           \/ statuses'[d][u] \in Statuses
           \/ u = k /\ contactsStatuses[k] = Absent
  <2> DEFINE v == IF contactsStatuses[k] = Absent
                  THEN Null ELSE contactsStatuses[k]
             answer == [statuses[c] EXCEPT ![k] = v]
  <2>1. statuses' = [statuses EXCEPT ![c] = answer]
    OBVIOUS
  <2>2. /\ v \in Statuses \cup {Null}
        /\ v \in Statuses \/ contactsStatuses[k] = Absent
    BY <1>0
  <2> HIDE DEF v
  <2>3. /\ answer \in StatusMap
        /\ \A u \in Users : answer[u] = IF u = k THEN v ELSE statuses[c][u]
    BY <1>0, <2>2 DEF StatusMap
  <2> HIDE DEF answer
  <2> QED
    BY <1>0, <2>1, <2>2, <2>3
<1>1. TypeOK'
  BY <1>a DEF TypeOK
<1>2. ThreadOfSession'
  BY DEF ThreadOfSession
<1>3. HasStatus'
  BY DEF HasStatus
<1>4. \A d \in Sessions : ClosesItsUser(up[d], d)'
  BY DEF ClosesItsUser
<1>5. FoundIsThere'
  BY DEF FoundIsThere, SessionsOf, TypeOK
<1>6. ClosedIsForgotten'
  BY DEF ClosedIsForgotten, SessionsOf
<1>7. NullOnlyOfAClose'
  BY <1>a DEF NullOnlyOfAClose, SessionsOf, FoundIsThere
<1> QED
  BY <1>1, <1>2, <1>3, <1>4, <1>5, <1>6, <1>7

\* The answer leaves the thread.
LEMMA SendStatusesKeeps ==
    ASSUME PInv, NEW c \in Sessions, SendStatuses(c)
    PROVE  PInv'
<1> USE SessionsAssumption, StatusesAssumption
    DEF PInv, SendStatuses, serverVars, answerVars, clientVars
<1>1. TypeOK'
  <2>1. statuses \in [Sessions -> StatusMap] /\ down \in [Sessions -> Seq(StatusMap)]
    BY DEF TypeOK
  <2>2. Append(down[c], statuses[c]) \in Seq(StatusMap)
    BY <2>1, AppendProperties
  <2>3. down' \in [Sessions -> Seq(StatusMap)]
    BY <2>1, <2>2
  <2>4. statuses' \in [Sessions -> StatusMap]
    BY <2>1, NoEntriesType
  <2> QED
    BY <2>3, <2>4 DEF TypeOK
<1>2. ThreadOfSession'
  BY DEF ThreadOfSession
<1>3. HasStatus'
  BY DEF HasStatus
<1>4. \A d \in Sessions : ClosesItsUser(up[d], d)'
  BY DEF ClosesItsUser
<1>5. FoundIsThere'
  BY DEF FoundIsThere, SessionsOf
<1>6. ClosedIsForgotten'
  BY DEF ClosedIsForgotten, SessionsOf
<1>7. NullOnlyOfAClose'
  BY DEF NullOnlyOfAClose, SessionsOf, NoEntries, TypeOK
<1> QED
  BY <1>1, <1>2, <1>3, <1>4, <1>5, <1>6, <1>7

\* The entry removed is that of the session's user.
LEMMA CloseConnectionWithClientKeeps ==
    ASSUME PInv, NEW c \in Sessions, CloseConnectionWithClient(c)
    PROVE  PInv'
<1> USE SessionsAssumption, StatusesAssumption
    DEF PInv, CloseConnectionWithClient, serverVars, answerVars, clientVars
<1>0. /\ up' \in [Sessions -> Seq(UpPacket)]
      /\ \A d \in Sessions : ClosesItsUser(up[d], d)'
      /\ Head(up[c]) \in UpPacket
      /\ Head(up[c]).command = "CLOSE_CONNECTION"
      /\ thread[c] = "serving"
      /\ Head(up[c]).object = Owner[c]
  BY Served DEF Serves
<1>1. TypeOK'
  BY <1>0 DEF TypeOK
<1>2. ThreadOfSession'
  BY <1>0 DEF ThreadOfSession, TypeOK
<1>3. HasStatus'
  BY DEF HasStatus
<1>4. \A d \in Sessions : ClosesItsUser(up[d], d)'
  BY <1>0
<1>5. FoundIsThere'
  BY <1>0 DEF FoundIsThere, SessionsOf, TypeOK
<1>6. ClosedIsForgotten'
  BY <1>0 DEF ClosedIsForgotten, SessionsOf, TypeOK
<1>7. NullOnlyOfAClose'
  BY DEF NullOnlyOfAClose, SessionsOf
<1> QED
  BY <1>1, <1>2, <1>3, <1>4, <1>5, <1>6, <1>7

\* A thread that notices the end of its client leaves the map alone.
LEMMA ConnectionResetKeeps ==
    ASSUME PInv, NEW c \in Sessions, ConnectionReset(c)
    PROVE  PInv'
<1> USE SessionsAssumption, StatusesAssumption
    DEF PInv, ConnectionReset, serverVars, answerVars, clientVars
<1>1. TypeOK'
  BY DEF TypeOK
<1>2. ThreadOfSession'
  BY DEF ThreadOfSession
<1>3. HasStatus'
  BY DEF HasStatus
<1>4. \A d \in Sessions : ClosesItsUser(up[d], d)'
  BY DEF ClosesItsUser, TypeOK
<1>5. FoundIsThere'
  BY DEF FoundIsThere, SessionsOf
<1>6. ClosedIsForgotten'
  BY DEF ClosedIsForgotten, SessionsOf
<1>7. NullOnlyOfAClose'
  BY DEF NullOnlyOfAClose, SessionsOf
<1> QED
  BY <1>1, <1>2, <1>3, <1>4, <1>5, <1>6, <1>7

---------------------------------------------------------------------------
(* The theorems. *)

LEMMA InitPInv == Init => PInv
<1> SUFFICES ASSUME Init
             PROVE  PInv
  OBVIOUS
<1>1. TypeOK
  BY StatusesAssumption, MaxChangesAssumption
     DEF Init, TypeOK, StatusMap, NoEntries
<1>2. ThreadOfSession /\ \A c \in Sessions : ClosesItsUser(up[c], c)
  BY DEF Init, ThreadOfSession, ClosesItsUser
<1>4. HasStatus
  BY DEF Init, HasStatus
<1>3. FoundIsThere /\ ClosedIsForgotten /\ NullOnlyOfAClose
  BY StatusesAssumption
     DEF Init, FoundIsThere, ClosedIsForgotten, NullOnlyOfAClose, NoEntries
<1> QED
  BY <1>1, <1>2, <1>3, <1>4 DEF PInv

LEMMA NextPInv == PInv /\ [Next]_vars => PInv'
<1>1. PInv /\ UNCHANGED vars => PInv'
  BY DEF PInv, vars, serverVars, answerVars, clientVars, TypeOK,
         ThreadOfSession, HasStatus, ClosesItsUser, FoundIsThere, ClosedIsForgotten,
         NullOnlyOfAClose, SessionsOf
<1> QED
  BY <1>1, GrantedContactIdKeeps, StartRememberedKeeps, ChangeStatusKeeps,
     SendClientStatusKeeps, UpdateContactsStatusesKeeps, ReceiverStopsKeeps,
     ContactsStatusesReceivedKeeps,
     AppClosingKeeps, ClientCrashKeeps, UpdateStatusKeeps,
     ReadContactIdsKeeps, ContainsKeyKeeps, GetStatusKeeps, SendStatusesKeeps,
     CloseConnectionWithClientKeeps, ConnectionResetKeeps
     DEF Next, User, Timer, Server

\* The invariant that the following theorems rest on.
THEOREM PInvHolds == Spec => []PInv
  BY InitPInv, NextPInv, PTL DEF Spec

\* The maps, streams and sessions hold what they are meant to hold.
THEOREM PresenceTypeCorrect == Spec => []TypeOK
<1>1. PInv => TypeOK
  BY DEF PInv
<1> QED
  BY <1>1, PInvHolds, PTL

\* A user whose sessions have all been closed has no entry in the map,
\* whatever was in flight.
THEOREM LeaversAreForgotten == Spec => []ClosedIsForgotten
<1>1. PInv => ClosedIsForgotten
  BY DEF PInv
<1> QED
  BY <1>1, PInvHolds, PTL

\* A null gets into an answer only for a user one of whose sessions has been
\* closed.
THEOREM NullNeedsAClose == Spec => []NullOnlyOfAClose
<1>1. PInv => NullOnlyOfAClose
  BY DEF PInv
<1> QED
  BY <1>1, PInvHolds, PTL
==============================================================================
