------------------------- MODULE Connections_proofs -------------------------
(***************************************************************************)
(* Proofs that a server thread dies of a mixed-up packet only if a thread  *)
(* without the monitor of the client was writing, and that a standstill    *)
(* needs a dead thread or a ring of full connections, for any clients,     *)
(* unread messages, buffers and number of things begun.                    *)
(***************************************************************************)
EXTENDS Connections, SequenceTheorems, TLAPS

---------------------------------------------------------------------------
(* What the actions have in common. *)

LEMMA TailOfMore ==
    ASSUME NEW S, NEW s \in Seq(S), s # <<>>
    PROVE  /\ Head(s) \in S
           /\ Tail(s) \in Seq(S)
           /\ Len(s) > 1 => Tail(s) # <<>>
<1>1. Head(s) \in S /\ Tail(s) \in Seq(S) /\ Len(Tail(s)) = Len(s) - 1
  BY HeadTailProperties
<1>2. Len(<<>>) = 0 /\ Len(s) \in Nat
  OBVIOUS
<1>3. ASSUME Len(s) > 1
      PROVE  Tail(s) # <<>>
  <2>1. Len(Tail(s)) # Len(<<>>)
    BY <1>1, <1>2, <1>3
  <2> QED
    BY <2>1, Zenon
<1> QED
  BY <1>1, <1>3

LEMMA PacketTypes ==
    /\ \A k \in UpKinds, c \in Clients : Packet(k, c) \in UpPacket
    /\ \A k \in {"message", "answer"}, c \in Clients :
         Packet(k, c) \in DownPacket
  BY DEF Packet, UpPacket, DownPacket

\* What a server thread has to write for a packet.
LEMMA ReactionType ==
    ASSUME NEW c \in Clients, NEW p \in UpPacket
    PROVE  Reaction(c, p) \in Seq(DownPacket)
<1>1. p.to \in Clients /\ p.kind \in UpKinds
  BY DEF UpPacket
<1>2. CASE p.kind = "unread"
  <2>1. [i \in 1 .. Unread[c] |-> Packet("message", c)] \in Seq(DownPacket)
    BY UnreadAssumption, PacketTypes
  <2> QED
    BY <1>2, <2>1 DEF Reaction
<1>3. CASE p.kind = "mail"
  <2>1. <<Packet("message", p.to)>> \in Seq(DownPacket)
    BY <1>1, PacketTypes
  <2> QED
    BY <1>3, <2>1 DEF Reaction
<1>4. CASE p.kind = "ask"
  <2>1. <<Packet("answer", c)>> \in Seq(DownPacket)
    BY PacketTypes
  <2> QED
    BY <1>4, <2>1 DEF Reaction
<1>5. CASE p.kind \notin {"unread", "mail", "ask"}
  <2>1. <<>> \in Seq(DownPacket)
    OBVIOUS
  <2> QED
    BY <1>5, <2>1 DEF Reaction
<1> QED
  BY <1>2, <1>3, <1>4, <1>5

\* A thread that is at rest, or waits for a free monitor, enters writeObject.
LEMMA Enters ==
    ASSUME TypeOK, NEW c \in Clients, NEW t \in Threads,
           NEW place \in {"locked", "unlocked"}, EnterWrite(c, t, place)
    PROVE  /\ thread' \in [Clients -> [Threads -> Places]]
           /\ \A d \in Clients : d # c => thread'[d] = thread[d]
           /\ \A o \in Threads :
                thread'[c][o] = IF o = t THEN place ELSE thread[c][o]
           /\ collided' \in [Clients -> SUBSET SUBSET {"locked", "unlocked"}]
           /\ \A d \in Clients : d # c => collided'[d] = collided[d]
           /\ collided'[c] =
                collided[c] \cup {{place, thread[c][o]} : o \in Writing(c)}
<1>1. /\ thread \in [Clients -> [Threads -> Places]]
      /\ collided \in [Clients -> SUBSET SUBSET {"locked", "unlocked"}]
  BY DEF TypeOK
<1>2. place \in Places
  BY DEF Places
<1>3. \A o \in Writing(c) : {place, thread[c][o]} \in SUBSET {"locked", "unlocked"}
  BY DEF Writing
<1>4. {{place, thread[c][o]} : o \in Writing(c)}
        \in SUBSET SUBSET {"locked", "unlocked"}
  BY <1>3
<1>5. thread' = [thread EXCEPT ![c][t] = place]
  BY DEF EnterWrite
<1>6. collided' = [collided EXCEPT
                     ![c] = @ \cup {{place, thread[c][o]} : o \in Writing(c)}]
  BY DEF EnterWrite
<1>7. /\ thread' \in [Clients -> [Threads -> Places]]
      /\ \A d \in Clients : d # c => thread'[d] = thread[d]
      /\ \A o \in Threads :
           thread'[c][o] = IF o = t THEN place ELSE thread[c][o]
  BY <1>1, <1>2, <1>5
<1>8. /\ collided' \in [Clients -> SUBSET SUBSET {"locked", "unlocked"}]
      /\ \A d \in Clients : d # c => collided'[d] = collided[d]
      /\ collided'[c] =
           collided[c] \cup {{place, thread[c][o]} : o \in Writing(c)}
  BY <1>1, <1>4, <1>6
<1> QED
  BY <1>7, <1>8

---------------------------------------------------------------------------
(* The threads of a client. *)

\* Two packets of the same connection meet only if one of their writers did
\* not wait for the monitor.
LEMMA EntersSafely ==
    ASSUME CInv, NEW c \in Clients, NEW t \in Threads,
           NEW place \in {"locked", "unlocked"}, EnterWrite(c, t, place),
           place = "locked" => MonitorIsFree(c)
    PROVE  \A d \in Clients : OneInMonitor(d)' /\ MeetsUnlocked(d)'
<1> SUFFICES ASSUME NEW d \in Clients
             PROVE  OneInMonitor(d)' /\ MeetsUnlocked(d)'
  OBVIOUS
<1>1. TypeOK /\ OneInMonitor(d) /\ MeetsUnlocked(d)
  BY DEF CInv
<1>2. CASE d # c
  BY <1>1, <1>2, Enters DEF OneInMonitor, MeetsUnlocked
<1>3. CASE d = c
  <2>1. OneInMonitor(c)'
    BY <1>1, <1>3, Enters DEF OneInMonitor, MonitorIsFree
  <2>2. ASSUME NEW o \in Writing(c)
        PROVE  "unlocked" \in {place, thread[c][o]}
    BY <2>2 DEF Writing, MonitorIsFree
  <2>3. collided'[c] =
          collided[c] \cup {{place, thread[c][o]} : o \in Writing(c)}
    <3>1. collided \in [Clients -> SUBSET SUBSET {"locked", "unlocked"}]
      BY <1>1 DEF TypeOK
    <3> QED
      BY <3>1 DEF EnterWrite
  <2>4. MeetsUnlocked(c)'
    BY <1>1, <1>3, <2>2, <2>3 DEF MeetsUnlocked
  <2> QED
    BY <1>3, <2>1, <2>4
<1> QED
  BY <1>2, <1>3

LEMMA BeginLockedKeeps ==
    ASSUME CInv, NEW c \in Clients, NEW t \in Threads, BeginLocked(c, t)
    PROVE  CInv'
<1>1. TypeOK /\ EnterWrite(c, t, "locked") /\ MonitorIsFree(c)
  BY DEF CInv, BeginLocked, CanEnter
<1>2. UNCHANGED <<up, down, plan, server, todo, mixed, sends>>
  BY DEF BeginLocked, CanEnter
<1>3. TypeOK'
  BY <1>1, <1>2, Enters DEF TypeOK
<1>4. \A d \in Clients : OneInMonitor(d)' /\ MeetsUnlocked(d)'
  BY <1>1, EntersSafely
<1>5. \A d \in Clients : HasPlan(d)'
  BY <1>1, <1>2, Enters DEF CInv, HasPlan, BeginLocked, CanEnter
<1>6. \A d \in Clients : BadOfMeeting(d)'
  BY <1>1, <1>2, Enters DEF CInv, BadOfMeeting
<1> QED
  BY <1>3, <1>4, <1>5, <1>6 DEF CInv

\* What is begun has something to write.
LEMMA BeginsType ==
    ASSUME TypeOK, NEW c \in Clients, NEW t \in Threads,
           NEW packets \in Seq(UpPacket), Begins(c, t, packets)
    PROVE  /\ plan' \in [Clients -> [Threads -> Seq(UpPacket)]]
           /\ \A d \in Clients : d # c => plan'[d] = plan[d]
           /\ \A o \in Threads :
                plan'[c][o] = IF o = t THEN packets ELSE plan[c][o]
           /\ sends' \in [Clients -> Nat]
           /\ \A d \in Clients : sends'[d] <= MaxSends[d]
<1>1. /\ plan \in [Clients -> [Threads -> Seq(UpPacket)]]
      /\ sends \in [Clients -> Nat]
      /\ \A d \in Clients : sends[d] <= MaxSends[d]
      /\ MaxSends \in [Clients -> Nat]
  BY BoundsAssumption DEF TypeOK
<1>2. /\ sends[c] < MaxSends[c]
      /\ sends' = [sends EXCEPT ![c] = @ + 1]
      /\ plan' = [plan EXCEPT ![c][t] = packets]
  BY DEF Begins
<1>3. /\ plan' \in [Clients -> [Threads -> Seq(UpPacket)]]
      /\ \A d \in Clients : d # c => plan'[d] = plan[d]
      /\ \A o \in Threads :
           plan'[c][o] = IF o = t THEN packets ELSE plan[c][o]
  BY <1>1, <1>2
<1>4. /\ sends' \in [Clients -> Nat]
      /\ \A d \in Clients : sends'[d] <= MaxSends[d]
  BY <1>1, <1>2
<1> QED
  BY <1>3, <1>4

\* The thread goes to the monitor.
LEMMA BeginsAtMonitor ==
    ASSUME CInv, NEW c \in Clients, NEW t \in Threads,
           NEW packets \in Seq(UpPacket), packets # <<>>,
           Begins(c, t, packets),
           thread' = [thread EXCEPT ![c][t] = "monitor"], UNCHANGED collided
    PROVE  CInv'
<1>1. TypeOK
  BY DEF CInv
<1>2. UNCHANGED <<up, down, server, todo, mixed>>
  BY DEF Begins
<1>3. /\ thread' \in [Clients -> [Threads -> Places]]
      /\ \A d \in Clients : d # c => thread'[d] = thread[d]
      /\ \A o \in Threads :
           thread'[c][o] = IF o = t THEN "monitor" ELSE thread[c][o]
  BY <1>1 DEF TypeOK, Places
<1>4. TypeOK'
  BY <1>1, <1>2, <1>3, BeginsType DEF TypeOK
<1>5. \A d \in Clients : OneInMonitor(d)' /\ MeetsUnlocked(d)'
  BY <1>3 DEF CInv, OneInMonitor, MeetsUnlocked
<1>6. ASSUME NEW d \in Clients
      PROVE  HasPlan(d)'
  <2>1. HasPlan(d)
    BY DEF CInv
  <2>2. /\ \A o \in Threads : plan'[c][o] = IF o = t THEN packets ELSE plan[c][o]
        /\ d # c => plan'[d] = plan[d]
    BY <1>1, BeginsType
  <2> QED
    BY <1>2, <1>3, <2>1, <2>2 DEF HasPlan
<1>7. \A d \in Clients : BadOfMeeting(d)'
  BY <1>2 DEF CInv, BadOfMeeting
<1> QED
  BY <1>4, <1>5, <1>6, <1>7 DEF CInv

\* The thread writes at once, without the monitor.
LEMMA BeginsUnlocked ==
    ASSUME CInv, NEW c \in Clients, NEW t \in Threads,
           NEW packets \in Seq(UpPacket), packets # <<>>,
           Begins(c, t, packets), EnterWrite(c, t, "unlocked")
    PROVE  CInv'
<1>1. TypeOK
  BY DEF CInv
<1>2. UNCHANGED <<up, down, server, todo, mixed>>
  BY DEF Begins
<1>3. TypeOK'
  BY <1>1, <1>2, Enters, BeginsType DEF TypeOK
<1>4. \A d \in Clients : OneInMonitor(d)' /\ MeetsUnlocked(d)'
  BY EntersSafely
<1>5. ASSUME NEW d \in Clients
      PROVE  HasPlan(d)'
  <2>1. HasPlan(d)
    BY DEF CInv
  <2>2. /\ \A o \in Threads : plan'[c][o] = IF o = t THEN packets ELSE plan[c][o]
        /\ d # c => plan'[d] = plan[d]
    BY <1>1, BeginsType
  <2>3. /\ \A o \in Threads :
             thread'[c][o] = IF o = t THEN "unlocked" ELSE thread[c][o]
        /\ d # c => thread'[d] = thread[d]
    BY <1>1, Enters
  <2> QED
    BY <1>2, <2>1, <2>2, <2>3 DEF HasPlan
<1>6. \A d \in Clients : BadOfMeeting(d)'
  BY <1>1, <1>2, Enters DEF CInv, BadOfMeeting
<1> QED
  BY <1>3, <1>4, <1>5, <1>6 DEF CInv

LEMMA UserKeeps ==
    ASSUME CInv, NEW c \in Clients, User(c)
    PROVE  CInv'
<1>1. "event" \in Threads /\ "timer" \in Threads /\ "search" \in Threads
  BY DEF Threads
<1>2. ASSUME NEW d \in Clients
      PROVE  /\ Packet("note", d) \in UpPacket
             /\ Packet("ask", d) \in UpPacket
             /\ Packet("mail", d) \in UpPacket
  BY PacketTypes DEF UpKinds
<1>3. CASE ChooseStatus(c)
  <2>1. <<Packet("note", c)>> \in Seq(UpPacket)
    BY <1>2
  <2> QED
    BY <1>1, <1>3, <2>1, BeginsAtMonitor DEF ChooseStatus
<1>4. CASE TimerFires(c)
  <2>1. <<Packet("note", c), Packet("ask", c)>> \in Seq(UpPacket)
    BY <1>2
  <2> QED
    BY <1>1, <1>4, <2>1, BeginsAtMonitor DEF TimerFires
<1>5. CASE SendMessage(c)
  <2>1. PICK d \in Clients : /\ Begins(c, "event", <<Packet("mail", d)>>)
                             /\ EnterWrite(c, "event", "unlocked")
    BY <1>5 DEF SendMessage
  <2>2. <<Packet("mail", d)>> \in Seq(UpPacket)
    BY <1>2
  <2> QED
    BY <1>1, <2>1, <2>2, BeginsUnlocked
<1>6. CASE SendRequest(c)
  <2>1. <<Packet("ask", c)>> \in Seq(UpPacket)
    BY <1>2
  <2> QED
    BY <1>1, <1>6, <2>1, BeginsUnlocked DEF SendRequest
<1>7. CASE SearchTaskWrites(c)
  <2>1. <<Packet("ask", c)>> \in Seq(UpPacket)
    BY <1>2
  <2> QED
    BY <1>1, <1>7, <2>1, BeginsUnlocked DEF SearchTaskWrites
<1> QED
  BY <1>3, <1>4, <1>5, <1>6, <1>7 DEF User

LEMMA FinishWriteKeeps ==
    ASSUME CInv, NEW c \in Clients, NEW t \in Threads, FinishWrite(c, t)
    PROVE  CInv'
<1> DEFINE packet == [packet |-> Head(plan[c][t]), bad |-> collided[c] # {}]
           place == IF Len(plan[c][t]) > 1 THEN "monitor" ELSE "rest"
<1>1. TypeOK /\ HasPlan(c) /\ BadOfMeeting(c)
  BY DEF CInv
<1>2. /\ t \in Writing(c)
      /\ Len(up[c]) < Capacity
      /\ up' = [up EXCEPT ![c] = Append(@, packet)]
      /\ plan' = [plan EXCEPT ![c][t] = Tail(@)]
      /\ thread' = [thread EXCEPT ![c][t] = place]
      /\ UNCHANGED <<down, server, todo, collided, mixed, sends>>
  BY DEF FinishWrite, CanFinishWrite
<1>3. plan[c][t] \in Seq(UpPacket) /\ plan[c][t] # <<>>
  BY <1>1, <1>2 DEF TypeOK, HasPlan, Writing
<1>4. packet \in OnStream(UpPacket)
  BY <1>3 DEF OnStream
<1>5. /\ Append(up[c], packet) \in Seq(OnStream(UpPacket))
      /\ Len(Append(up[c], packet)) = Len(up[c]) + 1
      /\ \A i \in DOMAIN Append(up[c], packet) :
           \/ i \in DOMAIN up[c] /\ Append(up[c], packet)[i] = up[c][i]
           \/ Append(up[c], packet)[i] = packet
  BY <1>1, <1>4, AppendProperties DEF TypeOK
<1>6. /\ Tail(plan[c][t]) \in Seq(UpPacket)
      /\ Len(plan[c][t]) > 1 => Tail(plan[c][t]) # <<>>
  BY <1>3, TailOfMore
<1> HIDE DEF packet
<1>7. /\ plan' \in [Clients -> [Threads -> Seq(UpPacket)]]
      /\ \A d \in Clients : d # c => plan'[d] = plan[d]
      /\ \A o \in Threads :
           plan'[c][o] = IF o = t THEN Tail(plan[c][t]) ELSE plan[c][o]
  BY <1>1, <1>2, <1>6 DEF TypeOK
<1>8. /\ thread' \in [Clients -> [Threads -> Places]]
      /\ \A d \in Clients : d # c => thread'[d] = thread[d]
      /\ \A o \in Threads :
           thread'[c][o] = IF o = t THEN place ELSE thread[c][o]
  BY <1>1, <1>2 DEF TypeOK, Places
<1>9. /\ up' \in [Clients -> Seq(OnStream(UpPacket))]
      /\ \A d \in Clients : d # c => up'[d] = up[d]
      /\ up'[c] = Append(up[c], packet)
  BY <1>1, <1>2, <1>5 DEF TypeOK
<1>10. \A d \in Clients : Len(up'[d]) <= Capacity
  <2>1. \A d \in Clients : Len(up[d]) <= Capacity /\ Len(up[d]) \in Nat
    BY <1>1 DEF TypeOK
  <2> QED
    BY <1>2, <1>5, <1>9, <2>1, BoundsAssumption
<1>11. TypeOK'
  BY <1>1, <1>2, <1>7, <1>8, <1>9, <1>10 DEF TypeOK
<1>12. ASSUME NEW d \in Clients
       PROVE  HasPlan(d)'
  <2>1. HasPlan(d)
    BY DEF CInv
  <2> QED
    BY <1>2, <1>6, <1>7, <1>8, <2>1 DEF HasPlan
<1>13. \A d \in Clients : OneInMonitor(d)' /\ MeetsUnlocked(d)'
  BY <1>2, <1>8 DEF CInv, OneInMonitor, MeetsUnlocked
<1>14. ASSUME NEW d \in Clients
       PROVE  BadOfMeeting(d)'
  <2>1. BadOfMeeting(d)
    BY DEF CInv
  <2>2. packet.bad = (collided[c] # {})
    BY DEF packet
  <2> QED
    BY <1>2, <1>5, <1>9, <2>1, <2>2 DEF BadOfMeeting
<1> QED
  BY <1>11, <1>12, <1>13, <1>14 DEF CInv

LEMMA ReceivePacketKeeps ==
    ASSUME CInv, NEW c \in Clients, ReceivePacket(c) \/ ReceiverDies(c)
    PROVE  CInv'
<1>1. TypeOK /\ "receiver" \in Threads
  BY DEF CInv, Threads
<1>2. /\ thread[c]["receiver"] = "rest"
      /\ down[c] # <<>>
      /\ down' = [down EXCEPT ![c] = Tail(@)]
      /\ UNCHANGED <<up, server, todo, collided, mixed, sends>>
  BY DEF ReceivePacket, ReceiverDies, CanReceive
<1>3. /\ down' \in [Clients -> Seq(OnStream(DownPacket))]
      /\ \A d \in Clients : Len(down'[d]) <= Capacity
  <2>1. /\ down[c] \in Seq(OnStream(DownPacket))
        /\ Len(down[c]) <= Capacity
        /\ Capacity \in Nat
    BY <1>1, BoundsAssumption DEF TypeOK
  <2>2. /\ Tail(down[c]) \in Seq(OnStream(DownPacket))
        /\ Len(Tail(down[c])) <= Capacity
    BY <1>2, <2>1
  <2> QED
    BY <1>1, <1>2, <2>2 DEF TypeOK
<1>4. /\ plan' \in [Clients -> [Threads -> Seq(UpPacket)]]
      /\ thread' \in [Clients -> [Threads -> Places]]
      /\ \A d \in Clients, o \in Threads :
           \/ thread'[d][o] = thread[d][o] /\ plan'[d][o] = plan[d][o]
           \/ thread'[d][o] = "monitor" /\ plan'[d][o] # <<>>
           \/ thread'[d][o] = "dead"
  <2>1. /\ plan \in [Clients -> [Threads -> Seq(UpPacket)]]
        /\ thread \in [Clients -> [Threads -> Places]]
    BY <1>1 DEF TypeOK
  <2>2. CASE UNCHANGED <<thread, plan>>
    BY <2>1, <2>2
  <2>3. CASE /\ thread' = [thread EXCEPT ![c]["receiver"] = "monitor"]
             /\ plan' = [plan EXCEPT ![c]["receiver"] =
                                       <<Packet("confirm", c)>>]
    <3>1. /\ <<Packet("confirm", c)>> \in Seq(UpPacket)
          /\ <<Packet("confirm", c)>> # <<>>
      BY PacketTypes DEF UpKinds
    <3> HIDE DEF Packet
    <3>2. /\ plan' \in [Clients -> [Threads -> Seq(UpPacket)]]
          /\ \A d \in Clients, o \in Threads :
               plan'[d][o] = IF d = c /\ o = "receiver"
                             THEN <<Packet("confirm", c)>> ELSE plan[d][o]
      BY <1>1, <2>1, <2>3, <3>1
    <3>3. /\ thread' \in [Clients -> [Threads -> Places]]
          /\ \A d \in Clients, o \in Threads :
               thread'[d][o] = IF d = c /\ o = "receiver"
                               THEN "monitor" ELSE thread[d][o]
      BY <1>1, <2>1, <2>3 DEF Places
    <3> QED
      BY <3>1, <3>2, <3>3
  <2>4. CASE thread' = [thread EXCEPT ![c]["receiver"] = "dead"] /\ plan' = plan
    BY <1>1, <2>1, <2>4 DEF Places
  <2> QED
    BY <2>2, <2>3, <2>4 DEF ReceivePacket, ReceiverDies, CanReceive
<1>5. TypeOK'
  BY <1>1, <1>2, <1>3, <1>4 DEF TypeOK
<1>6. ASSUME NEW d \in Clients
      PROVE  HasPlan(d)' /\ OneInMonitor(d)' /\ MeetsUnlocked(d)'
                         /\ BadOfMeeting(d)'
  <2>1. HasPlan(d) /\ OneInMonitor(d) /\ MeetsUnlocked(d) /\ BadOfMeeting(d)
    BY DEF CInv
  <2>2. HasPlan(d)'
    BY <1>2, <1>4, <2>1 DEF HasPlan
  <2>3. OneInMonitor(d)'
    BY <1>4, <2>1 DEF OneInMonitor
  <2>4. MeetsUnlocked(d)' /\ BadOfMeeting(d)'
    BY <1>2, <2>1 DEF MeetsUnlocked, BadOfMeeting
  <2> QED
    BY <2>2, <2>3, <2>4
<1> QED
  BY <1>5, <1>6 DEF CInv

---------------------------------------------------------------------------
(* The server thread of a connection. *)

\* What is left in the buffers to the server after the first packet.
LEMMA UpShrinks ==
    ASSUME TypeOK, NEW c \in Clients, up[c] # <<>>,
           up' = [up EXCEPT ![c] = Tail(@)]
    PROVE  /\ Head(up[c]) \in OnStream(UpPacket)
           /\ up' \in [Clients -> Seq(OnStream(UpPacket))]
           /\ \A d \in Clients : Len(up'[d]) <= Capacity
           /\ \A d \in Clients :
                (\E i \in DOMAIN up'[d] : up'[d][i].bad)
                    => \E i \in DOMAIN up[d] : up[d][i].bad
<1>1. /\ up[c] \in Seq(OnStream(UpPacket))
      /\ Len(up[c]) <= Capacity
      /\ Capacity \in Nat
  BY BoundsAssumption DEF TypeOK
<1>2. /\ Head(up[c]) \in OnStream(UpPacket)
      /\ Tail(up[c]) \in Seq(OnStream(UpPacket))
      /\ Len(Tail(up[c])) = Len(up[c]) - 1
      /\ \A i \in 1 .. Len(Tail(up[c])) :
           i + 1 \in 1 .. Len(up[c]) /\ Tail(up[c])[i] = up[c][i + 1]
  BY <1>1, HeadTailProperties
<1>3. \A d \in Clients : up'[d] = IF d = c THEN Tail(up[c]) ELSE up[d]
  BY DEF TypeOK
<1>4. /\ up' \in [Clients -> Seq(OnStream(UpPacket))]
      /\ \A d \in Clients : Len(up'[d]) <= Capacity
  <2>1. Len(Tail(up[c])) <= Capacity
    BY <1>1, <1>2
  <2> QED
    BY <1>2, <1>3, <2>1 DEF TypeOK
<1>5. /\ DOMAIN Tail(up[c]) = 1 .. Len(Tail(up[c]))
      /\ DOMAIN up[c] = 1 .. Len(up[c])
  BY <1>1, <1>2
<1>6. (\E i \in DOMAIN Tail(up[c]) : Tail(up[c])[i].bad)
        => \E i \in DOMAIN up[c] : up[c][i].bad
  BY <1>2, <1>5
<1> QED
  BY <1>2, <1>3, <1>4, <1>6

LEMMA ReadPacketKeeps ==
    ASSUME CInv, NEW c \in Clients, ReadPacket(c)
    PROVE  CInv'
<1>1. TypeOK
  BY DEF CInv
<1>2. /\ up[c] # <<>>
      /\ up' = [up EXCEPT ![c] = Tail(@)]
      /\ todo' = [todo EXCEPT ![c] = Reaction(c, Head(up[c]).packet)]
      /\ server' = [server EXCEPT ![c] = IF todo'[c] = <<>> THEN "read"
                                                            ELSE "write"]
      /\ UNCHANGED <<down, thread, plan, collided, mixed, sends>>
  BY DEF ReadPacket, CanRead
<1>3. Reaction(c, Head(up[c]).packet) \in Seq(DownPacket)
  BY <1>1, <1>2, UpShrinks, ReactionType DEF OnStream
<1>4. /\ todo' \in [Clients -> Seq(DownPacket)]
      /\ \A d \in Clients : d # c => todo'[d] = todo[d]
  BY <1>1, <1>2, <1>3 DEF TypeOK
<1>5. /\ server' \in [Clients -> {"read", "write", "writing", "dead"}]
      /\ \A d \in Clients : d # c => server'[d] = server[d]
      /\ server'[c] \in {"read", "write"}
      /\ server'[c] = "write" => todo'[c] # <<>>
  BY <1>1, <1>2 DEF TypeOK
<1>6. TypeOK'
  BY <1>1, <1>2, <1>4, <1>5, UpShrinks DEF TypeOK
<1>7. ASSUME NEW d \in Clients
      PROVE  HasPlan(d)' /\ OneInMonitor(d)' /\ MeetsUnlocked(d)'
                         /\ BadOfMeeting(d)'
  <2>1. HasPlan(d) /\ OneInMonitor(d) /\ MeetsUnlocked(d) /\ BadOfMeeting(d)
    BY DEF CInv
  <2>2. HasPlan(d)'
    BY <1>2, <1>4, <1>5, <2>1 DEF HasPlan
  <2>3. OneInMonitor(d)' /\ MeetsUnlocked(d)'
    BY <1>2, <2>1 DEF OneInMonitor, MeetsUnlocked
  <2>4. BadOfMeeting(d)'
    BY <1>1, <1>2, <1>5, <2>1, UpShrinks DEF BadOfMeeting
  <2> QED
    BY <2>2, <2>3, <2>4
<1> QED
  BY <1>6, <1>7 DEF CInv

LEMMA ServerDiesKeeps ==
    ASSUME CInv, NEW c \in Clients, ServerDies(c)
    PROVE  CInv'
<1>1. TypeOK
  BY DEF CInv
<1>2. /\ up[c] # <<>>
      /\ Head(up[c]).bad
      /\ up' = [up EXCEPT ![c] = Tail(@)]
      /\ server' = [server EXCEPT ![c] = "dead"]
      /\ UNCHANGED <<down, thread, plan, todo, collided, mixed, sends>>
  BY DEF ServerDies, CanRead
<1>3. /\ server' \in [Clients -> {"read", "write", "writing", "dead"}]
      /\ \A d \in Clients : d # c => server'[d] = server[d]
      /\ server'[c] = "dead"
  BY <1>1, <1>2 DEF TypeOK
<1>4. TypeOK'
  BY <1>1, <1>2, <1>3, UpShrinks DEF TypeOK
<1>5. \E i \in DOMAIN up[c] : up[c][i].bad
  <2>1. up[c] \in Seq(OnStream(UpPacket))
    BY <1>1 DEF TypeOK
  <2>2. 1 \in DOMAIN up[c] /\ up[c][1] = Head(up[c])
    BY <1>2, <2>1
  <2> QED
    BY <1>2, <2>2
<1>6. ASSUME NEW d \in Clients
      PROVE  HasPlan(d)' /\ OneInMonitor(d)' /\ MeetsUnlocked(d)'
                         /\ BadOfMeeting(d)'
  <2>1. HasPlan(d) /\ OneInMonitor(d) /\ MeetsUnlocked(d) /\ BadOfMeeting(d)
    BY DEF CInv
  <2>2. HasPlan(d)'
    BY <1>2, <1>3, <2>1 DEF HasPlan
  <2>3. OneInMonitor(d)' /\ MeetsUnlocked(d)'
    BY <1>2, <2>1 DEF OneInMonitor, MeetsUnlocked
  <2>4. BadOfMeeting(d)'
    BY <1>1, <1>2, <1>3, <1>5, <2>1, UpShrinks DEF BadOfMeeting
  <2> QED
    BY <2>2, <2>3, <2>4
<1> QED
  BY <1>4, <1>6 DEF CInv

LEMMA AnswerKeeps ==
    ASSUME CInv, NEW c \in Clients, BeginAnswer(c) \/ FinishAnswer(c)
    PROVE  CInv'
<1>1. TypeOK /\ HasPlan(c)
  BY DEF CInv
<1>2. UNCHANGED <<up, thread, plan, collided, sends>>
  BY DEF BeginAnswer, FinishAnswer, CanFinishAnswer
<1>3. /\ server \in [Clients -> {"read", "write", "writing", "dead"}]
      /\ todo[c] \in Seq(DownPacket) /\ todo[c] # <<>>
      /\ todo \in [Clients -> Seq(DownPacket)]
      /\ server[c] \in {"write", "writing"}
  BY <1>1 DEF BeginAnswer, FinishAnswer, TypeOK, HasPlan, CanFinishAnswer
<1>4. /\ Tail(todo[c]) \in Seq(DownPacket)
      /\ Len(todo[c]) > 1 => Tail(todo[c]) # <<>>
      /\ Head(todo[c]) \in DownPacket
  BY <1>3, TailOfMore
<1>5. /\ server' \in [Clients -> {"read", "write", "writing", "dead"}]
      /\ todo' \in [Clients -> Seq(DownPacket)]
      /\ \A d \in Clients :
           d # c => server'[d] = server[d] /\ todo'[d] = todo[d]
      /\ server'[c] \in {"read", "write", "writing"}
      /\ server'[c] # "read" => todo'[c] # <<>>
  <2>1. CASE BeginAnswer(c)
    BY <1>3, <2>1 DEF BeginAnswer
  <2>2. CASE FinishAnswer(c)
    BY <1>3, <1>4, <2>2 DEF FinishAnswer, CanFinishAnswer
  <2> QED
    BY <2>1, <2>2
<1>6. mixed' \in SUBSET Clients
  <2>1. Head(todo[c]).to \in Clients
    BY <1>4 DEF DownPacket
  <2> QED
    BY <1>1, <2>1 DEF TypeOK, BeginAnswer, FinishAnswer, CanFinishAnswer
<1>7. /\ down' \in [Clients -> Seq(OnStream(DownPacket))]
      /\ \A d \in Clients : Len(down'[d]) <= Capacity
  <2> DEFINE p == Head(todo[c])
             sent == [packet |-> p, bad |-> p.to \in mixed]
  <2>1. CASE BeginAnswer(c)
    BY <1>1, <2>1 DEF BeginAnswer, TypeOK
  <2>2. CASE FinishAnswer(c)
    <3>1. /\ p.to \in Clients
          /\ sent \in OnStream(DownPacket)
          /\ Len(down[p.to]) < Capacity
          /\ down' = [down EXCEPT ![p.to] = Append(@, sent)]
      BY <1>4, <2>2 DEF FinishAnswer, OnStream, DownPacket, CanFinishAnswer
    <3> HIDE DEF p, sent
    <3>2. /\ Append(down[p.to], sent) \in Seq(OnStream(DownPacket))
          /\ Len(Append(down[p.to], sent)) = Len(down[p.to]) + 1
          /\ Len(down[p.to]) \in Nat
          /\ Capacity \in Nat
      BY <1>1, <3>1, AppendProperties, BoundsAssumption DEF TypeOK
    <3>3. Len(Append(down[p.to], sent)) <= Capacity
      BY <3>1, <3>2
    <3> QED
      BY <1>1, <3>1, <3>2, <3>3 DEF TypeOK
  <2> QED
    BY <2>1, <2>2
<1>8. TypeOK'
  BY <1>1, <1>2, <1>5, <1>6, <1>7 DEF TypeOK
<1>9. ASSUME NEW d \in Clients
      PROVE  HasPlan(d)' /\ OneInMonitor(d)' /\ MeetsUnlocked(d)'
                         /\ BadOfMeeting(d)'
  <2>1. HasPlan(d) /\ OneInMonitor(d) /\ MeetsUnlocked(d) /\ BadOfMeeting(d)
    BY DEF CInv
  <2>2. HasPlan(d)'
    BY <1>2, <1>5, <2>1 DEF HasPlan
  <2>3. OneInMonitor(d)' /\ MeetsUnlocked(d)'
    BY <1>2, <2>1 DEF OneInMonitor, MeetsUnlocked
  <2>4. BadOfMeeting(d)'
    BY <1>2, <1>5, <2>1 DEF BadOfMeeting
  <2> QED
    BY <2>2, <2>3, <2>4
<1> QED
  BY <1>8, <1>9 DEF CInv

---------------------------------------------------------------------------
(* The theorems. *)

LEMMA InitCInv == Init => CInv
<1> SUFFICES ASSUME Init
             PROVE  CInv
  OBVIOUS
<1>1. ASSUME NEW c \in Clients
      PROVE  <<[packet |-> Packet("unread", c), bad |-> FALSE]>>
               \in Seq(OnStream(UpPacket))
  <2>1. Packet("unread", c) \in UpPacket
    BY PacketTypes DEF UpKinds
  <2> QED
    BY <2>1 DEF OnStream
<1>2. TypeOK
  BY <1>1, BoundsAssumption DEF Init, TypeOK, Places
<1>3. ASSUME NEW c \in Clients
      PROVE  HasPlan(c) /\ OneInMonitor(c) /\ MeetsUnlocked(c)
                        /\ BadOfMeeting(c)
  BY DEF Init, HasPlan, OneInMonitor, MeetsUnlocked, BadOfMeeting
<1> QED
  BY <1>2, <1>3 DEF CInv

LEMMA NextCInv == CInv /\ [Next]_vars => CInv'
<1> SUFFICES ASSUME CInv, [Next]_vars
             PROVE  CInv'
  OBVIOUS
<1>1. CASE UNCHANGED vars
  BY <1>1
     DEF vars, CInv, TypeOK, HasPlan, OneInMonitor, MeetsUnlocked,
         BadOfMeeting
<1>2. ASSUME NEW c \in Clients, User(c)
      PROVE  CInv'
  BY <1>2, UserKeeps
<1>3. ASSUME NEW c \in Clients, Works(c)
      PROVE  CInv'
  BY <1>3, BeginLockedKeeps, FinishWriteKeeps, ReceivePacketKeeps,
     ReadPacketKeeps, AnswerKeeps
     DEF Works
<1>4. ASSUME NEW c \in Clients, Dies(c)
      PROVE  CInv'
  BY <1>4, ReceivePacketKeeps, ServerDiesKeeps DEF Dies
<1> QED
  BY <1>1, <1>2, <1>3, <1>4 DEF Next

\* The invariant that the following theorem rests on holds in every reachable
\* state, whatever the clients, the mail that waits and the buffers.
THEOREM CInvHolds == Spec => []CInv
<1> QED
  BY InitCInv, NextCInv, PTL DEF Spec

\* Streams, buffers and threads hold what they are meant to hold.
THEOREM ConnectionsTypeCorrect == Spec => []TypeOK
<1>1. CInv => TypeOK
  BY DEF CInv
<1> QED
  BY <1>1, CInvHolds, PTL

\* A server thread dies of a packet only if two threads of its client met on
\* the stream and one of them had not taken the monitor: the synchronized
\* methods of Client never spoil the stream among themselves.
THEOREM OnlyUnlockedWritesKill == Spec => []ServerDiesOfUnlockedWrite
<1>1. CInv => ServerDiesOfUnlockedWrite
  <2> SUFFICES ASSUME CInv, NEW c \in Clients, server[c] = "dead"
               PROVE  \E ways \in collided[c] : "unlocked" \in ways
    BY DEF ServerDiesOfUnlockedWrite
  <2>1. MeetsUnlocked(c) /\ BadOfMeeting(c)
    BY DEF CInv
  <2> QED
    BY <2>1 DEF MeetsUnlocked, BadOfMeeting
<1> QED
  BY <1>1, CInvHolds, PTL

---------------------------------------------------------------------------
(* What a standstill is. *)

\* If a thread of a client waits and nothing of the client moves, the server
\* does not read what the client writes.
LEMMA WaitingClientIsBlocked ==
    ASSUME CInv, NEW c \in Clients, ~CanWork(c),
           NEW t \in Threads, thread[c][t] \in {"monitor", "locked", "unlocked"}
    PROVE  /\ UpIsBlocked(c)
           /\ server[c] \in {"dead", "writing"}
<1>1. /\ up[c] \in Seq(OnStream(UpPacket)) /\ Len(up[c]) <= Capacity
      /\ server[c] \in {"read", "write", "writing", "dead"}
  BY DEF CInv, TypeOK
<1>2. Writing(c) # {}
  <2>1. CASE thread[c][t] = "monitor"
    <3>1. ~MonitorIsFree(c)
      BY <2>1 DEF CanWork, CanEnter
    <3> QED
      BY <3>1 DEF MonitorIsFree, Writing
  <2>2. CASE thread[c][t] # "monitor"
    BY <2>2 DEF Writing
  <2> QED
    BY <2>1, <2>2
<1>3. Len(up[c]) = Capacity
  <2>1. ~(Len(up[c]) < Capacity)
    BY <1>2 DEF CanWork, CanFinishWrite, Writing
  <2> QED
    BY <1>1, <2>1, BoundsAssumption
<1>4. up[c] # <<>>
  BY <1>3, BoundsAssumption
<1>5. server[c] # "read" /\ server[c] # "write"
  BY <1>4 DEF CanWork, CanRead
<1> QED
  BY <1>1, <1>3, <1>5 DEF UpIsBlocked

\* If a server thread is in a write and nothing moves, the client it writes to
\* does not read: its receiver thread is dead or waits itself.
LEMMA WaitingServerIsBlocked ==
    ASSUME CInv, \A c \in Clients : ~CanWork(c),
           NEW c \in Clients, server[c] = "writing",
           NEW d, d = Head(todo[c]).to
    PROVE  /\ d \in Clients
           /\ DownIsBlocked(d)
           /\ thread[d]["receiver"] \in {"dead", "monitor", "locked", "unlocked"}
<1>1. d \in Clients
  <2>1. todo[c] \in Seq(DownPacket) /\ todo[c] # <<>>
    BY DEF CInv, TypeOK, HasPlan
  <2>2. Head(todo[c]) \in DownPacket
    BY <2>1, HeadTailProperties
  <2> QED
    BY <2>2 DEF DownPacket
<1>2. /\ down[d] \in Seq(OnStream(DownPacket)) /\ Len(down[d]) <= Capacity
      /\ thread[d]["receiver"] \in Places
  BY <1>1 DEF CInv, TypeOK, Threads
<1>3. Len(down[d]) = Capacity
  <2>1. ~(Len(down[d]) < Capacity)
    BY DEF CanWork, CanFinishAnswer
  <2> QED
    BY <1>2, <2>1, BoundsAssumption
<1>4. down[d] # <<>>
  BY <1>3, BoundsAssumption
<1>5. thread[d]["receiver"] # "rest"
  BY <1>1, <1>4 DEF CanWork, CanReceive
<1> QED
  BY <1>1, <1>2, <1>3, <1>5 DEF DownIsBlocked, Places

\* Two such steps close the ring.
LEMMA WritingServerIsInRing ==
    ASSUME CInv, \A c \in Clients : ~CanWork(c),
           NEW c \in Clients, server[c] = "writing"
    PROVE  \/ \E d \in Clients :
                DownIsBlocked(d) /\ thread[d]["receiver"] = "dead"
           \/ \E d \in Clients : /\ Head(todo[c]).to = d
                                 /\ DownIsBlocked(d) /\ UpIsBlocked(d)
<1>1. PICK d : d = Head(todo[c]).to
  OBVIOUS
<1>2. /\ d \in Clients
      /\ DownIsBlocked(d)
      /\ thread[d]["receiver"] \in {"dead", "monitor", "locked", "unlocked"}
  BY <1>1, WaitingServerIsBlocked
<1>3. CASE thread[d]["receiver"] = "dead"
  BY <1>2, <1>3
<1>4. CASE thread[d]["receiver"] # "dead"
  <2>1. "receiver" \in Threads
    BY DEF Threads
  <2>2. UpIsBlocked(d)
    BY <1>2, <1>4, <2>1, WaitingClientIsBlocked
  <2> QED
    BY <1>1, <1>2, <2>2
<1> QED
  BY <1>3, <1>4

\* However many clients there are and whatever the buffers hold: if nothing
\* moves although a thread waits, a thread of a full connection is dead, or a
\* server thread waits for a client that does not read because it waits for its
\* own server thread (Server.passMessage, sendUnreadedMessages against
\* Client.handleReceivedMessage).  The monitor alone stops nothing.
THEOREM OnlyARingStandsStill == Spec => []StandstillIsARing
<1>1. ASSUME CInv
      PROVE  StandstillIsARing
  <2> SUFFICES ASSUME NEW c \in Clients, Waits(c),
                      \A x \in Clients : ~CanWork(x)
               PROVE  \/ \E x \in Clients : UpIsBlocked(x) /\ server[x] = "dead"
                      \/ \E x \in Clients :
                           DownIsBlocked(x) /\ thread[x]["receiver"] = "dead"
                      \/ \E x, d \in Clients :
                           /\ server[x] = "writing" /\ Head(todo[x]).to = d
                           /\ DownIsBlocked(d) /\ UpIsBlocked(d)
    BY DEF StandstillIsARing
  <2>1. CASE server[c] = "writing"
    BY <1>1, <2>1, WritingServerIsInRing
  <2>2. CASE server[c] # "writing"
    <3>1. PICK t \in Threads : thread[c][t] \in {"monitor", "locked", "unlocked"}
      BY <2>2 DEF Waits
    <3>2. UpIsBlocked(c) /\ server[c] = "dead"
      BY <1>1, <2>2, <3>1, WaitingClientIsBlocked
    <3> QED
      BY <3>2
  <2> QED
    BY <2>1, <2>2
<1> QED
  BY <1>1, CInvHolds, PTL

=============================================================================
