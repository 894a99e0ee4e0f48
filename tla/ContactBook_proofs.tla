-------------------------- MODULE ContactBook_proofs --------------------------
(***************************************************************************)
(* Proofs about the contact list of a signed-in user, for any contacts and *)
(* any number of requests.                                                 *)
(***************************************************************************)
EXTENDS ContactBook, SequenceTheorems, FiniteSetTheorems, TLAPS

---------------------------------------------------------------------------
(* Packets in a stream, by their kind. *)

\* A packet that is written comes last.
LEMMA Written ==
    ASSUME NEW S, NEW s \in Seq(S), NEW e \in S, NEW t, t = Append(s, e)
    PROVE  /\ t \in Seq(S)
           /\ DOMAIN t = DOMAIN s \cup {Len(s) + 1}
           /\ Len(s) + 1 \notin DOMAIN s
           /\ \A i \in DOMAIN s : t[i] = s[i] /\ i < Len(s) + 1
           /\ t[Len(s) + 1] = e
           /\ DOMAIN s \subseteq Nat
<1>1. /\ t \in Seq(S)
      /\ Len(t) = Len(s) + 1
      /\ \A i \in 1 .. Len(s) : t[i] = s[i]
      /\ t[Len(s) + 1] = e
  BY AppendProperties
<1>2. DOMAIN s = 1 .. Len(s) /\ DOMAIN t = 1 .. Len(t) /\ Len(s) \in Nat
  BY <1>1
<1> QED
  BY <1>1, <1>2

\* The packet that is read was the first.
LEMMA Read ==
    ASSUME NEW S, NEW s \in Seq(S), s # <<>>, NEW t, t = Tail(s)
    PROVE  /\ t \in Seq(S)
           /\ Head(s) \in S
           /\ 1 \in DOMAIN s /\ s[1] = Head(s)
           /\ \A i \in DOMAIN t : i + 1 \in DOMAIN s /\ t[i] = s[i + 1]
           /\ \A i \in DOMAIN s \ {1} : i - 1 \in DOMAIN t /\ t[i - 1] = s[i]
           /\ DOMAIN s \subseteq Nat /\ DOMAIN t \subseteq Nat \ {0}
<1>1. /\ t \in Seq(S)
      /\ Head(s) \in S
      /\ Len(t) = Len(s) - 1
      /\ \A i \in 1 .. Len(t) : t[i] = s[i + 1]
  BY HeadTailProperties
<1>2. /\ DOMAIN s = 1 .. Len(s) /\ DOMAIN t = 1 .. Len(t)
      /\ Len(s) \in Nat \ {0}
      /\ s[1] = Head(s)
  BY <1>1
<1>3. ASSUME NEW i \in DOMAIN s \ {1}
      PROVE  i - 1 \in DOMAIN t /\ t[i - 1] = s[i]
  <2>1. i - 1 \in 1 .. Len(t) /\ (i - 1) + 1 = i
    BY <1>1, <1>2
  <2> QED
    BY <1>1, <1>2, <2>1
<1>4. \A i \in DOMAIN t : i + 1 \in DOMAIN s /\ t[i] = s[i + 1]
  BY <1>1, <1>2
<1> QED
  BY <1>1, <1>2, <1>3, <1>4

LEMMA OfKindIsFinite ==
    ASSUME NEW S, NEW s \in Seq(S), NEW kind
    PROVE  /\ IsFiniteSet(OfKind(s, kind))
           /\ Cardinality(OfKind(s, kind)) \in Nat
<1>1. IsFiniteSet(1 .. Len(s))
  BY FS_Interval
<1>2. OfKind(s, kind) \subseteq 1 .. Len(s)
  BY DEF OfKind
<1> QED
  BY <1>1, <1>2, FS_Subset, FS_CardinalityType

LEMMA WrittenOfKind ==
    ASSUME NEW S, NEW s \in Seq(S), NEW e \in S, NEW kind
    PROVE  LET t == Append(s, e)
           IN  /\ e.command = kind =>
                    Cardinality(OfKind(t, kind)) = Cardinality(OfKind(s, kind)) + 1
               /\ e.command # kind =>
                    Cardinality(OfKind(t, kind)) = Cardinality(OfKind(s, kind))
<1> DEFINE t == Append(s, e)
<1>1. /\ DOMAIN t = DOMAIN s \cup {Len(s) + 1}
      /\ Len(s) + 1 \notin DOMAIN s
      /\ \A i \in DOMAIN s : t[i] = s[i]
      /\ t[Len(s) + 1] = e
  BY Written
<1>2. /\ IsFiniteSet(OfKind(s, kind))
      /\ Cardinality(OfKind(s, kind)) \in Nat
  BY OfKindIsFinite
<1> HIDE DEF t
<1>3. CASE e.command = kind
  <2>1. /\ OfKind(t, kind) = OfKind(s, kind) \cup {Len(s) + 1}
        /\ Len(s) + 1 \notin OfKind(s, kind)
    BY <1>1, <1>3 DEF OfKind
  <2>2. Cardinality(OfKind(t, kind)) = Cardinality(OfKind(s, kind)) + 1
    BY <1>2, <2>1, FS_AddElement
  <2> QED
    BY <1>3, <2>2 DEF t
<1>4. CASE e.command # kind
  <2>1. OfKind(t, kind) = OfKind(s, kind)
    BY <1>1, <1>4 DEF OfKind
  <2> QED
    BY <1>4, <2>1 DEF t
<1> QED
  BY <1>3, <1>4

LEMMA ReadOfKind ==
    ASSUME NEW S, NEW s \in Seq(S), s # <<>>, NEW t, t = Tail(s), NEW kind
    PROVE  Cardinality(OfKind(s, kind)) =
             Cardinality(OfKind(t, kind))
               + IF Head(s).command = kind THEN 1 ELSE 0
<1> DEFINE old == OfKind(s, kind)
           new == OfKind(t, kind)
           rest == old \ {1}
           next == [i \in new |-> i + 1]
<1>1. /\ t \in Seq(S)
      /\ 1 \in DOMAIN s /\ s[1] = Head(s)
      /\ \A i \in DOMAIN t : i + 1 \in DOMAIN s /\ t[i] = s[i + 1]
      /\ \A i \in DOMAIN s \ {1} : i - 1 \in DOMAIN t /\ t[i - 1] = s[i]
      /\ DOMAIN s \subseteq Nat /\ DOMAIN t \subseteq Nat \ {0}
  BY Read
<1>2. /\ IsFiniteSet(old) /\ Cardinality(old) \in Nat
      /\ IsFiniteSet(new) /\ Cardinality(new) \in Nat
  BY <1>1, OfKindIsFinite
<1>3. /\ \A i \in new : i \in Nat \ {0} /\ i + 1 \in rest
      /\ \A i \in rest : i \in Nat /\ i - 1 \in new
  BY <1>1 DEF OfKind
<1>4. next \in Bijection(new, rest)
  <2> HIDE DEF new, rest
  <2>1. next \in [new -> rest]
    BY <1>3
  <2>2. \A a, b \in new : next[a] = next[b] => a = b
    BY <1>3
  <2>3. \A b \in rest : \E a \in new : next[a] = b
    <3> TAKE b \in rest
    <3>1. b - 1 \in new /\ b \in Nat
      BY <1>3
    <3>2. next[b - 1] = b
      BY <3>1
    <3> QED
      BY <3>1, <3>2
  <2> HIDE DEF next
  <2> QED
    BY <2>1, <2>2, <2>3 DEF Bijection, Injection, Surjection, IsInjective
<1>5. Cardinality(rest) = Cardinality(new)
  BY <1>2, <1>4, FS_Bijection DEF ExistsBijection
<1>6. Cardinality(rest) =
        IF 1 \in old THEN Cardinality(old) - 1 ELSE Cardinality(old)
  BY <1>2, FS_RemoveElement
<1>7. 1 \in old <=> Head(s).command = kind
  BY <1>1 DEF OfKind
<1> HIDE DEF old, new, rest
<1>8. Cardinality(old) =
        Cardinality(new) + IF Head(s).command = kind THEN 1 ELSE 0
  BY <1>2, <1>5, <1>6, <1>7
<1> QED
  BY <1>8 DEF old, new

---------------------------------------------------------------------------
(* Steps that leave the requests and the list as they are. *)

LEMMA Undisturbed ==
    ASSUME CInv, TypeOK', DiesOnlyOfARace',
           table' = table, toServer' = toServer, toClient' = toClient,
           contacts' = contacts, listed' = listed, slot' = slot,
           missing' = missing, requests' = requests, raced' = raced,
           \/ event' = event
           \/ event.at # "wrote" /\ event'.at # "wrote",
           \/ receiver' = receiver
           \/ receiver.at # "handle" /\ receiver'.at # "handle"
           \/ /\ receiver.at = "handle" /\ receiver.next = 1
              /\ receiver'.at = "handle" /\ receiver'.next = 2
              /\ receiver'.command = receiver.command
    PROVE  CInv'
<1>1. \A kind \in Kinds : /\ Wrote(kind)' <=> Wrote(kind)
                          /\ Pending(kind)' = Pending(kind)
                          /\ Handles(kind)' <=> Handles(kind)
  BY DEF Wrote, Pending, Handles
<1>2. /\ Coming' = Coming
      /\ \A k : Between(k)' <=> Between(k)
      /\ receiver'.at = "handle" <=> receiver.at = "handle"
      /\ receiver.at = "handle" =>
           /\ receiver'.command = receiver.command
           /\ receiver'.next <= 2 <=> receiver.next <= 2
           /\ receiver'.next <= 3 <=> receiver.next <= 3
           /\ receiver'.next = 3 <=> receiver.next = 3
  BY DEF Coming, Between
<1>3. AddsAreCounted'
  BY <1>1, <1>2 DEF CInv, AddsAreCounted, Handles, OfKind
<1>4. \A i, k : About(i, k)' <=> About(i, k)
  BY <1>1 DEF About, Accepted
<1>5. ASSUME Orderly
      PROVE  Orderly'
  <2>1. OneOfAKind' /\ IsRemembered'
    BY <1>1, <1>5 DEF Orderly, OneOfAKind, IsRemembered, OfKind
  <2>2. MissingStay'
    BY <1>1, <1>4, <1>5 DEF Orderly, MissingStay, OfKind
  <2>3. TableIsExpected'
    BY <1>2, <1>4, <1>5 DEF Orderly, TableIsExpected, Expected
  <2>4. ListIsContacts'
    <3>1. ASSUME NEW k \in Contacts
          PROVE  IF Between(k)'
                 THEN \/ listed'[k] = 0
                      \/ listed'[k] = 1 /\ receiver'.command = "REMOVE"
                 ELSE listed'[k] = IF k \in contacts' THEN 1 ELSE 0
      <4>1. CASE ~Between(k)
        BY <1>2, <1>5, <4>1 DEF Orderly, ListIsContacts
      <4>2. CASE Between(k)
        BY <1>2, <1>5, <4>2 DEF Orderly, ListIsContacts, Between
      <4> QED
        BY <4>1, <4>2
    <3>2. Handles("ADD")' /\ receiver'.next <= 2 => slot'["ADD"] \notin contacts'
      BY <1>1, <1>2, <1>5 DEF Orderly, ListIsContacts, Kinds, Handles
    <3>3. receiver'.at = "handle" /\ receiver'.next = 3 =>
            (receiver'.command = "ADD" <=> slot'[receiver'.command] \in contacts')
      BY <1>2, <1>5 DEF Orderly, ListIsContacts
    <3> QED
      BY <3>1, <3>2, <3>3 DEF ListIsContacts
  <2> QED
    BY <2>1, <2>2, <2>3, <2>4 DEF Orderly
<1> QED
  BY <1>3, <1>5 DEF CInv

LEMMA ChooseStatusKeeps == CInv /\ ChooseStatus => CInv'
<1> SUFFICES ASSUME CInv, ChooseStatus
             PROVE  CInv'
  OBVIOUS
<1>1. TypeOK' /\ DiesOnlyOfARace'
  BY DEF CInv, TypeOK, DiesOnlyOfARace, ChooseStatus, clientVars, EventStates, At
<1> QED
  BY <1>1, Undisturbed DEF ChooseStatus, UserIsFree, clientVars, At

LEMMA SendClientStatusKeeps == CInv /\ SendClientStatus => CInv'
<1> SUFFICES ASSUME CInv, SendClientStatus
             PROVE  CInv'
  OBVIOUS
<1>1. TypeOK' /\ DiesOnlyOfARace'
  BY DEF CInv, TypeOK, DiesOnlyOfARace, SendClientStatus, clientVars,
         EventStates, At
<1> QED
  BY <1>1, Undisturbed DEF SendClientStatus, clientVars, At

LEMMA DismissAlertKeeps == CInv /\ DismissAlert => CInv'
<1> SUFFICES ASSUME CInv, DismissAlert
             PROVE  CInv'
  OBVIOUS
<1>1. TypeOK' /\ DiesOnlyOfARace'
  BY DEF CInv, TypeOK, DiesOnlyOfARace, DismissAlert, clientVars,
         ReceiverStates, At
<1> QED
  BY <1>1, Undisturbed DEF DismissAlert, clientVars, At

LEMMA ShowAlertKeeps == CInv /\ ShowAlert => CInv'
<1> SUFFICES ASSUME CInv, ShowAlert
             PROVE  CInv'
  OBVIOUS
<1>1. TypeOK' /\ DiesOnlyOfARace'
  BY DEF CInv, TypeOK, DiesOnlyOfARace, ShowAlert, clientVars, ReceiverStates,
         At
<1> QED
  BY <1>1, Undisturbed DEF ShowAlert, clientVars, At

\* What a handler knows when it executes one of its statements.
LEMMA Executing ==
    ASSUME TypeOK, NEW name, NEW kind \in Kinds, NEW k \in Contacts,
           AtStatement(name, kind, k)
    PROVE  /\ receiver \in [at : {"handle"}, command : Kinds, next : 1 .. 4]
           /\ receiver.command = kind
           /\ slot[kind] = k
           /\ name = "statuses" => receiver.next = 1
           /\ name = "contacts" => receiver.next = 2
           /\ name = "list" => receiver.next = 3
           /\ name = "clear" => receiver.next = 4
<1>1. receiver \in [at : {"handle"}, command : Kinds, next : 1 .. 4]
  BY DEF TypeOK, ReceiverStates, AtStatement, Statements
<1>2. receiver.next \in 1 .. 4 /\ Statements[receiver.next] = name
  BY <1>1 DEF AtStatement
<1>3. /\ name = "statuses" => receiver.next = 1
      /\ name = "contacts" => receiver.next = 2
      /\ name = "list" => receiver.next = 3
      /\ name = "clear" => receiver.next = 4
  BY <1>2 DEF Statements
<1> QED
  BY <1>1, <1>3 DEF AtStatement

\* The program goes on with the next statement.
LEMMA NextStatementType ==
    ASSUME receiver \in [at : {"handle"}, command : Kinds, next : 1 .. 4],
           receiver.next < 4, NextStatement
    PROVE  /\ receiver' \in ReceiverStates
           /\ receiver'.at = "handle"
           /\ receiver'.command = receiver.command
           /\ receiver'.next = receiver.next + 1
  BY DEF NextStatement, ReceiverStates, Statements

LEMMA ChangeStatusesKeeps == CInv /\ ChangeStatuses => CInv'
<1> SUFFICES ASSUME CInv, ChangeStatuses
             PROVE  CInv'
  OBVIOUS
<1>1. PICK kind \in Kinds, k \in Contacts :
         /\ AtStatement("statuses", kind, k)
         /\ statuses' = Change(statuses, kind, k)
  BY DEF ChangeStatuses
<1>2. /\ receiver \in [at : {"handle"}, command : Kinds, next : 1 .. 4]
      /\ receiver.next = 1
  BY <1>1, Executing DEF CInv
<1>3. /\ receiver' \in ReceiverStates
      /\ receiver'.at = "handle"
      /\ receiver'.command = receiver.command
      /\ receiver'.next = 2
  BY <1>2, NextStatementType DEF ChangeStatuses
<1>4. TypeOK' /\ DiesOnlyOfARace'
  BY <1>1, <1>3 DEF CInv, TypeOK, DiesOnlyOfARace, ChangeStatuses, Change
<1> QED
  BY <1>2, <1>3, <1>4, Undisturbed DEF ChangeStatuses

---------------------------------------------------------------------------
(* The server thread. *)

\* A request is taken from its stream, and its answer is put into the other.
LEMMA Answered ==
    ASSUME CInv, NEW command, Serves(command),
           NEW answer \in Answer, answer.command = command, Answers(answer)
    PROVE  /\ toServer' \in Seq(Request) /\ toClient' \in Seq(Answer)
           /\ Head(toServer) \in Request /\ Head(toServer).command = command
           /\ AddsAreCounted'
           /\ \A i \in DOMAIN toServer' :
                i + 1 \in DOMAIN toServer /\ toServer'[i] = toServer[i + 1]
           /\ 1 \in DOMAIN toServer /\ toServer[1] = Head(toServer)
           /\ DOMAIN toClient' = DOMAIN toClient \cup {Len(toClient) + 1}
           /\ Len(toClient) + 1 \notin DOMAIN toClient
           /\ DOMAIN toClient \subseteq Nat
           /\ \A i \in DOMAIN toClient :
                toClient'[i] = toClient[i] /\ i < Len(toClient) + 1
           /\ toClient'[Len(toClient) + 1] = answer
           /\ Len(toClient) + 1 \in Nat
<1>1. /\ toServer \in Seq(Request) /\ toServer # <<>>
      /\ toServer' = Tail(toServer)
      /\ Head(toServer).command = command
      /\ toClient \in Seq(Answer)
      /\ toClient' = Append(toClient, answer)
  BY DEF CInv, TypeOK, Serves, Answers
<1>2. Cardinality(OfKind(toServer, "ADD")) =
        Cardinality(OfKind(toServer', "ADD"))
          + IF command = "ADD" THEN 1 ELSE 0
  BY <1>1, ReadOfKind
<1>4. /\ toServer' \in Seq(Request) /\ toClient' \in Seq(Answer)
      /\ Head(toServer) \in Request
      /\ \A i \in DOMAIN toServer' :
           i + 1 \in DOMAIN toServer /\ toServer'[i] = toServer[i + 1]
      /\ 1 \in DOMAIN toServer /\ toServer[1] = Head(toServer)
  BY <1>1, Read, Written
<1>5. /\ DOMAIN toClient' = DOMAIN toClient \cup {Len(toClient) + 1}
      /\ Len(toClient) + 1 \notin DOMAIN toClient
      /\ DOMAIN toClient \subseteq Nat
      /\ \A i \in DOMAIN toClient :
           toClient'[i] = toClient[i] /\ i < Len(toClient) + 1
      /\ toClient'[Len(toClient) + 1] = answer
      /\ Len(toClient) + 1 \in Nat
  BY <1>1, Written
<1>3. Cardinality(OfKind(toClient', "ADD")) =
        Cardinality(OfKind(toClient, "ADD"))
          + IF command = "ADD" THEN 1 ELSE 0
  <2>1. Cardinality(OfKind(toClient, "ADD")) \in Nat
    BY <1>1, OfKindIsFinite
  <2>2. /\ command = "ADD" => Cardinality(OfKind(toClient', "ADD")) =
                                Cardinality(OfKind(toClient, "ADD")) + 1
        /\ command # "ADD" => Cardinality(OfKind(toClient', "ADD")) =
                                Cardinality(OfKind(toClient, "ADD"))
    BY <1>1, WrittenOfKind
  <2> QED
    BY <2>1, <2>2
<1>6. AddsAreCounted'
  <2>1. /\ Cardinality(OfKind(toServer, "ADD")) \in Nat
        /\ Cardinality(OfKind(toClient, "ADD")) \in Nat
        /\ Cardinality(OfKind(toServer', "ADD")) \in Nat
        /\ Cardinality(OfKind(toClient', "ADD")) \in Nat
    BY <1>1, <1>4, OfKindIsFinite
  <2>2. /\ listed' = listed /\ receiver' = receiver /\ requests' = requests
        /\ listed \in [Contacts -> Nat] /\ requests \in Nat
    BY BoundsAssumption DEF CInv, TypeOK, Answers, clientVars
  <2> DEFINE here == IF Handles("ADD") /\ receiver.next <= 3 THEN 1 ELSE 0
  <2>3. here \in Nat /\ here' = here
    BY <2>2 DEF Handles
  <2>4. ASSUME NEW k \in Contacts
        PROVE  listed'[k] + Cardinality(OfKind(toServer', "ADD"))
                 + Cardinality(OfKind(toClient', "ADD")) + here' <= requests' + 1
    <3>1. listed[k] + Cardinality(OfKind(toServer, "ADD"))
            + Cardinality(OfKind(toClient, "ADD")) + here <= requests + 1
      BY DEF CInv, AddsAreCounted
    <3>2. listed[k] \in Nat
      BY <2>2
    <3> HIDE DEF here
    <3> QED
      BY <1>2, <1>3, <2>1, <2>2, <2>3, <3>1, <3>2
  <2> QED
    BY <2>4 DEF AddsAreCounted, OfKind, Handles
<1> QED
  BY <1>1, <1>4, <1>5, <1>6

\* What the client knows of the requests is as before.
LEMMA AnsweredOrderly ==
    ASSUME CInv, Orderly, NEW command, Serves(command),
           NEW answer \in Answer, answer.command = command, Answers(answer)
    PROVE  /\ OneOfAKind' /\ IsRemembered' /\ ListIsContacts'
           /\ \A i \in OfKind(toServer', "REMOVE") :
                toServer'[i].contact \notin missing
           /\ \A i \in DOMAIN toClient, k \in Contacts : About(i, k)' <=> About(i, k)
           /\ \A i, k : i = Len(toClient) + 1 =>
                (About(i, k)' <=>
                   command \in Kinds /\ answer.result /\ Pending(command) = k)
           /\ Coming' = Coming
           /\ command \in Kinds => /\ Head(toServer).contact = Pending(command)
                                   /\ OfKind(toClient, command) = {}
                                   /\ ~Handles(command)
<1> DEFINE n == Len(toClient) + 1
<1>1. /\ \A i \in DOMAIN toServer' :
           i + 1 \in DOMAIN toServer /\ toServer'[i] = toServer[i + 1]
      /\ 1 \in DOMAIN toServer /\ toServer[1] = Head(toServer)
      /\ Head(toServer) \in Request /\ Head(toServer).command = command
      /\ DOMAIN toServer' \subseteq Nat \ {0}
  <2>1. toServer' \in Seq(Request)
    BY Answered
  <2> QED
    BY <2>1, Answered
<1>2. /\ DOMAIN toClient' = DOMAIN toClient \cup {n}
      /\ n \notin DOMAIN toClient
      /\ \A i \in DOMAIN toClient : toClient'[i] = toClient[i]
      /\ toClient'[n] = answer
  BY Answered
<1> HIDE DEF n
<1>3. /\ contacts' = contacts /\ listed' = listed /\ slot' = slot
      /\ event' = event /\ receiver' = receiver /\ missing' = missing
  BY DEF Answers, clientVars
<1>4. \A kind \in Kinds : /\ Pending(kind)' = Pending(kind)
                          /\ Wrote(kind)' <=> Wrote(kind)
                          /\ Handles(kind)' <=> Handles(kind)
  BY <1>3 DEF Pending, Wrote, Handles
<1>5. OneOfAKind /\ IsRemembered /\ MissingStay /\ ListIsContacts
  BY DEF Orderly
<1>6. ASSUME command \in Kinds
      PROVE  /\ OfKind(toClient, command) = {} /\ ~Handles(command)
             /\ OfKind(toServer', command) = {}
             /\ Head(toServer).contact = Pending(command)
             /\ Pending(command) # NoContact
  <2>1. 1 \in OfKind(toServer, command)
    BY <1>1 DEF OfKind
  <2>2. Head(toServer).contact \in Contacts
    BY <1>1, <1>6 DEF Request, Kinds
  <2>3. \A i \in OfKind(toServer, command) : i = 1
    BY <1>5, <1>6, <2>1 DEF OneOfAKind
  <2>4. OfKind(toServer', command) = {}
    BY <1>1, <2>3 DEF OfKind
  <2> QED
    BY <1>1, <1>5, <1>6, <2>1, <2>2, <2>4, NoContactAssumption
       DEF OneOfAKind, IsRemembered
<1>7. ASSUME NEW kind \in Kinds
      PROVE  /\ \A i \in OfKind(toServer', kind) : i + 1 \in OfKind(toServer, kind)
             /\ kind # command => OfKind(toClient', kind) = OfKind(toClient, kind)
             /\ kind = command => OfKind(toClient', kind) = {n}
  BY <1>1, <1>2, <1>6 DEF OfKind
<1>8. OneOfAKind'
  <2> SUFFICES ASSUME NEW kind \in Kinds
               PROVE  /\ \A i, j \in OfKind(toServer', kind) : i = j
                      /\ \A i, j \in OfKind(toClient', kind) : i = j
                      /\ OfKind(toServer', kind) = {} \/ OfKind(toClient', kind) = {}
                      /\ Handles(kind) => /\ OfKind(toServer', kind) = {}
                                          /\ OfKind(toClient', kind) = {}
                                          /\ ~Wrote(kind)
    BY <1>4 DEF OneOfAKind, OfKind
  <2>1. CASE kind = command
    BY <1>6, <1>7, <2>1
  <2>2. CASE kind # command
    <3>1. \A i, j \in OfKind(toServer', kind) : i = j
      <4> SUFFICES ASSUME NEW i \in OfKind(toServer', kind),
                          NEW j \in OfKind(toServer', kind)
                   PROVE  i = j
        OBVIOUS
      <4>1. i + 1 = j + 1
        BY <1>5, <1>7 DEF OneOfAKind
      <4>2. i \in Nat /\ j \in Nat
        BY <1>1 DEF OfKind
      <4> QED
        BY <4>1, <4>2
    <3>2. OfKind(toServer', kind) # {} => OfKind(toServer, kind) # {}
      BY <1>7
    <3> QED
      BY <1>5, <1>7, <2>2, <3>1, <3>2 DEF OneOfAKind
  <2> QED
    BY <2>1, <2>2
<1>9. IsRemembered'
  <2> SUFFICES ASSUME NEW kind \in Kinds
               PROVE  /\ \A i \in OfKind(toServer', kind) :
                           toServer'[i].contact = Pending(kind)
                      /\ OfKind(toClient', kind) # {} \/ Handles(kind)
                           => Pending(kind) # NoContact
    BY <1>4 DEF IsRemembered, OfKind
  <2>1. \A i \in OfKind(toServer', kind) : toServer'[i].contact = Pending(kind)
    <3> TAKE i \in OfKind(toServer', kind)
    <3>1. i + 1 \in OfKind(toServer, kind) /\ toServer'[i] = toServer[i + 1]
      BY <1>1, <1>7 DEF OfKind
    <3> QED
      BY <1>5, <3>1 DEF IsRemembered
  <2>2. OfKind(toClient', kind) # {} \/ Handles(kind) => Pending(kind) # NoContact
    BY <1>5, <1>6, <1>7 DEF IsRemembered
  <2> QED
    BY <2>1, <2>2
<1>10. \A i \in OfKind(toServer', "REMOVE") : toServer'[i].contact \notin missing
  <2> TAKE i \in OfKind(toServer', "REMOVE")
  <2>1. /\ i + 1 \in OfKind(toServer, "REMOVE")
        /\ toServer'[i] = toServer[i + 1]
    BY <1>1 DEF OfKind
  <2> QED
    BY <1>5, <2>1 DEF MissingStay
<1>11. \A i \in DOMAIN toClient, k \in Contacts : About(i, k)' <=> About(i, k)
  BY <1>2, <1>4 DEF About, Accepted
<1>12. \A i, k : i = n =>
         (About(i, k)' <=>
            command \in Kinds /\ answer.result /\ Pending(command) = k)
  <2> SUFFICES ASSUME NEW i, i = n, NEW k
               PROVE  About(i, k)' <=>
                        command \in Kinds /\ answer.result /\ Pending(command) = k
    OBVIOUS
  <2>1. toClient'[i] = answer
    BY <1>2
  <2> QED
    BY <1>4, <2>1 DEF About, Accepted
<1>13. Coming' = Coming /\ \A k \in Contacts : Between(k)' <=> Between(k)
  BY <1>3 DEF Coming, Between
<1>14. ListIsContacts'
  BY <1>3, <1>5, <1>13 DEF ListIsContacts, Handles
<1> QED
  BY <1>1, <1>6, <1>8, <1>9, <1>10, <1>11, <1>12, <1>13, <1>14 DEF n

\* The answer is the last one about its contact, and the others mean what they
\* meant.
LEMMA AnsweredExpected ==
    ASSUME CInv, Orderly, NEW command, Serves(command),
           NEW answer \in Answer, answer.command = command, Answers(answer),
           NEW k \in Contacts,
           \/ /\ command \in Kinds /\ answer.result /\ Pending(command) = k
              /\ k \in table' \ missing <=> command = "ADD"
              /\ command = "ADD" => k \notin table
           \/ /\ ~(command \in Kinds /\ answer.result /\ Pending(command) = k)
              /\ k \in table' \ missing <=> k \in table \ missing
    PROVE  Expected(k)'
<1> DEFINE n == Len(toClient) + 1
<1>1. /\ DOMAIN toClient' = DOMAIN toClient \cup {n}
      /\ n \notin DOMAIN toClient
      /\ DOMAIN toClient \subseteq Nat /\ n \in Nat
      /\ \A i \in DOMAIN toClient : toClient'[i] = toClient[i] /\ i < n
      /\ toClient'[n] = answer
  BY Answered
<1>2. /\ \A i \in DOMAIN toClient : About(i, k)' <=> About(i, k)
      /\ \A i : i = n =>
           (About(i, k)' <=>
              command \in Kinds /\ answer.result /\ Pending(command) = k)
      /\ Coming' = Coming
  BY AnsweredOrderly
<1>3. missing' = missing
  BY DEF Answers
<1>4. Expected(k)
  BY DEF Orderly, TableIsExpected
<1> HIDE DEF n
<1>5. CASE /\ command \in Kinds /\ answer.result /\ Pending(command) = k
           /\ k \in table' \ missing <=> command = "ADD"
           /\ command = "ADD" => k \notin table
  <2>1. \E i \in DOMAIN toClient' : About(i, k)'
    BY <1>1, <1>2, <1>5
  <2>2. ASSUME NEW i \in DOMAIN toClient', About(i, k)',
               \A j \in DOMAIN toClient' : About(j, k)' => j <= i
        PROVE  k \in table' \ missing' <=> toClient'[i].command = "ADD"
    <3>1. i = n
      <4>1. n <= i
        <5>1. PICK j \in DOMAIN toClient' : j = n
          BY <1>1
        <5> QED
          BY <1>2, <1>5, <2>2, <5>1
      <4> QED
        BY <1>1, <4>1
    <3> QED
      BY <1>1, <1>3, <1>5, <3>1
  <2>3. ASSUME NEW i \in DOMAIN toClient', About(i, k)',
               \A j \in DOMAIN toClient' : About(j, k)' => j >= i
        PROVE  toClient'[i].command = "REMOVE" \/ k \notin Coming'
    <3>1. CASE i = n
      <4>1. \A j \in DOMAIN toClient : ~About(j, k)
        BY <1>1, <1>2, <2>3, <3>1
      <4>2. k \in table \ missing <=> k \in Coming
        BY <1>4, <4>1 DEF Expected
      <4> QED
        BY <1>1, <1>2, <1>5, <3>1, <4>2 DEF Kinds
    <3>2. CASE i # n
      <4>1. i \in DOMAIN toClient /\ About(i, k)
        BY <1>1, <1>2, <2>3, <3>2
      <4>2. \A j \in DOMAIN toClient : About(j, k) => j >= i
        BY <1>1, <1>2, <2>3
      <4>3. toClient[i].command = "REMOVE" \/ k \notin Coming
        BY <1>4, <4>1, <4>2 DEF Expected
      <4> QED
        BY <1>1, <1>2, <4>1, <4>3
    <3> QED
      BY <3>1, <3>2
  <2> QED
    BY <2>1, <2>2, <2>3 DEF Expected
<1>6. CASE /\ ~(command \in Kinds /\ answer.result /\ Pending(command) = k)
           /\ k \in table' \ missing <=> k \in table \ missing
  <2>1. \A i \in DOMAIN toClient' : About(i, k)' => i \in DOMAIN toClient
    BY <1>1, <1>2, <1>6
  <2>2. ASSUME \A i \in DOMAIN toClient' : ~About(i, k)'
        PROVE  k \in table' \ missing' <=> k \in Coming'
    <3>1. \A i \in DOMAIN toClient : ~About(i, k)
      BY <1>1, <1>2, <2>2
    <3> QED
      BY <1>2, <1>3, <1>4, <1>6, <3>1 DEF Expected
  <2>3. ASSUME NEW i \in DOMAIN toClient', About(i, k)',
               \A j \in DOMAIN toClient' : About(j, k)' => j <= i
        PROVE  k \in table' \ missing' <=> toClient'[i].command = "ADD"
    <3>1. /\ i \in DOMAIN toClient /\ About(i, k)
          /\ \A j \in DOMAIN toClient : About(j, k) => j <= i
      BY <1>1, <1>2, <2>1, <2>3
    <3>2. k \in table \ missing <=> toClient[i].command = "ADD"
      BY <1>4, <3>1 DEF Expected
    <3> QED
      BY <1>1, <1>3, <1>6, <3>1, <3>2
  <2>4. ASSUME NEW i \in DOMAIN toClient', About(i, k)',
               \A j \in DOMAIN toClient' : About(j, k)' => j >= i
        PROVE  toClient'[i].command = "REMOVE" \/ k \notin Coming'
    <3>1. /\ i \in DOMAIN toClient /\ About(i, k)
          /\ \A j \in DOMAIN toClient : About(j, k) => j >= i
      BY <1>1, <1>2, <2>1, <2>4
    <3>2. toClient[i].command = "REMOVE" \/ k \notin Coming
      BY <1>4, <3>1 DEF Expected
    <3> QED
      BY <1>1, <1>2, <3>1, <3>2
  <2> QED
    BY <2>2, <2>3, <2>4 DEF Expected
<1> QED
  BY <1>5, <1>6

\* The answer is not about a contact that is missing.
LEMMA AnsweredMissing ==
    ASSUME CInv, Orderly, NEW command, Serves(command),
           NEW answer \in Answer, answer.command = command, Answers(answer),
           missing \subseteq table',
           command \in Kinds /\ answer.result => Pending(command) \notin missing
    PROVE  MissingStay'
<1> DEFINE n == Len(toClient) + 1
<1>1. DOMAIN toClient' = DOMAIN toClient \cup {n}
  BY Answered
<1>2. /\ \A i \in DOMAIN toClient, k \in Contacts : About(i, k)' <=> About(i, k)
      /\ \A i, k : i = n =>
           (About(i, k)' <=>
              command \in Kinds /\ answer.result /\ Pending(command) = k)
      /\ \A i \in OfKind(toServer', "REMOVE") : toServer'[i].contact \notin missing
  BY AnsweredOrderly
<1>3. /\ contacts' = contacts /\ listed' = listed /\ slot' = slot
      /\ receiver' = receiver /\ missing' = missing
  BY DEF Answers, clientVars
<1>4. MissingStay /\ missing \subseteq Contacts
  BY DEF Orderly, CInv, TypeOK
<1>5. \A i \in DOMAIN toClient' : \A k \in missing : ~About(i, k)'
  <2> SUFFICES ASSUME NEW i \in DOMAIN toClient', NEW k \in missing
               PROVE  ~About(i, k)'
    OBVIOUS
  <2>1. CASE i = n
    BY <1>2, <2>1
  <2>2. CASE i # n
    BY <1>1, <1>2, <1>4, <2>2 DEF MissingStay
  <2> QED
    BY <2>1, <2>2
<1>6. \A i \in OfKind(toServer, "REMOVE")' : toServer'[i].contact \notin missing'
  BY <1>2, <1>3 DEF OfKind
<1> HIDE DEF n
<1> QED
  BY <1>3, <1>4, <1>5, <1>6 DEF MissingStay, Handles

LEMMA AddContactToListKeeps == CInv /\ AddContactToList => CInv'
<1> SUFFICES ASSUME CInv, AddContactToList
             PROVE  CInv'
  OBVIOUS
<1> DEFINE k == Head(toServer).contact
           answer == [command |-> "ADD", result |-> k \notin table]
<1>1. /\ answer \in Answer
      /\ answer.command = "ADD"
      /\ answer.result <=> k \notin table
  BY DEF Answer, Kinds
<1>2. Serves("ADD") /\ Answers(answer) /\ table' = table \cup {k}
  BY DEF AddContactToList
<1> HIDE DEF answer
<1>3. /\ toServer' \in Seq(Request) /\ toClient' \in Seq(Answer)
      /\ Head(toServer) \in Request /\ Head(toServer).command = "ADD"
      /\ AddsAreCounted'
  BY <1>1, <1>2, Answered
<1>4. k \in Contacts
  BY <1>3 DEF Request, Kinds
<1> HIDE DEF k
<1>5. TypeOK' /\ DiesOnlyOfARace' /\ raced' = raced
  BY <1>2, <1>3, <1>4
     DEF CInv, TypeOK, DiesOnlyOfARace, Answers, clientVars
<1>6. ASSUME Orderly
      PROVE  Orderly'
  <2>1. OneOfAKind' /\ IsRemembered' /\ ListIsContacts' /\ k = Pending("ADD")
    BY <1>1, <1>2, <1>6, AnsweredOrderly DEF Kinds, k
  <2>2. missing \subseteq table
    BY <1>6 DEF Orderly, MissingStay
  <2>3. MissingStay'
    BY <1>1, <1>2, <1>6, <2>1, <2>2, AnsweredMissing
  <2>4. ASSUME NEW c \in Contacts
        PROVE  Expected(c)'
    <3>1. CASE c = k /\ k \notin table
      <4>1. /\ answer.result /\ Pending("ADD") = c /\ "ADD" \in Kinds
            /\ c \in table' \ missing /\ c \notin table
        BY <1>1, <1>2, <2>1, <2>2, <3>1 DEF Kinds
      <4> QED
        BY <1>1, <1>2, <1>6, <4>1, AnsweredExpected
    <3>2. CASE c # k \/ k \in table
      <4>1. /\ ~(answer.result /\ Pending("ADD") = c)
            /\ c \in table' \ missing <=> c \in table \ missing
        BY <1>1, <1>2, <2>1, <3>2
      <4> QED
        BY <1>1, <1>2, <1>6, <4>1, AnsweredExpected
    <3> QED
      BY <3>1, <3>2
  <2> QED
    BY <2>1, <2>3, <2>4 DEF Orderly, TableIsExpected
<1> QED
  BY <1>3, <1>5, <1>6 DEF CInv

LEMMA RemoveContactKeeps == CInv /\ RemoveContact => CInv'
<1> SUFFICES ASSUME CInv, RemoveContact
             PROVE  CInv'
  OBVIOUS
<1> DEFINE k == Head(toServer).contact
           answer == [command |-> "REMOVE", result |-> TRUE]
<1>1. /\ answer \in Answer
      /\ answer.command = "REMOVE"
      /\ answer.result
  BY DEF Answer, Kinds
<1>2. Serves("REMOVE") /\ Answers(answer) /\ table' = table \ {k}
  BY DEF RemoveContact
<1> HIDE DEF answer
<1>3. /\ toServer' \in Seq(Request) /\ toClient' \in Seq(Answer)
      /\ Head(toServer) \in Request /\ Head(toServer).command = "REMOVE"
      /\ 1 \in DOMAIN toServer /\ toServer[1] = Head(toServer)
      /\ AddsAreCounted'
  BY <1>1, <1>2, Answered
<1> HIDE DEF k
<1>5. TypeOK' /\ DiesOnlyOfARace' /\ raced' = raced
  BY <1>2, <1>3 DEF CInv, TypeOK, DiesOnlyOfARace, Answers, clientVars
<1>6. ASSUME Orderly
      PROVE  Orderly'
  <2>1. OneOfAKind' /\ IsRemembered' /\ ListIsContacts' /\ k = Pending("REMOVE")
    BY <1>1, <1>2, <1>6, AnsweredOrderly DEF Kinds, k
  <2>2. missing \subseteq table /\ k \notin missing
    BY <1>3, <1>6 DEF Orderly, MissingStay, OfKind, k
  <2>3. MissingStay'
    BY <1>1, <1>2, <1>6, <2>1, <2>2, AnsweredMissing
  <2>4. ASSUME NEW c \in Contacts
        PROVE  Expected(c)'
    <3>1. CASE c = k
      <4>1. /\ answer.result /\ Pending("REMOVE") = c /\ "REMOVE" \in Kinds
            /\ ~(c \in table' \ missing)
        BY <1>1, <1>2, <2>1, <2>2, <3>1 DEF Kinds
      <4> QED
        BY <1>1, <1>2, <1>6, <4>1, AnsweredExpected
    <3>2. CASE c # k
      <4>1. /\ ~(answer.result /\ Pending("REMOVE") = c)
            /\ c \in table' \ missing <=> c \in table \ missing
        BY <1>1, <1>2, <2>1, <3>2
      <4> QED
        BY <1>1, <1>2, <1>6, <4>1, AnsweredExpected
    <3> QED
      BY <3>1, <3>2
  <2> QED
    BY <2>1, <2>3, <2>4 DEF Orderly, TableIsExpected
<1> QED
  BY <1>3, <1>5, <1>6 DEF CInv

LEMMA SendContactsStatusesForKeeps == CInv /\ SendContactsStatusesFor => CInv'
<1> SUFFICES ASSUME CInv, SendContactsStatusesFor
             PROVE  CInv'
  OBVIOUS
<1> DEFINE answer == Head(toServer)
<1>1. /\ Serves("STATUSES") /\ Answers(answer) /\ table' = table
      /\ answer.command = "STATUSES"
  BY DEF SendContactsStatusesFor, Serves
<1>2. answer \in Answer
  <2>1. answer \in Request
    BY <1>1, Read DEF CInv, TypeOK, Serves
  <2> QED
    BY <1>1, <2>1 DEF Request, Answer, Kinds
<1> HIDE DEF answer
<1>3. /\ toServer' \in Seq(Request) /\ toClient' \in Seq(Answer)
      /\ AddsAreCounted'
  BY <1>1, <1>2, Answered
<1>4. TypeOK' /\ DiesOnlyOfARace' /\ raced' = raced
  BY <1>1, <1>3 DEF CInv, TypeOK, DiesOnlyOfARace, Answers, clientVars
<1>5. "STATUSES" \notin Kinds
  BY DEF Kinds
<1>6. ASSUME Orderly
      PROVE  Orderly'
  <2>1. OneOfAKind' /\ IsRemembered' /\ ListIsContacts'
    BY <1>1, <1>2, <1>6, AnsweredOrderly
  <2>2. missing \subseteq table
    BY <1>6 DEF Orderly, MissingStay
  <2>3. MissingStay'
    BY <1>1, <1>2, <1>5, <1>6, <2>2, AnsweredMissing
  <2>4. ASSUME NEW c \in Contacts
        PROVE  Expected(c)'
    BY <1>1, <1>2, <1>5, <1>6, AnsweredExpected
  <2> QED
    BY <2>1, <2>3, <2>4 DEF Orderly, TableIsExpected
<1> QED
  BY <1>3, <1>4, <1>6 DEF CInv

---------------------------------------------------------------------------
(* The receiver thread. *)

\* An answer is taken from its stream.
LEMMA Received ==
    ASSUME CInv, NEW command, Receives(command), slot' = slot, event' = event
    PROVE  /\ toClient' \in Seq(Answer)
           /\ Head(toClient) \in Answer /\ Head(toClient).command = command
           /\ 1 \in DOMAIN toClient /\ toClient[1] = Head(toClient)
           /\ \A i \in DOMAIN toClient' :
                i + 1 \in DOMAIN toClient /\ toClient'[i] = toClient[i + 1]
           /\ \A i \in DOMAIN toClient \ {1} :
                i - 1 \in DOMAIN toClient' /\ toClient'[i - 1] = toClient[i]
           /\ DOMAIN toClient \subseteq Nat /\ DOMAIN toClient' \subseteq Nat \ {0}
           /\ Cardinality(OfKind(toClient, "ADD")) =
                Cardinality(OfKind(toClient', "ADD"))
                  + IF command = "ADD" THEN 1 ELSE 0
           /\ \A i \in DOMAIN toClient', k \in Contacts :
                About(i, k)' <=> About(i + 1, k)
<1>1. /\ toClient \in Seq(Answer) /\ toClient # <<>>
      /\ toClient' = Tail(toClient)
      /\ Head(toClient).command = command
  BY DEF CInv, TypeOK, Receives
<1>2. Cardinality(OfKind(toClient, "ADD")) =
        Cardinality(OfKind(toClient', "ADD"))
          + IF command = "ADD" THEN 1 ELSE 0
  BY <1>1, ReadOfKind
<1>3. /\ toClient' \in Seq(Answer) /\ Head(toClient) \in Answer
      /\ 1 \in DOMAIN toClient /\ toClient[1] = Head(toClient)
      /\ \A i \in DOMAIN toClient' :
           i + 1 \in DOMAIN toClient /\ toClient'[i] = toClient[i + 1]
      /\ \A i \in DOMAIN toClient \ {1} :
           i - 1 \in DOMAIN toClient' /\ toClient'[i - 1] = toClient[i]
      /\ DOMAIN toClient \subseteq Nat /\ DOMAIN toClient' \subseteq Nat \ {0}
  BY <1>1, Read
<1>4. \A kind : Pending(kind)' = Pending(kind)
  BY DEF Pending, Wrote
<1>5. \A i \in DOMAIN toClient', k \in Contacts : About(i, k)' <=> About(i + 1, k)
  BY <1>3, <1>4 DEF About, Accepted
<1> QED
  BY <1>1, <1>2, <1>3, <1>5

LEMMA ReceivedKinds ==
    ASSUME CInv, Orderly, NEW command, Receives(command),
           slot' = slot, event' = event, NEW kind \in Kinds
    PROVE  /\ \A i \in OfKind(toClient', kind) : i + 1 \in OfKind(toClient, kind)
           /\ \A i, j \in OfKind(toClient', kind) : i = j
           /\ kind = command => /\ OfKind(toClient', kind) = {}
                                /\ OfKind(toServer, kind) = {}
                                /\ OfKind(toClient, kind) # {}
<1>1. /\ \A i \in DOMAIN toClient' :
           i + 1 \in DOMAIN toClient /\ toClient'[i] = toClient[i + 1]
      /\ DOMAIN toClient' \subseteq Nat \ {0}
      /\ 1 \in DOMAIN toClient /\ toClient[1].command = command
  BY Received
<1>2. \A i \in OfKind(toClient', kind) :
         i + 1 \in OfKind(toClient, kind) /\ i \in Nat \ {0}
  BY <1>1 DEF OfKind
<1>3. OneOfAKind
  BY DEF Orderly
<1>4. ASSUME NEW i \in OfKind(toClient', kind), NEW j \in OfKind(toClient', kind)
      PROVE  i = j
  <2>1. i + 1 = j + 1
    BY <1>2, <1>3 DEF OneOfAKind
  <2> QED
    BY <1>2, <2>1
<1>5. ASSUME kind = command
      PROVE  /\ OfKind(toClient', kind) = {}
             /\ OfKind(toServer, kind) = {}
             /\ OfKind(toClient, kind) # {}
  <2>1. 1 \in OfKind(toClient, kind)
    BY <1>1, <1>5 DEF OfKind
  <2>2. \A i \in OfKind(toClient', kind) : i + 1 = 1
    BY <1>2, <1>3, <2>1 DEF OneOfAKind
  <2> QED
    BY <1>2, <1>3, <2>1, <2>2 DEF OneOfAKind
<1> QED
  BY <1>2, <1>4, <1>5

\* The answer read is the first about its contact, and the others mean what
\* they meant.
LEMMA ReceivedExpected ==
    ASSUME CInv, Orderly, NEW command, Receives(command),
           slot' = slot, event' = event, table' = table, missing' = missing,
           NEW k \in Contacts,
           \/ About(1, k) /\ (k \in Coming' <=> command = "ADD")
           \/ ~About(1, k) /\ (k \in Coming' <=> k \in Coming)
    PROVE  Expected(k)'
<1>1. /\ 1 \in DOMAIN toClient /\ toClient[1].command = command
      /\ \A i \in DOMAIN toClient' :
           i + 1 \in DOMAIN toClient /\ toClient'[i] = toClient[i + 1]
      /\ \A i \in DOMAIN toClient \ {1} :
           i - 1 \in DOMAIN toClient' /\ toClient'[i - 1] = toClient[i]
      /\ DOMAIN toClient \subseteq Nat /\ DOMAIN toClient' \subseteq Nat \ {0}
      /\ \A i \in DOMAIN toClient' : About(i, k)' <=> About(i + 1, k)
  BY Received
<1>2. \A j \in DOMAIN toClient \ {1} : About(j, k) => About(j - 1, k)'
  <2> TAKE j \in DOMAIN toClient \ {1}
  <2>1. PICK i \in DOMAIN toClient' : i = j - 1
    BY <1>1
  <2>2. i + 1 = j
    BY <1>1, <2>1
  <2> QED
    BY <1>1, <2>1, <2>2
<1>3. Expected(k)
  BY DEF Orderly, TableIsExpected
<1>4. ASSUME \A i \in DOMAIN toClient' : ~About(i, k)'
      PROVE  k \in table' \ missing' <=> k \in Coming'
  <2>1. \A j \in DOMAIN toClient : About(j, k) => j = 1
    BY <1>1, <1>2, <1>4
  <2>2. CASE About(1, k) /\ (k \in Coming' <=> command = "ADD")
    <3>1. \A j \in DOMAIN toClient : About(j, k) => j <= 1
      BY <1>1, <2>1
    <3> QED
      BY <1>1, <1>3, <2>2, <3>1 DEF Expected
  <2>3. CASE ~About(1, k) /\ (k \in Coming' <=> k \in Coming)
    BY <1>3, <2>1, <2>3 DEF Expected
  <2> QED
    BY <2>2, <2>3
<1>5. ASSUME NEW i \in DOMAIN toClient', About(i, k)',
             \A j \in DOMAIN toClient' : About(j, k)' => j <= i
      PROVE  k \in table' \ missing' <=> toClient'[i].command = "ADD"
  <2>1. i + 1 \in DOMAIN toClient /\ About(i + 1, k) /\ i \in Nat \ {0}
    BY <1>1, <1>5
  <2>2. ASSUME NEW j \in DOMAIN toClient, About(j, k)
        PROVE  j <= i + 1
    <3>1. CASE j = 1
      BY <2>1, <3>1
    <3>2. CASE j # 1
      <4>1. j - 1 <= i
        BY <1>1, <1>2, <1>5, <2>2, <3>2
      <4> QED
        BY <1>1, <2>1, <4>1
    <3> QED
      BY <3>1, <3>2
  <2>3. k \in table \ missing <=> toClient[i + 1].command = "ADD"
    BY <1>3, <2>1, <2>2 DEF Expected
  <2> QED
    BY <1>1, <2>3
<1>6. ASSUME NEW i \in DOMAIN toClient', About(i, k)',
             \A j \in DOMAIN toClient' : About(j, k)' => j >= i
      PROVE  toClient'[i].command = "REMOVE" \/ k \notin Coming'
  <2>1. /\ i + 1 \in DOMAIN toClient /\ About(i + 1, k) /\ i \in Nat \ {0}
        /\ toClient'[i] = toClient[i + 1]
    BY <1>1, <1>6
  <2>2. CASE About(1, k) /\ (k \in Coming' <=> command = "ADD")
    <3>1. toClient'[i].command = "ADD" => command # "ADD"
      <4>1. command = "ADD" => OfKind(toClient', command) = {}
        BY ReceivedKinds DEF Kinds
      <4> QED
        BY <4>1 DEF OfKind
    <3>2. toClient'[i].command \in Kinds
      BY <2>1 DEF About, Accepted
    <3> QED
      BY <2>2, <3>1, <3>2 DEF Kinds
  <2>3. CASE ~About(1, k) /\ (k \in Coming' <=> k \in Coming)
    <3>1. ASSUME NEW j \in DOMAIN toClient, About(j, k)
          PROVE  j >= i + 1
      <4>1. j # 1
        BY <2>3, <3>1
      <4>2. j - 1 >= i
        BY <1>1, <1>2, <1>6, <3>1, <4>1
      <4> QED
        BY <1>1, <2>1, <4>2
    <3>2. toClient[i + 1].command = "REMOVE" \/ k \notin Coming
      BY <1>3, <2>1, <3>1 DEF Expected
    <3> QED
      BY <2>1, <2>3, <3>2
  <2> QED
    BY <2>2, <2>3
<1> QED
  BY <1>4, <1>5, <1>6 DEF Expected

\* An answer that is read is about no contact that is missing.
LEMMA ReceivedMissing ==
    ASSUME CInv, Orderly, NEW command, Receives(command),
           slot' = slot, event' = event, table' = table, missing' = missing,
           toServer' = toServer, contacts' = contacts, listed' = listed
    PROVE  /\ missing' \subseteq table'
           /\ \A k \in missing' : k \notin contacts' /\ listed'[k] = 0
           /\ \A i \in OfKind(toServer', "REMOVE") :
                toServer'[i].contact \notin missing'
           /\ \A i \in DOMAIN toClient' : \A k \in missing' : ~About(i, k)'
<1>1. MissingStay /\ missing \subseteq Contacts
  BY DEF Orderly, CInv, TypeOK
<1>2. /\ \A i \in DOMAIN toClient' : i + 1 \in DOMAIN toClient
      /\ \A i \in DOMAIN toClient', k \in Contacts : About(i, k)' <=> About(i + 1, k)
  BY Received
<1>3. \A i \in DOMAIN toClient' : \A k \in missing' : ~About(i, k)'
  BY <1>1, <1>2 DEF MissingStay
<1> QED
  BY <1>1, <1>3 DEF MissingStay

LEMMA ContactsStatusesReceivedKeeps == CInv /\ ContactsStatusesReceived => CInv'
<1> SUFFICES ASSUME CInv, ContactsStatusesReceived
             PROVE  CInv'
  OBVIOUS
<1>1. /\ Receives("STATUSES") /\ statuses' = Head(toClient).ids
      /\ table' = table /\ toServer' = toServer /\ contacts' = contacts
      /\ listed' = listed /\ slot' = slot /\ event' = event
      /\ receiver' = receiver /\ missing' = missing /\ requests' = requests
      /\ raced' = raced
  BY DEF ContactsStatusesReceived
<1>2. /\ toClient' \in Seq(Answer)
      /\ Head(toClient) \in Answer /\ Head(toClient).command = "STATUSES"
      /\ toClient[1] = Head(toClient)
      /\ Cardinality(OfKind(toClient, "ADD")) = Cardinality(OfKind(toClient', "ADD"))
  <2>1. Cardinality(OfKind(toClient', "ADD")) \in Nat
    BY <1>1, Received, OfKindIsFinite
  <2> QED
    BY <1>1, <2>1, Received
<1>3. Head(toClient).ids \in SUBSET Contacts
  BY <1>2 DEF Answer, Kinds
<1>4. TypeOK' /\ DiesOnlyOfARace'
  BY <1>1, <1>2, <1>3 DEF CInv, TypeOK, DiesOnlyOfARace
<1>5. AddsAreCounted'
  BY <1>1, <1>2 DEF CInv, AddsAreCounted, Handles, OfKind
<1>6. ASSUME Orderly
      PROVE  Orderly'
  <2>1. \A kind \in Kinds : /\ Pending(kind)' = Pending(kind)
                            /\ Wrote(kind)' <=> Wrote(kind)
                            /\ Handles(kind)' <=> Handles(kind)
    BY <1>1 DEF Pending, Wrote, Handles
  <2>2. Coming' = Coming /\ \A k : ~About(1, k) /\ (Between(k)' <=> Between(k))
    BY <1>1, <1>2 DEF Coming, Between, About, Accepted, Kinds
  <2>3. \A kind \in Kinds :
           /\ \A i \in OfKind(toClient', kind) : i + 1 \in OfKind(toClient, kind)
           /\ \A i, j \in OfKind(toClient', kind) : i = j
    BY <1>1, <1>6, ReceivedKinds
  <2>4. OneOfAKind'
    <3> SUFFICES ASSUME NEW kind \in Kinds
                 PROVE  /\ \A i, j \in OfKind(toServer', kind) : i = j
                        /\ \A i, j \in OfKind(toClient', kind) : i = j
                        /\ \/ OfKind(toServer', kind) = {}
                           \/ OfKind(toClient', kind) = {}
                        /\ Handles(kind) => /\ OfKind(toServer', kind) = {}
                                            /\ OfKind(toClient', kind) = {}
                                            /\ ~Wrote(kind)
      BY <2>1 DEF OneOfAKind, OfKind
    <3>1. OfKind(toClient', kind) # {} => OfKind(toClient, kind) # {}
      BY <2>3
    <3> QED
      BY <1>1, <1>6, <2>3, <3>1 DEF Orderly, OneOfAKind
  <2>5. IsRemembered'
    <3> SUFFICES ASSUME NEW kind \in Kinds
                 PROVE  /\ \A i \in OfKind(toServer', kind) :
                             toServer'[i].contact = Pending(kind)
                        /\ OfKind(toClient', kind) # {} \/ Handles(kind)
                             => Pending(kind) # NoContact
      BY <2>1 DEF IsRemembered, OfKind
    <3>1. OfKind(toClient', kind) # {} => OfKind(toClient, kind) # {}
      BY <2>3
    <3> QED
      BY <1>1, <1>6, <3>1 DEF Orderly, IsRemembered
  <2>6. MissingStay'
    <3>1. /\ missing' \subseteq table'
          /\ \A k \in missing' : k \notin contacts' /\ listed'[k] = 0
          /\ \A i \in OfKind(toServer', "REMOVE") :
               toServer'[i].contact \notin missing'
          /\ \A i \in DOMAIN toClient' : \A k \in missing' : ~About(i, k)'
      BY <1>1, <1>6, ReceivedMissing
    <3>2. \A kind \in Kinds : Handles(kind) => slot[kind] \notin missing
      BY <1>6 DEF Orderly, MissingStay
    <3> QED
      BY <1>1, <2>1, <3>1, <3>2 DEF MissingStay, OfKind
  <2>7. \A k \in Contacts : Expected(k)'
    BY <1>1, <1>6, <2>2, ReceivedExpected
  <2>8. ListIsContacts'
    BY <1>1, <1>6, <2>2 DEF Orderly, ListIsContacts, Handles
  <2> QED
    BY <2>4, <2>5, <2>6, <2>7, <2>8 DEF Orderly, TableIsExpected
<1> QED
  BY <1>1, <1>4, <1>5, <1>6 DEF CInv

\* The handler begins, or the answer is a refusal.
LEMMA EnterHandlerKeeps == CInv /\ EnterHandler => CInv'
<1> SUFFICES ASSUME CInv, EnterHandler
             PROVE  CInv'
  OBVIOUS
<1>1. PICK kind \in Kinds :
         /\ Receives(kind)
         /\ receiver' = IF Head(toClient).result
                        THEN [at |-> "handle", command |-> kind, next |-> 1]
                        ELSE At("refused")
         /\ raced' = (raced \/ (event.at = "wrote" /\ event.command = kind))
  BY DEF EnterHandler
<1>2. /\ table' = table /\ toServer' = toServer /\ contacts' = contacts
      /\ listed' = listed /\ statuses' = statuses /\ slot' = slot
      /\ event' = event /\ missing' = missing /\ requests' = requests
      /\ receiver.at = "wait"
  BY <1>1 DEF EnterHandler, clientVars, Receives
<1>3. /\ toClient' \in Seq(Answer)
      /\ 1 \in DOMAIN toClient
      /\ Head(toClient) \in Answer /\ Head(toClient).command = kind
      /\ toClient[1] = Head(toClient)
      /\ Cardinality(OfKind(toClient, "ADD")) =
           Cardinality(OfKind(toClient', "ADD")) + IF kind = "ADD" THEN 1 ELSE 0
      /\ Cardinality(OfKind(toClient', "ADD")) \in Nat
  <2>1. toClient' \in Seq(Answer)
    BY <1>1, <1>2, Received
  <2> QED
    BY <1>1, <1>2, <2>1, Received, OfKindIsFinite
<1>4. TypeOK' /\ DiesOnlyOfARace'
  <2>1. receiver' \in ReceiverStates /\ receiver'.at # "dead"
    BY <1>1 DEF ReceiverStates, At, Statements
  <2>2. raced' \in BOOLEAN
    BY <1>1 DEF CInv, TypeOK
  <2> QED
    BY <1>2, <1>3, <2>1, <2>2 DEF CInv, TypeOK, DiesOnlyOfARace
<1>5. AddsAreCounted'
  <2> DEFINE here == IF Handles("ADD") /\ receiver.next <= 3 THEN 1 ELSE 0
  <2>1. here = 0 /\ here' \in Nat /\ here' <= IF kind = "ADD" THEN 1 ELSE 0
    BY <1>1, <1>2 DEF Handles, At, Kinds
  <2>2. ASSUME NEW k \in Contacts
        PROVE  listed'[k] + Cardinality(OfKind(toServer', "ADD"))
                 + Cardinality(OfKind(toClient', "ADD")) + here' <= requests' + 1
    <3>1. listed[k] + Cardinality(OfKind(toServer, "ADD"))
            + Cardinality(OfKind(toClient, "ADD")) + here <= requests + 1
      BY DEF CInv, AddsAreCounted
    <3>2. /\ listed[k] \in Nat /\ requests \in Nat
          /\ Cardinality(OfKind(toServer, "ADD")) \in Nat
      BY BoundsAssumption, OfKindIsFinite DEF CInv, TypeOK
    <3> HIDE DEF here
    <3> QED
      BY <1>2, <1>3, <2>1, <3>1, <3>2
  <2> QED
    BY <2>2 DEF AddsAreCounted, OfKind, Handles
<1>6. ASSUME Orderly, ~Wrote(kind)
      PROVE  Orderly'
  <2>1. /\ \A other \in Kinds : /\ Pending(other)' = Pending(other)
                                /\ Wrote(other)' <=> Wrote(other)
        /\ Pending(kind) = slot[kind]
    BY <1>2, <1>6 DEF Pending, Wrote
  <2>2. \A other \in Kinds :
           /\ Handles(other)' => other = kind
           /\ \A i \in OfKind(toClient', other) : i + 1 \in OfKind(toClient, other)
           /\ \A i, j \in OfKind(toClient', other) : i = j
           /\ other = kind => /\ OfKind(toClient', other) = {}
                              /\ OfKind(toServer, other) = {}
                              /\ OfKind(toClient, other) # {}
    <3>1. \A other \in Kinds : Handles(other)' => other = kind
      BY <1>1 DEF Handles, At
    <3> QED
      BY <1>1, <1>2, <1>6, <3>1, ReceivedKinds
  <2>3. \A k \in Contacts : About(1, k) <=> Head(toClient).result /\ k = slot[kind]
    BY <1>3, <2>1 DEF About, Accepted
  <2>4. Pending(kind) # NoContact /\ slot[kind] \in Contacts
    BY <1>6, <2>1, <2>2 DEF Orderly, IsRemembered, CInv, TypeOK
  <2>5. OneOfAKind'
    <3> SUFFICES ASSUME NEW other \in Kinds
                 PROVE  /\ \A i, j \in OfKind(toServer', other) : i = j
                        /\ \A i, j \in OfKind(toClient', other) : i = j
                        /\ \/ OfKind(toServer', other) = {}
                           \/ OfKind(toClient', other) = {}
                        /\ Handles(other)' => /\ OfKind(toServer', other) = {}
                                              /\ OfKind(toClient', other) = {}
                                              /\ ~Wrote(other)
      BY <2>1 DEF OneOfAKind, OfKind
    <3>1. OfKind(toClient', other) # {} => OfKind(toClient, other) # {}
      BY <2>2
    <3> QED
      BY <1>2, <1>6, <2>2, <3>1 DEF Orderly, OneOfAKind
  <2>6. IsRemembered'
    <3> SUFFICES ASSUME NEW other \in Kinds
                 PROVE  /\ \A i \in OfKind(toServer', other) :
                             toServer'[i].contact = Pending(other)
                        /\ OfKind(toClient', other) # {} \/ Handles(other)'
                             => Pending(other) # NoContact
      BY <2>1 DEF IsRemembered, OfKind
    <3>1. OfKind(toClient', other) # {} => OfKind(toClient, other) # {}
      BY <2>2
    <3> QED
      BY <1>2, <1>6, <2>2, <2>4, <3>1 DEF Orderly, IsRemembered
  <2>7. MissingStay'
    <3>1. /\ missing' \subseteq table'
          /\ \A k \in missing' : k \notin contacts' /\ listed'[k] = 0
          /\ \A i \in OfKind(toServer', "REMOVE") :
               toServer'[i].contact \notin missing'
          /\ \A i \in DOMAIN toClient' : \A k \in missing' : ~About(i, k)'
      BY <1>1, <1>2, <1>6, ReceivedMissing
    <3>2. Head(toClient).result => slot[kind] \notin missing
      BY <1>3, <1>6, <2>3, <2>4 DEF Orderly, MissingStay
    <3>3. \A other \in Kinds : Handles(other)' => slot'[other] \notin missing'
      BY <1>1, <1>2, <2>2, <3>2 DEF Handles, At
    <3> QED
      BY <3>1, <3>3 DEF MissingStay, OfKind
  <2>8. ASSUME NEW k \in Contacts
        PROVE  Expected(k)'
    <3>1. Coming = contacts
      BY <1>2 DEF Coming
    <3>2. Coming' = IF Head(toClient).result
                    THEN Change(contacts, kind, slot[kind]) ELSE contacts
      BY <1>1, <1>2 DEF Coming, At, Change
    <3>3. CASE About(1, k)
      <4>1. k \in Coming' <=> kind = "ADD"
        BY <2>3, <3>2, <3>3 DEF Change, Kinds
      <4> QED
        BY <1>1, <1>2, <1>6, <3>3, <4>1, ReceivedExpected
    <3>4. CASE ~About(1, k)
      <4>1. k \in Coming' <=> k \in Coming
        BY <2>3, <3>1, <3>2, <3>4 DEF Change, Kinds
      <4> QED
        BY <1>1, <1>2, <1>6, <3>4, <4>1, ReceivedExpected
    <3> QED
      BY <3>3, <3>4
  <2>9. ListIsContacts'
    <3>1. \A k \in Contacts : listed[k] = IF k \in contacts THEN 1 ELSE 0
      BY <1>2, <1>6 DEF Orderly, ListIsContacts, Between
    <3>2. kind = "ADD" /\ Head(toClient).result => slot[kind] \notin contacts
      <4> SUFFICES ASSUME kind = "ADD", Head(toClient).result
                   PROVE  slot[kind] \notin contacts
        OBVIOUS
      <4>1. PICK k \in Contacts : k = slot[kind]
        BY <2>4
      <4>2. About(1, k) /\ 1 \in DOMAIN toClient
        BY <1>3, <2>3, <4>1
      <4>3. \A j \in DOMAIN toClient : About(j, k) => j >= 1
        BY <1>1, <1>2, Received DEF CInv, TypeOK
      <4>4. toClient[1].command = "REMOVE" \/ k \notin Coming
        BY <1>6, <4>2, <4>3 DEF Orderly, TableIsExpected, Expected
      <4> QED
        BY <1>2, <1>3, <4>1, <4>4 DEF Coming
    <3>3. receiver'.at = "handle" => receiver'.next = 1
      BY <1>1 DEF At
    <3>4. Handles("ADD")' => kind = "ADD" /\ Head(toClient).result
      BY <1>1 DEF Handles, At
    <3>5. \A k \in Contacts : ~Between(k)'
      BY <3>3 DEF Between
    <3> QED
      BY <1>1, <1>2, <3>1, <3>2, <3>3, <3>4, <3>5 DEF ListIsContacts
  <2> QED
    BY <2>5, <2>6, <2>7, <2>8, <2>9 DEF Orderly, TableIsExpected
<1>7. raced' = (raced \/ Wrote(kind))
  BY <1>1 DEF Wrote
<1> QED
  BY <1>4, <1>5, <1>6, <1>7 DEF CInv

\* The map is changed, the list on the screen is not yet.
LEMMA ChangeContactsKeeps == CInv /\ ChangeContacts => CInv'
<1> SUFFICES ASSUME CInv, ChangeContacts
             PROVE  CInv'
  OBVIOUS
<1>1. PICK kind \in Kinds, k \in Contacts :
         /\ AtStatement("contacts", kind, k)
         /\ contacts' = Change(contacts, kind, k)
  BY DEF ChangeContacts
<1>2. /\ table' = table /\ toServer' = toServer /\ toClient' = toClient
      /\ listed' = listed /\ statuses' = statuses /\ slot' = slot
      /\ event' = event /\ missing' = missing /\ requests' = requests
      /\ raced' = raced
  BY DEF ChangeContacts
<1>3. /\ receiver \in [at : {"handle"}, command : Kinds, next : 1 .. 4]
      /\ receiver.at = "handle" /\ receiver.next = 2
      /\ receiver.command = kind /\ slot[kind] = k
  BY <1>1, Executing DEF CInv
<1>4. /\ receiver' \in ReceiverStates
      /\ receiver'.at = "handle" /\ receiver'.next = 3
      /\ receiver'.command = kind
  BY <1>3, NextStatementType DEF ChangeContacts
<1>5. TypeOK' /\ DiesOnlyOfARace'
  BY <1>1, <1>2, <1>4 DEF CInv, TypeOK, DiesOnlyOfARace, Change
<1>6. AddsAreCounted'
  <2>1. /\ Handles("ADD")' <=> Handles("ADD")
        /\ receiver.next <= 3 /\ receiver'.next <= 3
    BY <1>3, <1>4 DEF Handles
  <2> QED
    BY <1>2, <2>1 DEF CInv, AddsAreCounted, OfKind
<1>7. ASSUME Orderly
      PROVE  Orderly'
  <2>1. /\ \A other \in Kinds : /\ Pending(other)' = Pending(other)
                                /\ Wrote(other)' <=> Wrote(other)
                                /\ Handles(other)' <=> Handles(other)
        /\ Handles(kind)
    BY <1>2, <1>3, <1>4 DEF Pending, Wrote, Handles
  <2>2. OneOfAKind' /\ IsRemembered'
    BY <1>2, <1>7, <2>1 DEF Orderly, OneOfAKind, IsRemembered, OfKind
  <2>3. \A i, c : About(i, c)' <=> About(i, c)
    BY <1>2, <2>1 DEF About, Accepted
  <2>4. k \notin missing
    BY <1>3, <1>7, <2>1 DEF Orderly, MissingStay
  <2>5. MissingStay'
    BY <1>1, <1>2, <1>7, <2>1, <2>3, <2>4
       DEF Orderly, MissingStay, OfKind, Change
  <2>6. Coming' = Coming
    BY <1>1, <1>3, <1>4 DEF Coming
  <2>7. TableIsExpected'
    BY <1>2, <1>7, <2>3, <2>6 DEF Orderly, TableIsExpected, Expected
  <2>8. /\ \A c \in Contacts : listed[c] = IF c \in contacts THEN 1 ELSE 0
        /\ kind = "ADD" => k \notin contacts
    BY <1>3, <1>7, <2>1 DEF Orderly, ListIsContacts, Between
  <2>9. ListIsContacts'
    <3>1. \A c \in Contacts : c # k => (c \in contacts' <=> c \in contacts)
      BY <1>1 DEF Change
    <3>2. k \in contacts' <=> kind = "ADD"
      BY <1>1 DEF Change, Kinds
    <3>3. Between(k)'
      BY <1>2, <1>3, <1>4 DEF Between
    <3>4. ASSUME NEW c \in Contacts
          PROVE  IF Between(c)'
                 THEN \/ listed'[c] = 0
                      \/ listed'[c] = 1 /\ receiver'.command = "REMOVE"
                 ELSE listed'[c] = IF c \in contacts' THEN 1 ELSE 0
      <4>1. CASE c # k
        <5>1. ~Between(c)'
          BY <1>2, <1>3, <1>4, <4>1 DEF Between
        <5> QED
          BY <1>2, <2>8, <3>1, <4>1, <5>1
      <4>2. CASE c = k
        <5>1. listed[k] = 0 \/ (listed[k] = 1 /\ kind = "REMOVE")
          BY <2>8 DEF Kinds
        <5> QED
          BY <1>2, <1>4, <3>3, <4>2, <5>1
      <4> QED
        BY <4>1, <4>2
    <3>5. receiver'.next = 3 /\ slot'[receiver'.command] = k
      BY <1>2, <1>3, <1>4
    <3> QED
      BY <1>4, <3>2, <3>4, <3>5 DEF ListIsContacts
  <2> QED
    BY <2>2, <2>5, <2>7, <2>9 DEF Orderly
<1> QED
  BY <1>2, <1>5, <1>6, <1>7 DEF CInv

\* The list on the screen follows the map.
LEMMA ChangeListKeeps == CInv /\ ChangeList => CInv'
<1> SUFFICES ASSUME CInv, ChangeList
             PROVE  CInv'
  OBVIOUS
<1>1. PICK kind \in Kinds, k \in Contacts :
         /\ AtStatement("list", kind, k)
         /\ listed' = [listed EXCEPT
                         ![k] = IF kind = "ADD" THEN @ + 1
                                ELSE IF @ > 0 THEN @ - 1 ELSE 0]
  BY DEF ChangeList
<1>2. /\ table' = table /\ toServer' = toServer /\ toClient' = toClient
      /\ contacts' = contacts /\ statuses' = statuses /\ slot' = slot
      /\ event' = event /\ missing' = missing /\ requests' = requests
      /\ raced' = raced
  BY DEF ChangeList
<1>3. /\ receiver \in [at : {"handle"}, command : Kinds, next : 1 .. 4]
      /\ receiver.at = "handle" /\ receiver.next = 3
      /\ receiver.command = kind /\ slot[kind] = k
  BY <1>1, Executing DEF CInv
<1>4. /\ receiver' \in ReceiverStates
      /\ receiver'.at = "handle" /\ receiver'.next = 4
      /\ receiver'.command = kind
  BY <1>3, NextStatementType DEF ChangeList
<1>5. /\ listed \in [Contacts -> Nat] /\ requests \in Nat
      /\ requests <= MaxRequests /\ MaxRequests \in Nat
      /\ listed' \in [Contacts -> Nat]
      /\ \A c \in Contacts : c # k => listed'[c] = listed[c]
      /\ kind = "ADD" => listed'[k] = listed[k] + 1
      /\ kind # "ADD" => listed'[k] <= listed[k]
      /\ kind # "ADD" /\ listed[k] <= 1 => listed'[k] = 0
  <2>1. /\ listed \in [Contacts -> Nat] /\ requests \in Nat
        /\ requests <= MaxRequests /\ MaxRequests \in Nat
    BY BoundsAssumption DEF CInv, TypeOK
  <2> DEFINE value == IF kind = "ADD" THEN listed[k] + 1
                      ELSE IF listed[k] > 0 THEN listed[k] - 1 ELSE 0
  <2>2. /\ value \in Nat
        /\ kind = "ADD" => value = listed[k] + 1
        /\ kind # "ADD" => value <= listed[k]
        /\ kind # "ADD" /\ listed[k] <= 1 => value = 0
    BY <2>1
  <2>3. listed' = [listed EXCEPT ![k] = value]
    BY <1>1
  <2> HIDE DEF value
  <2> QED
    BY <2>1, <2>2, <2>3
<1>6. AddsAreCounted'
  <2> DEFINE here == IF Handles("ADD") /\ receiver.next <= 3 THEN 1 ELSE 0
  <2>1. here' = 0 /\ here = IF kind = "ADD" THEN 1 ELSE 0
    BY <1>3, <1>4 DEF Handles
  <2>2. ASSUME NEW c \in Contacts
        PROVE  listed'[c] + Cardinality(OfKind(toServer', "ADD"))
                 + Cardinality(OfKind(toClient', "ADD")) + here' <= requests' + 1
    <3>1. listed[c] + Cardinality(OfKind(toServer, "ADD"))
            + Cardinality(OfKind(toClient, "ADD")) + here <= requests + 1
      BY DEF CInv, AddsAreCounted
    <3>2. /\ Cardinality(OfKind(toServer, "ADD")) \in Nat
          /\ Cardinality(OfKind(toClient, "ADD")) \in Nat
      BY OfKindIsFinite DEF CInv, TypeOK
    <3>3. /\ listed[c] \in Nat /\ listed'[c] \in Nat
          /\ listed'[c] <= listed[c] + here
      BY <1>5, <2>1
    <3> HIDE DEF here
    <3> QED
      BY <1>2, <1>5, <2>1, <3>1, <3>2, <3>3
  <2> QED
    BY <2>2 DEF AddsAreCounted, OfKind, Handles
<1>7. TypeOK' /\ DiesOnlyOfARace'
  <2>1. ASSUME NEW c \in Contacts
        PROVE  listed'[c] \in 0 .. MaxRequests + 1
    <3>1. /\ Cardinality(OfKind(toServer', "ADD")) \in Nat
          /\ Cardinality(OfKind(toClient', "ADD")) \in Nat
      BY <1>2, OfKindIsFinite DEF CInv, TypeOK
    <3> DEFINE here == IF Handles("ADD") /\ receiver.next <= 3 THEN 1 ELSE 0
    <3>2. listed'[c] + Cardinality(OfKind(toServer', "ADD"))
            + Cardinality(OfKind(toClient', "ADD")) + here' <= requests' + 1
      BY <1>6 DEF AddsAreCounted, OfKind, Handles
    <3>3. here' \in Nat /\ listed'[c] \in Nat
      BY <1>5
    <3> HIDE DEF here
    <3> QED
      BY <1>2, <1>5, <3>1, <3>2, <3>3
  <2>2. listed' \in [Contacts -> 0 .. MaxRequests + 1]
    BY <1>5, <2>1
  <2> QED
    BY <1>2, <1>4, <2>2 DEF CInv, TypeOK, DiesOnlyOfARace
<1>8. ASSUME Orderly
      PROVE  Orderly'
  <2>1. /\ \A other \in Kinds : /\ Pending(other)' = Pending(other)
                                /\ Wrote(other)' <=> Wrote(other)
                                /\ Handles(other)' <=> Handles(other)
        /\ Handles(kind)
    BY <1>2, <1>3, <1>4 DEF Pending, Wrote, Handles
  <2>2. OneOfAKind' /\ IsRemembered'
    BY <1>2, <1>8, <2>1 DEF Orderly, OneOfAKind, IsRemembered, OfKind
  <2>3. \A i, c : About(i, c)' <=> About(i, c)
    BY <1>2, <2>1 DEF About, Accepted
  <2>4. k \notin missing /\ missing \subseteq Contacts
    BY <1>3, <1>8, <2>1 DEF Orderly, MissingStay, CInv, TypeOK
  <2>5. MissingStay'
    BY <1>2, <1>5, <1>8, <2>1, <2>3, <2>4 DEF Orderly, MissingStay, OfKind
  <2>6. Coming' = Coming
    BY <1>2, <1>3, <1>4 DEF Coming
  <2>7. TableIsExpected'
    BY <1>2, <1>8, <2>3, <2>6 DEF Orderly, TableIsExpected, Expected
  <2>8. /\ \A c \in Contacts :
             c # k => listed[c] = IF c \in contacts THEN 1 ELSE 0
        /\ kind = "ADD" <=> k \in contacts
        /\ listed[k] <= 1
        /\ kind = "ADD" => listed[k] = 0
    <3>1. kind = "ADD" <=> k \in contacts
      BY <1>3, <1>8 DEF Orderly, ListIsContacts
    <3>2. \A c \in Contacts : Between(c) <=> c = k
      BY <1>3 DEF Between
    <3>3. listed[k] = 0 \/ (listed[k] = 1 /\ kind = "REMOVE")
      BY <1>3, <1>8, <3>2 DEF Orderly, ListIsContacts
    <3>4. \A c \in Contacts : c # k => listed[c] = IF c \in contacts THEN 1 ELSE 0
      BY <1>8, <3>2 DEF Orderly, ListIsContacts
    <3> QED
      BY <3>1, <3>3, <3>4
  <2>9. ListIsContacts'
    <3>1. \A c \in Contacts : ~Between(c)'
      BY <1>4 DEF Between
    <3>2. \A c \in Contacts : listed'[c] = IF c \in contacts THEN 1 ELSE 0
      BY <1>5, <2>8
    <3> QED
      BY <1>2, <1>4, <3>1, <3>2 DEF ListIsContacts, Handles
  <2> QED
    BY <2>2, <2>5, <2>7, <2>9 DEF Orderly
<1> QED
  BY <1>2, <1>6, <1>7, <1>8 DEF CInv

\* The field is cleared; no request of that kind is outstanding any more.
LEMMA ClearSlotKeeps == CInv /\ ClearSlot => CInv'
<1> SUFFICES ASSUME CInv, ClearSlot
             PROVE  CInv'
  OBVIOUS
<1>1. PICK kind \in Kinds, k \in Contacts : AtStatement("clear", kind, k)
  BY DEF ClearSlot
<1>2. /\ receiver \in [at : {"handle"}, command : Kinds, next : 1 .. 4]
      /\ receiver.at = "handle" /\ receiver.next = 4
      /\ receiver.command = kind /\ slot[kind] = k
  BY <1>1, Executing DEF CInv
<1>3. /\ table' = table /\ toServer' = toServer /\ toClient' = toClient
      /\ contacts' = contacts /\ listed' = listed /\ statuses' = statuses
      /\ event' = event /\ missing' = missing /\ requests' = requests
      /\ raced' = raced
      /\ slot' = [slot EXCEPT ![kind] = NoContact]
      /\ receiver' = At("wait") /\ receiver'.at = "wait"
  BY <1>2 DEF ClearSlot, clientVars, At
<1>4. TypeOK' /\ DiesOnlyOfARace'
  BY <1>3 DEF CInv, TypeOK, DiesOnlyOfARace, ReceiverStates, At
<1>5. AddsAreCounted'
  <2>1. ~(Handles("ADD") /\ receiver.next <= 3) /\ ~Handles("ADD")'
    BY <1>2, <1>3 DEF Handles
  <2> QED
    BY <1>3, <2>1 DEF CInv, AddsAreCounted, OfKind
<1>6. ASSUME Orderly
      PROVE  Orderly'
  <2>1. /\ \A other \in Kinds : /\ Wrote(other)' <=> Wrote(other)
                                /\ ~Handles(other)'
                                /\ other # kind => Pending(other)' = Pending(other)
        /\ Handles(kind)
        /\ slot \in [Kinds -> Contacts \cup {NoContact}]
    BY <1>2, <1>3 DEF Pending, Wrote, Handles, CInv, TypeOK
  <2>2. OfKind(toServer, kind) = {} /\ OfKind(toClient, kind) = {} /\ ~Wrote(kind)
    BY <1>6, <2>1 DEF Orderly, OneOfAKind
  <2>3. OneOfAKind'
    BY <1>3, <1>6, <2>1 DEF Orderly, OneOfAKind, OfKind
  <2>4. IsRemembered'
    <3> SUFFICES ASSUME NEW other \in Kinds
                 PROVE  /\ \A i \in OfKind(toServer, other) :
                             toServer[i].contact = Pending(other)'
                        /\ OfKind(toClient, other) # {} => Pending(other)' # NoContact
      BY <1>3, <2>1 DEF IsRemembered, OfKind
    <3>1. CASE other = kind
      BY <2>2, <3>1
    <3>2. CASE other # kind
      BY <1>6, <2>1, <3>2 DEF Orderly, IsRemembered
    <3> QED
      BY <3>1, <3>2
  <2>5. ASSUME NEW i \in DOMAIN toClient, NEW c
        PROVE  About(i, c)' <=> About(i, c)
    <3>1. toClient[i].command # kind
      BY <2>2 DEF OfKind
    <3> QED
      BY <1>3, <2>1, <3>1 DEF About, Accepted
  <2>6. MissingStay'
    BY <1>3, <1>6, <2>1, <2>5 DEF Orderly, MissingStay, OfKind
  <2>7. Coming' = Coming
    BY <1>2, <1>3 DEF Coming
  <2>8. TableIsExpected'
    <3> SUFFICES ASSUME NEW c \in Contacts
                 PROVE  Expected(c)'
      BY DEF TableIsExpected
    <3> QED
      BY <1>3, <1>6, <2>5, <2>7 DEF Orderly, TableIsExpected, Expected
  <2>9. ListIsContacts'
    <3>1. \A c \in Contacts : ~Between(c) /\ ~Between(c)'
      BY <1>2, <1>3 DEF Between
    <3> QED
      BY <1>3, <1>6, <2>1, <3>1 DEF Orderly, ListIsContacts, Kinds
  <2> QED
    BY <2>3, <2>4, <2>6, <2>8, <2>9 DEF Orderly
<1> QED
  BY <1>3, <1>4, <1>5, <1>6 DEF CInv

\* The field is null while an answer is handled only after a race.
LEMMA NullContactKeeps == CInv /\ NullContact => CInv'
<1> SUFFICES ASSUME CInv, NullContact
             PROVE  CInv'
  OBVIOUS
<1>1. /\ receiver.at = "handle" /\ slot[receiver.command] = NoContact
      /\ receiver' = At("dead") /\ receiver'.at = "dead"
      /\ table' = table /\ toServer' = toServer /\ toClient' = toClient
      /\ contacts' = contacts /\ listed' = listed /\ statuses' = statuses
      /\ slot' = slot /\ event' = event /\ missing' = missing
      /\ requests' = requests /\ raced' = raced
  BY DEF NullContact, clientVars, At
<1>2. raced
  <2> SUFFICES ASSUME ~raced
               PROVE  FALSE
    BY DEF CInv, TypeOK
  <2>1. PICK kind \in Kinds : kind = receiver.command
    BY <1>1 DEF CInv, TypeOK, ReceiverStates
  <2>2. Handles(kind) /\ ~Wrote(kind)
    BY <1>1, <2>1 DEF Handles, CInv, Orderly, OneOfAKind
  <2>3. Pending(kind) # NoContact
    BY <2>2 DEF CInv, Orderly, IsRemembered
  <2> QED
    BY <1>1, <2>1, <2>2, <2>3 DEF Pending
<1>3. TypeOK' /\ DiesOnlyOfARace'
  BY <1>1, <1>2 DEF CInv, TypeOK, DiesOnlyOfARace, ReceiverStates, At
<1>4. AddsAreCounted'
  <2> DEFINE here == IF Handles("ADD") /\ receiver.next <= 3 THEN 1 ELSE 0
  <2>1. here' = 0 /\ here \in Nat
    BY <1>1 DEF Handles
  <2>2. ASSUME NEW k \in Contacts
        PROVE  listed'[k] + Cardinality(OfKind(toServer', "ADD"))
                 + Cardinality(OfKind(toClient', "ADD")) + here' <= requests' + 1
    <3>1. listed[k] + Cardinality(OfKind(toServer, "ADD"))
            + Cardinality(OfKind(toClient, "ADD")) + here <= requests + 1
      BY DEF CInv, AddsAreCounted
    <3>2. /\ listed[k] \in Nat /\ requests \in Nat
          /\ Cardinality(OfKind(toServer, "ADD")) \in Nat
          /\ Cardinality(OfKind(toClient, "ADD")) \in Nat
      BY BoundsAssumption, OfKindIsFinite DEF CInv, TypeOK
    <3> HIDE DEF here
    <3> QED
      BY <1>1, <2>1, <3>1, <3>2
  <2> QED
    BY <2>2 DEF AddsAreCounted, OfKind, Handles
<1> QED
  BY <1>1, <1>2, <1>3, <1>4 DEF CInv

---------------------------------------------------------------------------
(* The event thread and the timer. *)

\* A request that is written is the only one of its kind, or a race begins.
LEMMA WriteKeeps ==
    ASSUME CInv, NEW kind \in Kinds, NEW k \in Contacts, Write(kind, k),
           kind = "REMOVE" => listed[k] > 0
    PROVE  CInv'
<1> DEFINE request == [command |-> kind, contact |-> k]
           n == Len(toServer) + 1
<1>1. /\ table' = table /\ toClient' = toClient /\ contacts' = contacts
      /\ listed' = listed /\ statuses' = statuses /\ slot' = slot
      /\ receiver' = receiver /\ missing' = missing
      /\ requests' = requests + 1 /\ requests < MaxRequests
      /\ toServer' = Append(toServer, request)
      /\ event.at = "idle"
      /\ event'.at = "wrote" /\ event'.command = kind /\ event'.contact = k
      /\ event' \in EventStates
      /\ raced' = (raced \/ Outstanding(kind))
  BY DEF Write, clientVars, UserIsFree, EventStates
<1>2. /\ request \in Request /\ toServer \in Seq(Request)
      /\ request.command = kind /\ request.contact = k
      /\ requests \in Nat /\ MaxRequests \in Nat
  BY BoundsAssumption DEF Request, CInv, TypeOK
<1> HIDE DEF request
<1>3. /\ toServer' \in Seq(Request)
      /\ DOMAIN toServer' = DOMAIN toServer \cup {n}
      /\ \A i \in DOMAIN toServer : toServer'[i] = toServer[i]
      /\ toServer'[n] = request
  BY <1>1, <1>2, Written
<1> HIDE DEF n
<1>4. TypeOK' /\ DiesOnlyOfARace'
  <2>1. requests' \in 0 .. MaxRequests
    BY <1>1, <1>2
  <2>2. raced' \in BOOLEAN /\ (raced => raced')
    BY <1>1 DEF CInv, TypeOK
  <2> QED
    BY <1>1, <1>3, <2>1, <2>2 DEF CInv, TypeOK, DiesOnlyOfARace
<1>5. AddsAreCounted'
  <2> DEFINE here == IF Handles("ADD") /\ receiver.next <= 3 THEN 1 ELSE 0
  <2>1. here' = here /\ here \in Nat
    BY <1>1 DEF Handles
  <2>2. /\ Cardinality(OfKind(toServer', "ADD")) <=
             Cardinality(OfKind(toServer, "ADD")) + 1
        /\ Cardinality(OfKind(toServer, "ADD")) \in Nat
        /\ Cardinality(OfKind(toServer', "ADD")) \in Nat
    <3>1. /\ Cardinality(OfKind(toServer, "ADD")) \in Nat
          /\ Cardinality(OfKind(toServer', "ADD")) \in Nat
      BY <1>2, <1>3, OfKindIsFinite
    <3>2. /\ request.command = "ADD" => Cardinality(OfKind(toServer', "ADD")) =
                                          Cardinality(OfKind(toServer, "ADD")) + 1
          /\ request.command # "ADD" => Cardinality(OfKind(toServer', "ADD")) =
                                          Cardinality(OfKind(toServer, "ADD"))
      BY <1>1, <1>2, WrittenOfKind
    <3> QED
      BY <3>1, <3>2
  <2>3. ASSUME NEW c \in Contacts
        PROVE  listed'[c] + Cardinality(OfKind(toServer', "ADD"))
                 + Cardinality(OfKind(toClient', "ADD")) + here' <= requests' + 1
    <3>1. listed[c] + Cardinality(OfKind(toServer, "ADD"))
            + Cardinality(OfKind(toClient, "ADD")) + here <= requests + 1
      BY DEF CInv, AddsAreCounted
    <3>2. /\ listed[c] \in Nat
          /\ Cardinality(OfKind(toClient, "ADD")) \in Nat
      BY BoundsAssumption, OfKindIsFinite DEF CInv, TypeOK
    <3>3. /\ listed' = listed /\ toClient' = toClient
          /\ requests' = requests + 1 /\ requests \in Nat
      BY <1>1, <1>2
    <3> DEFINE s == Cardinality(OfKind(toServer, "ADD"))
               t == Cardinality(OfKind(toServer', "ADD"))
               a == Cardinality(OfKind(toClient, "ADD"))
    <3> HIDE DEF here, s, t, a
    <3>4. listed[c] + t + a + here <= (requests + 1) + 1
      BY <2>1, <2>2, <3>1, <3>2, <3>3 DEF s, t, a
    <3> QED
      BY <2>1, <3>3, <3>4 DEF t, a
  <2> QED
    BY <2>3 DEF AddsAreCounted, OfKind, Handles
<1>6. ASSUME Orderly, ~Outstanding(kind)
      PROVE  Orderly'
  <2>1. /\ OfKind(toServer, kind) = {} /\ OfKind(toClient, kind) = {}
        /\ ~Handles(kind)
    BY <1>6 DEF Outstanding, OfKind, Handles
  <2>2. /\ \A other \in Kinds : /\ Handles(other)' <=> Handles(other)
                                /\ ~Wrote(other)
                                /\ Wrote(other)' <=> other = kind
                                /\ other # kind => Pending(other)' = Pending(other)
        /\ Pending(kind)' = k
    BY <1>1 DEF Pending, Wrote, Handles
  <2>3. \A other \in Kinds :
           OfKind(toServer', other) =
             IF other = kind THEN {n} ELSE OfKind(toServer, other)
    <3> TAKE other \in Kinds
    <3>1. CASE other = kind
      BY <1>2, <1>3, <2>1, <3>1 DEF OfKind
    <3>2. CASE other # kind
      BY <1>2, <1>3, <3>2 DEF OfKind
    <3> QED
      BY <3>1, <3>2
  <2>4. OneOfAKind'
    <3> SUFFICES ASSUME NEW other \in Kinds
                 PROVE  /\ \A i, j \in OfKind(toServer', other) : i = j
                        /\ \A i, j \in OfKind(toClient', other) : i = j
                        /\ \/ OfKind(toServer', other) = {}
                           \/ OfKind(toClient', other) = {}
                        /\ Handles(other) => /\ OfKind(toServer', other) = {}
                                             /\ OfKind(toClient', other) = {}
                                             /\ ~Wrote(other)'
      BY <2>2 DEF OneOfAKind, OfKind
    <3>1. CASE other = kind
      BY <1>1, <2>1, <2>3, <3>1
    <3>2. CASE other # kind
      BY <1>1, <1>6, <2>2, <2>3, <3>2 DEF Orderly, OneOfAKind
    <3> QED
      BY <3>1, <3>2
  <2>5. IsRemembered'
    <3> SUFFICES ASSUME NEW other \in Kinds
                 PROVE  /\ \A i \in OfKind(toServer', other) :
                             toServer'[i].contact = Pending(other)'
                        /\ OfKind(toClient', other) # {} \/ Handles(other)
                             => Pending(other)' # NoContact
      BY <2>2 DEF IsRemembered, OfKind
    <3>1. CASE other = kind
      BY <1>1, <1>2, <1>3, <2>1, <2>2, <2>3, <3>1
    <3>2. CASE other # kind
      <4>1. \A i \in OfKind(toServer, other) : toServer'[i] = toServer[i]
        BY <1>3 DEF OfKind
      <4>2. OfKind(toServer', other) = OfKind(toServer, other)
        BY <2>3, <3>2
      <4>3. Pending(other)' = Pending(other) /\ toClient' = toClient
        BY <1>1, <2>2, <3>2
      <4> QED
        BY <1>6, <4>1, <4>2, <4>3 DEF Orderly, IsRemembered
    <3> QED
      BY <3>1, <3>2
  <2>6. ASSUME NEW i \in DOMAIN toClient, NEW c
        PROVE  About(i, c)' <=> About(i, c)
    <3>1. toClient[i].command # kind
      BY <2>1 DEF OfKind
    <3> QED
      BY <1>1, <2>2, <3>1 DEF About, Accepted
  <2>7. MissingStay'
    <3>1. kind = "REMOVE" => k \notin missing
      BY <1>6 DEF Orderly, MissingStay
    <3>2. \A i \in OfKind(toServer', "REMOVE") : toServer'[i].contact \notin missing
      <4> TAKE i \in OfKind(toServer', "REMOVE")
      <4>1. CASE kind = "REMOVE"
        BY <1>2, <1>3, <2>3, <3>1, <4>1
      <4>2. CASE kind # "REMOVE"
        <5>1. i \in OfKind(toServer, "REMOVE") /\ toServer'[i] = toServer[i]
          BY <1>3, <2>3, <4>2 DEF Kinds, OfKind
        <5> QED
          BY <1>6, <5>1 DEF Orderly, MissingStay
      <4> QED
        BY <4>1, <4>2
    <3>3. \A i \in OfKind(toServer, "REMOVE")' : toServer'[i].contact \notin missing'
      BY <1>1, <3>2 DEF OfKind
    <3> QED
      BY <1>1, <1>6, <2>2, <2>6, <3>3 DEF Orderly, MissingStay
  <2>8. Coming' = Coming
    BY <1>1 DEF Coming
  <2>9. TableIsExpected'
    <3> SUFFICES ASSUME NEW c \in Contacts
                 PROVE  Expected(c)'
      BY DEF TableIsExpected
    <3> QED
      BY <1>1, <1>6, <2>6, <2>8 DEF Orderly, TableIsExpected, Expected
  <2>10. ListIsContacts'
    <3>1. \A c : Between(c)' <=> Between(c)
      BY <1>1 DEF Between
    <3> QED
      BY <1>1, <1>6, <3>1 DEF Orderly, ListIsContacts, Handles
  <2> QED
    BY <2>4, <2>5, <2>7, <2>9, <2>10 DEF Orderly
<1> QED
  BY <1>1, <1>4, <1>5, <1>6 DEF CInv

\* The field now says what the event thread knew.
LEMMA RememberKeeps == CInv /\ Remember => CInv'
<1> SUFFICES ASSUME CInv, Remember
             PROVE  CInv'
  OBVIOUS
<1>1. PICK kind \in Kinds, k \in Contacts :
         kind = event.command /\ k = event.contact /\ event.at = "wrote"
  BY DEF CInv, TypeOK, EventStates, Remember
<1>2. /\ table' = table /\ toServer' = toServer /\ toClient' = toClient
      /\ contacts' = contacts /\ listed' = listed /\ statuses' = statuses
      /\ receiver' = receiver /\ missing' = missing /\ requests' = requests
      /\ raced' = raced
      /\ slot' = [slot EXCEPT ![kind] = k]
      /\ event' = At("idle") /\ event'.at = "idle"
  BY <1>1 DEF Remember, clientVars, At
<1>3. TypeOK' /\ DiesOnlyOfARace'
  BY <1>2 DEF CInv, TypeOK, DiesOnlyOfARace, EventStates, At
<1>4. AddsAreCounted'
  BY <1>2 DEF CInv, AddsAreCounted, OfKind, Handles
<1>5. ASSUME Orderly
      PROVE  Orderly'
  <2>1. /\ \A other \in Kinds : /\ Handles(other)' <=> Handles(other)
                                /\ ~Wrote(other)'
                                /\ other # kind => slot'[other] = slot[other]
                                /\ Pending(other)' = Pending(other)
        /\ Wrote(kind)
    BY <1>1, <1>2 DEF Pending, Wrote, Handles, CInv, TypeOK
  <2>2. ~Handles(kind)
    BY <1>5, <2>1 DEF Orderly, OneOfAKind
  <2>3. receiver.at = "handle" => slot'[receiver.command] = slot[receiver.command]
    BY <2>1, <2>2 DEF Handles, CInv, TypeOK, ReceiverStates
  <2>4. OneOfAKind' /\ IsRemembered'
    BY <1>2, <1>5, <2>1 DEF Orderly, OneOfAKind, IsRemembered, OfKind
  <2>5. \A i, c : About(i, c)' <=> About(i, c)
    BY <1>2, <2>1 DEF About, Accepted
  <2>6. MissingStay'
    <3>1. \A other \in Kinds : Handles(other)' => slot'[other] \notin missing'
      BY <1>2, <1>5, <2>1, <2>2 DEF Orderly, MissingStay
    <3> QED
      BY <1>2, <1>5, <2>5, <3>1 DEF Orderly, MissingStay, OfKind
  <2>7. Coming' = Coming /\ \A c : Between(c)' <=> Between(c)
    BY <1>2, <2>3 DEF Coming, Between
  <2>8. TableIsExpected'
    BY <1>2, <1>5, <2>5, <2>7 DEF Orderly, TableIsExpected, Expected
  <2>9. ListIsContacts'
    <3>1. Handles("ADD")' /\ receiver'.next <= 2 => slot'["ADD"] \notin contacts'
      BY <1>2, <1>5, <2>1, <2>2 DEF Orderly, ListIsContacts, Kinds
    <3>2. receiver'.at = "handle" /\ receiver'.next = 3 =>
            (receiver'.command = "ADD" <=> slot'[receiver'.command] \in contacts')
      BY <1>2, <1>5, <2>3 DEF Orderly, ListIsContacts
    <3> QED
      BY <1>2, <1>5, <2>7, <3>1, <3>2 DEF Orderly, ListIsContacts
  <2> QED
    BY <2>4, <2>6, <2>8, <2>9 DEF Orderly
<1> QED
  BY <1>2, <1>3, <1>4, <1>5 DEF CInv

\* A request for statuses is of neither kind.
LEMMA UpdateContactsStatusesKeeps == CInv /\ UpdateContactsStatuses => CInv'
<1> SUFFICES ASSUME CInv, UpdateContactsStatuses
             PROVE  CInv'
  OBVIOUS
<1> DEFINE request == [command |-> "STATUSES", ids |-> contacts]
           n == Len(toServer) + 1
<1>1. /\ table' = table /\ toClient' = toClient /\ contacts' = contacts
      /\ listed' = listed /\ statuses' = statuses /\ slot' = slot
      /\ event' = event /\ receiver' = receiver /\ missing' = missing
      /\ requests' = requests /\ raced' = raced
      /\ toServer' = Append(toServer, request)
  BY DEF UpdateContactsStatuses, clientVars
<1>2. /\ request \in Request /\ toServer \in Seq(Request)
      /\ request.command = "STATUSES"
  BY DEF Request, CInv, TypeOK
<1> HIDE DEF request
<1>3. /\ toServer' \in Seq(Request)
      /\ DOMAIN toServer' = DOMAIN toServer \cup {n}
      /\ \A i \in DOMAIN toServer : toServer'[i] = toServer[i]
      /\ toServer'[n] = request
      /\ n \notin DOMAIN toServer
  BY <1>1, <1>2, Written
<1> HIDE DEF n
<1>4. TypeOK' /\ DiesOnlyOfARace'
  BY <1>1, <1>3 DEF CInv, TypeOK, DiesOnlyOfARace
<1>5. ASSUME NEW kind \in Kinds
      PROVE  /\ OfKind(toServer', kind) = OfKind(toServer, kind)
             /\ \A i \in OfKind(toServer, kind) : toServer'[i] = toServer[i]
  <2>1. kind # "STATUSES"
    BY DEF Kinds
  <2> QED
    BY <1>2, <1>3, <2>1 DEF OfKind
<1>6. AddsAreCounted'
  <2>1. OfKind(toServer', "ADD") = OfKind(toServer, "ADD")
    BY <1>5 DEF Kinds
  <2>2. OfKind(toServer, "ADD")' = OfKind(toServer, "ADD")
    BY <2>1 DEF OfKind
  <2> QED
    BY <1>1, <2>2 DEF CInv, AddsAreCounted, Handles, OfKind
<1>7. ASSUME Orderly
      PROVE  Orderly'
  <2>1. \A kind \in Kinds : /\ Pending(kind)' = Pending(kind)
                            /\ Wrote(kind)' <=> Wrote(kind)
                            /\ Handles(kind)' <=> Handles(kind)
    BY <1>1 DEF Pending, Wrote, Handles
  <2>2. \A kind \in Kinds : /\ OfKind(toServer, kind)' = OfKind(toServer, kind)
                            /\ OfKind(toClient, kind)' = OfKind(toClient, kind)
    BY <1>1, <1>5 DEF OfKind
  <2>3. \A i, c : About(i, c)' <=> About(i, c)
    BY <1>1, <2>1 DEF About, Accepted
  <2>4. OneOfAKind' /\ IsRemembered'
    BY <1>5, <1>7, <2>1, <2>2 DEF Orderly, OneOfAKind, IsRemembered
  <2>5. MissingStay'
    BY <1>1, <1>5, <1>7, <2>1, <2>2, <2>3 DEF Orderly, MissingStay, Kinds
  <2>6. Coming' = Coming /\ \A c : Between(c)' <=> Between(c)
    BY <1>1 DEF Coming, Between
  <2>7. TableIsExpected'
    BY <1>1, <1>7, <2>3, <2>6 DEF Orderly, TableIsExpected, Expected
  <2>8. ListIsContacts'
    BY <1>1, <1>7, <2>6 DEF Orderly, ListIsContacts, Handles
  <2> QED
    BY <2>4, <2>5, <2>7, <2>8 DEF Orderly
<1> QED
  BY <1>1, <1>4, <1>6, <1>7 DEF CInv

---------------------------------------------------------------------------
(* The theorems. *)

LEMMA InitCInv == Init => CInv
<1> SUFFICES ASSUME Init
             PROVE  CInv
  OBVIOUS
<1>1. /\ toServer = <<>> /\ toClient = <<>>
      /\ event.at = "idle" /\ receiver.at = "wait" /\ requests = 0 /\ ~raced
      /\ \A kind : ~Handles(kind) /\ ~Wrote(kind)
      /\ \A kind : OfKind(toServer, kind) = {} /\ OfKind(toClient, kind) = {}
  BY DEF Init, At, Handles, Wrote, OfKind
<1>2. /\ table \in SUBSET Contacts /\ missing \subseteq table
      /\ contacts = table \ missing
      /\ listed = [k \in Contacts |-> IF k \in contacts THEN 1 ELSE 0]
  BY DEF Init
<1>3. TypeOK
  <2>1. listed \in [Contacts -> 0 .. MaxRequests + 1] /\ 0 \in 0 .. MaxRequests
    BY <1>2, BoundsAssumption
  <2>2. slot \in [Kinds -> Contacts \cup {NoContact}]
    BY DEF Init
  <2>3. event \in EventStates /\ receiver \in ReceiverStates
    BY DEF Init, At, EventStates, ReceiverStates
  <2>4. /\ contacts \in SUBSET Contacts /\ statuses \in SUBSET Contacts
        /\ missing \in SUBSET Contacts
    BY <1>2 DEF Init
  <2>5. /\ toServer \in Seq(Request) /\ toClient \in Seq(Answer)
        /\ requests \in 0 .. MaxRequests
    BY <1>1, <2>1
  <2>6. raced \in BOOLEAN
    BY DEF Init
  <2> QED
    BY <1>2, <2>1, <2>2, <2>3, <2>4, <2>5, <2>6 DEF TypeOK
<1>4. AddsAreCounted
  <2>1. Cardinality({}) = 0
    BY FS_EmptySet
  <2>2. \A k \in Contacts : listed[k] \in {0, 1}
    BY <1>2
  <2> SUFFICES ASSUME NEW k \in Contacts
               PROVE  listed[k] + 0 + 0 + 0 <= 0 + 1
    BY <1>1, <2>1 DEF AddsAreCounted
  <2> QED
    BY <2>2
<1>5. DiesOnlyOfARace
  BY <1>1 DEF DiesOnlyOfARace
<1>6. OneOfAKind /\ IsRemembered
  BY <1>1 DEF OneOfAKind, IsRemembered
<1>7. MissingStay
  BY <1>1, <1>2 DEF MissingStay
<1>8. TableIsExpected
  BY <1>1, <1>2 DEF TableIsExpected, Expected, Coming
<1>9. ListIsContacts
  BY <1>1, <1>2 DEF ListIsContacts, Between
<1> QED
  BY <1>3, <1>4, <1>5, <1>6, <1>7, <1>8, <1>9 DEF CInv, Orderly

LEMMA NextCInv == CInv /\ [Next]_vars => CInv'
<1>1. CInv /\ UNCHANGED vars => CInv'
  <2> SUFFICES ASSUME CInv, UNCHANGED vars
               PROVE  CInv'
    OBVIOUS
  <2>1. TypeOK' /\ DiesOnlyOfARace'
    BY DEF CInv, TypeOK, DiesOnlyOfARace, vars, clientVars
  <2> QED
    BY <2>1, Undisturbed DEF vars, clientVars
<1>2. CInv /\ ContactAdded => CInv'
  BY WriteKeeps DEF ContactAdded, Kinds
<1>3. CInv /\ RemoveContactPressed => CInv'
  BY WriteKeeps DEF RemoveContactPressed, Kinds
<1> QED
  BY <1>1, <1>2, <1>3, ChooseStatusKeeps, DismissAlertKeeps, RememberKeeps,
     SendClientStatusKeeps, UpdateContactsStatusesKeeps,
     AddContactToListKeeps, RemoveContactKeeps, SendContactsStatusesForKeeps,
     ContactsStatusesReceivedKeeps, EnterHandlerKeeps, ShowAlertKeeps,
     ChangeStatusesKeeps, ChangeContactsKeeps, ChangeListKeeps,
     ClearSlotKeeps, NullContactKeeps
     DEF Next, Event, Goes, Server, Receiver

\* The invariant that the following theorems rest on.
THEOREM CInvHolds == Spec => []CInv
  BY InitCInv, NextCInv, PTL DEF Spec

\* The table, the client's maps and the streams hold what they are meant to
\* hold, and no contact is more often on the list than it was asked for.
THEOREM ContactBookTypeCorrect == Spec => []TypeOK
<1>1. CInv => TypeOK
  BY DEF CInv
<1> QED
  BY <1>1, CInvHolds, PTL

\* Without one of the two races the list on the screen is the list in the
\* table, less what sign-in failed to load, whenever no request is
\* outstanding.
THEOREM ScreenShowsTable == Spec => []ListIsTable
<1>1. CInv => ListIsTable
  <2> SUFFICES ASSUME CInv, ~raced, \A kind \in Kinds : ~Outstanding(kind)
               PROVE  /\ contacts = table \ missing
                      /\ \A k \in Contacts :
                           listed[k] = IF k \in contacts THEN 1 ELSE 0
    BY DEF ListIsTable
  <2>1. TableIsExpected /\ ListIsContacts /\ TypeOK
    BY DEF CInv, Orderly
  <2>2. receiver.at # "handle"
    BY <2>1 DEF Outstanding, TypeOK, ReceiverStates
  <2>3. \A i \in DOMAIN toClient : ~Accepted(i)
    BY DEF Outstanding, Accepted
  <2>4. \A k \in Contacts : k \in table \ missing <=> k \in contacts
    BY <2>1, <2>2, <2>3 DEF TableIsExpected, Expected, Coming, About
  <2>5. \A k \in Contacts : listed[k] = IF k \in contacts THEN 1 ELSE 0
    BY <2>1, <2>2 DEF ListIsContacts, Between
  <2> QED
    BY <2>1, <2>4, <2>5 DEF TypeOK
<1> QED
  BY <1>1, CInvHolds, PTL

\* An answer ends the receiver thread only after one of the two races.
THEOREM DeathNeedsARace == Spec => []DiesOnlyOfARace
<1>1. CInv => DiesOnlyOfARace
  BY DEF CInv
<1> QED
  BY <1>1, CInvHolds, PTL

==============================================================================
