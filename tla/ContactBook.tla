----------------------------- MODULE ContactBook -----------------------------
(***************************************************************************)
(* The contact list of one signed-in user: the rows of contact_list on the *)
(* server, and in the client program the map contacts, the map             *)
(* contactStatuses and the list on the screen.  Contacts are added and     *)
(* removed by a request and its answer; the answer does not say which      *)
(* contact it is about, the client remembers that in the static fields     *)
(* newContact and deletedContact.                                          *)
(*                                                                         *)
(* Three threads of the client take part.  The event thread writes a       *)
(* request and then sets the field; the receiver thread reads the field    *)
(* once per statement while it handles the answer; the timer asks for the  *)
(* statuses of the contacts.  contactSaved, contactRemoved,                *)
(* contactsStatusesReceived, sendClientStatus and updateContactsStatuses   *)
(* hold the monitor of the Client object, the two writers of requests do   *)
(* not.                                                                    *)
(*                                                                         *)
(* One program of the user is assumed.  A second one would change the same *)
(* rows, and the list of the first would not follow: nothing tells it, as  *)
(* its map is filled once, when it starts.                                 *)
(***************************************************************************)
EXTENDS Naturals, Sequences, FiniteSets, SequencesExt

CONSTANTS
    Contacts,       \* ids of the other users
    NoContact,      \* null
    MaxRequests,    \* bound on the requests to add and to remove
    MaxAsked        \* bound on the requests for statuses in flight

ASSUME NoContactAssumption == NoContact \notin Contacts

ASSUME BoundsAssumption == MaxRequests \in Nat /\ MaxAsked \in Nat

VARIABLES
    table,       \* server: contacts in the user's rows of contact_list
    toServer,    \* requests in flight
    toClient,    \* answers in flight
    contacts,    \* client: keys of the map contacts
    listed,      \* client: how often a contact is on the screen's list
    statuses,    \* client: keys of the map contactStatuses
    slot,        \* client: newContact is slot["ADD"], deletedContact
                 \*   slot["REMOVE"]
    event,       \* event thread: where it is; "wrote" is between the write
                 \*   of a request and the assignment of the field
    receiver,    \* receiver thread: where it is
    missing,     \* history: rows that were not loaded at sign-in
    requests,    \* history: requests to add and to remove so far
    raced        \* history: one of the two races has happened

clientVars == <<contacts, listed, statuses>>
vars == <<table, toServer, toClient, clientVars, slot, event, receiver,
          missing, requests, raced>>

Kinds == {"ADD", "REMOVE"}

Request ==
    [command : Kinds, contact : Contacts] \cup
    [command : {"STATUSES"}, ids : SUBSET Contacts]

Answer ==
    [command : Kinds, result : BOOLEAN] \cup
    [command : {"STATUSES"}, ids : SUBSET Contacts]

\* The statements of contactSaved and contactRemoved, in order.
Statements == <<"statuses", "contacts", "list", "clear">>

EventStates ==
    [at : {"idle", "status"}] \cup
    [at : {"wrote"}, command : Kinds, contact : Contacts]

ReceiverStates ==
    [at : {"wait", "refused", "alert", "dead"}] \cup
    [at : {"handle"}, command : Kinds, next : 1 .. Len(Statements)]

At(place) == [at |-> place]

TypeOK ==
    /\ table \in SUBSET Contacts
    /\ toServer \in Seq(Request)
    /\ toClient \in Seq(Answer)
    /\ contacts \in SUBSET Contacts
    /\ listed \in [Contacts -> 0 .. MaxRequests + 1]
    /\ statuses \in SUBSET Contacts
    /\ slot \in [Kinds -> Contacts \cup {NoContact}]
    /\ event \in EventStates
    /\ receiver \in ReceiverStates
    /\ missing \in SUBSET Contacts
    /\ requests \in 0 .. MaxRequests
    /\ raced \in BOOLEAN

\* The user is signed in: the list has been loaded, or the packet with it has
\* been dropped, as Messaging shows; the statuses have been answered once.
Init ==
    /\ table \in SUBSET Contacts
    /\ missing \in {{}, table}
    /\ contacts = table \ missing
    /\ listed = [k \in Contacts |-> IF k \in contacts THEN 1 ELSE 0]
    /\ statuses = contacts
    /\ toServer = <<>>
    /\ toClient = <<>>
    /\ slot = [kind \in Kinds |-> NoContact]
    /\ event = At("idle")
    /\ receiver = At("wait")
    /\ requests = 0
    /\ raced = FALSE

\* A request of this kind has been written and its answer not been handled.
Outstanding(kind) ==
    \/ \E i \in DOMAIN toServer : toServer[i].command = kind
    \/ \E i \in DOMAIN toClient : toClient[i].command = kind
    \/ event.at = "wrote" /\ event.command = kind
    \/ receiver.at = "handle" /\ receiver.command = kind

---------------------------------------------------------------------------
(* The event thread. *)

\* The alert is a modal dialog: while it is open the user can do nothing else.
UserIsFree == event.at = "idle" /\ receiver.at # "alert"

\* The request goes out first and is remembered in the next step.
Write(kind, k) ==
    /\ UserIsFree
    /\ requests < MaxRequests
    /\ requests' = requests + 1
    /\ toServer' = Append(toServer, [command |-> kind, contact |-> k])
    /\ event' = [at |-> "wrote", command |-> kind, contact |-> k]
    /\ raced' = (raced \/ Outstanding(kind))
    /\ UNCHANGED <<table, toClient, clientVars, slot, receiver, missing>>

\* The user adds a contact found by searching, listed already or not.
ContactAdded == \E k \in Contacts : Write("ADD", k)

\* The user presses the button that removes the contact selected on the list.
RemoveContactPressed == \E k \in Contacts : listed[k] > 0 /\ Write("REMOVE", k)

\* newContact = contact, deletedContact = c.
Remember ==
    /\ event.at = "wrote"
    /\ slot' = [slot EXCEPT ![event.command] = event.contact]
    /\ event' = At("idle")
    /\ UNCHANGED <<table, toServer, toClient, clientVars, receiver, missing,
                   requests, raced>>

\* The user chooses a status from the menu.
ChooseStatus ==
    /\ UserIsFree
    /\ event' = At("status")
    /\ UNCHANGED <<table, toServer, toClient, clientVars, slot, receiver,
                   missing, requests, raced>>

\* Fault: the receiver thread keeps the monitor while it waits for a packet.
MonitorIsFreeAtTheEnd == receiver.at = "dead"

\* The receiver thread holds the monitor while it handles an answer.
MonitorIsFree == receiver.at \in {"wait", "dead"}

\* The packet itself is the concern of Presence.
SendClientStatus ==
    /\ event.at = "status"
    /\ MonitorIsFree
    /\ event' = At("idle")
    /\ UNCHANGED <<table, toServer, toClient, clientVars, slot, receiver,
                   missing, requests, raced>>

\* The user closes the alert, if the event thread is there to notice it.
DismissAlert ==
    /\ receiver.at = "alert"
    /\ event.at = "idle"
    /\ receiver' = At("wait")
    /\ UNCHANGED <<table, toServer, toClient, clientVars, slot, event,
                   missing, requests, raced>>

---------------------------------------------------------------------------
(* The timer thread. *)

\* Fault: the ids asked for are those that have a status.
AskForKnownStatuses ==
    /\ MonitorIsFree
    /\ toServer' = Append(toServer, [command |-> "STATUSES", ids |-> statuses])
    /\ Len(SelectSeq(toServer \o toClient,
                     LAMBDA p : p.command = "STATUSES")) < MaxAsked
    /\ UNCHANGED <<table, toClient, clientVars, slot, event, receiver, missing,
                   requests, raced>>

UpdateContactsStatuses ==
    /\ MonitorIsFree
    /\ toServer' = Append(toServer, [command |-> "STATUSES", ids |-> contacts])
    /\ Len(SelectSeq(toServer \o toClient,
                     LAMBDA p : p.command = "STATUSES")) < MaxAsked
    /\ UNCHANGED <<table, toClient, clientVars, slot, event, receiver, missing,
                   requests, raced>>

---------------------------------------------------------------------------
(* The server thread of this connection. *)

Serves(command) ==
    /\ toServer # <<>>
    /\ Head(toServer).command = command
    /\ toServer' = Tail(toServer)

Answers(answer) ==
    /\ toClient' = Append(toClient, answer)
    /\ UNCHANGED <<clientVars, slot, event, receiver, missing, requests, raced>>

\* Fault: an entry that is there already is answered like a new one.
AddContactToListAgain ==
    /\ Serves("ADD")
    /\ table' = table \cup {Head(toServer).contact}
    /\ Answers([command |-> "ADD", result |-> TRUE])

\* The INSERT fails if the row is there: (owner, contact) is the key.
AddContactToList ==
    /\ Serves("ADD")
    /\ table' = table \cup {Head(toServer).contact}
    /\ Answers([command |-> "ADD", result |-> Head(toServer).contact \notin table])

\* The DELETE succeeds whether or not it finds the row.
RemoveContact ==
    /\ Serves("REMOVE")
    /\ table' = table \ {Head(toServer).contact}
    /\ Answers([command |-> "REMOVE", result |-> TRUE])

\* A status for every id in the request, OFFLINE for those not connected.
SendContactsStatusesFor ==
    /\ Serves("STATUSES")
    /\ Answers(Head(toServer))
    /\ UNCHANGED table

---------------------------------------------------------------------------
(* The receiver thread. *)

Receives(command) ==
    /\ receiver.at = "wait"
    /\ toClient # <<>>
    /\ Head(toClient).command = command
    /\ toClient' = Tail(toClient)

\* The answer replaces the whole map.
ContactsStatusesReceived ==
    /\ Receives("STATUSES")
    /\ statuses' = Head(toClient).ids
    /\ UNCHANGED <<table, toServer, contacts, listed, slot, event, receiver,
                   missing, requests, raced>>

\* contactSaved or contactRemoved takes the monitor and looks at the result.
EnterHandler ==
    /\ \E kind \in Kinds :
         /\ Receives(kind)
         /\ receiver' = IF Head(toClient).result
                        THEN [at |-> "handle", command |-> kind, next |-> 1]
                        ELSE At("refused")
         /\ raced' = (raced \/ (event.at = "wrote" /\ event.command = kind))
    /\ UNCHANGED <<table, toServer, clientVars, slot, event, missing, requests>>

\* The alert appears; its thread waits in showMessageDialog, in the monitor.
ShowAlert ==
    /\ receiver.at = "refused"
    /\ receiver' = At("alert")
    /\ UNCHANGED <<table, toServer, toClient, clientVars, slot, event, missing,
                   requests, raced>>

\* The handler is at this statement, with this contact in the field; the
\* field cannot become null between the first statement and the last.
AtStatement(name, kind, k) ==
    /\ receiver.at = "handle"
    /\ Statements[receiver.next] = name
    /\ kind = receiver.command
    /\ k = slot[kind]
    /\ k # NoContact

NextStatement == receiver' = [receiver EXCEPT !.next = @ + 1]

Change(set, kind, k) == IF kind = "ADD" THEN set \cup {k} ELSE set \ {k}

ChangeStatuses ==
    /\ \E kind \in Kinds, k \in Contacts :
         /\ AtStatement("statuses", kind, k)
         /\ statuses' = Change(statuses, kind, k)
    /\ NextStatement
    /\ UNCHANGED <<table, toServer, toClient, contacts, listed, slot, event,
                   missing, requests, raced>>

ChangeContacts ==
    /\ \E kind \in Kinds, k \in Contacts :
         /\ AtStatement("contacts", kind, k)
         /\ contacts' = Change(contacts, kind, k)
    /\ NextStatement
    /\ UNCHANGED <<table, toServer, toClient, listed, statuses, slot, event,
                   missing, requests, raced>>

\* Fault: the element is removed by its place on the list, found or not.
ChangeListUnchecked ==
    /\ \E kind \in Kinds, k \in Contacts :
         /\ AtStatement("list", kind, k)
         /\ listed' = [listed EXCEPT
                         ![k] = IF kind = "ADD" THEN @ + 1 ELSE @ - 1]
    /\ NextStatement
    /\ UNCHANGED <<table, toServer, toClient, contacts, statuses, slot, event,
                   missing, requests, raced>>

\* addElement, or removeElement, which removes one element if there is one.
ChangeList ==
    /\ \E kind \in Kinds, k \in Contacts :
         /\ AtStatement("list", kind, k)
         /\ listed' = [listed EXCEPT
                         ![k] = IF kind = "ADD" THEN @ + 1
                                ELSE IF @ > 0 THEN @ - 1 ELSE 0]
    /\ NextStatement
    /\ UNCHANGED <<table, toServer, toClient, contacts, statuses, slot, event,
                   missing, requests, raced>>

\* Fault: newContact is cleared whatever the answer was about.
ClearNewContact ==
    /\ \E kind \in Kinds, k \in Contacts : AtStatement("clear", kind, k)
    /\ slot' = [slot EXCEPT !["ADD"] = NoContact]
    /\ receiver' = At("wait")
    /\ UNCHANGED <<table, toServer, toClient, clientVars, event, missing,
                   requests, raced>>

ClearSlot ==
    /\ \E kind \in Kinds, k \in Contacts : AtStatement("clear", kind, k)
    /\ slot' = [slot EXCEPT ![receiver.command] = NoContact]
    /\ receiver' = At("wait")
    /\ UNCHANGED <<table, toServer, toClient, clientVars, event, missing,
                   requests, raced>>

\* getId on a field that is null: the exception leaves run, the thread ends.
NullContact ==
    /\ receiver.at = "handle"
    /\ slot[receiver.command] = NoContact
    /\ receiver' = At("dead")
    /\ UNCHANGED <<table, toServer, toClient, clientVars, slot, event, missing,
                   requests, raced>>

---------------------------------------------------------------------------

Event == ContactAdded \/ RemoveContactPressed \/ ChooseStatus \/ DismissAlert

Goes == Remember \/ SendClientStatus

Server == AddContactToList \/ RemoveContact \/ SendContactsStatusesFor

Receiver ==
    \/ ContactsStatusesReceived \/ EnterHandler \/ ShowAlert
    \/ ChangeStatuses \/ ChangeContacts \/ ChangeList \/ ClearSlot
    \/ NullContact

Next == Event \/ Goes \/ UpdateContactsStatuses \/ Server \/ Receiver

Spec == Init /\ [][Next]_vars

\* The threads go on with what they have begun, and the timer fires again and
\* again; the user owes nothing, not even the dismissal of an alert.  Weak
\* fairness is enough for the two threads that wait for the monitor: the
\* receiver thread keeps it for long only in the finitely many answers to
\* the user's requests.
Fairness ==
    /\ WF_vars(Remember) /\ WF_vars(SendClientStatus)
    /\ WF_vars(UpdateContactsStatuses)
    /\ WF_vars(Server) /\ WF_vars(Receiver)

FairSpec == Spec /\ Fairness

---------------------------------------------------------------------------
(* Properties. *)

\* As long as the user waits for each answer before the next request of the
\* same kind, and no answer overtakes the assignment of the field, the list on
\* the screen is the list in the table (less what sign-in failed to load),
\* with each contact once, whenever no request is outstanding; a request to
\* add and one to remove may overlap (Client.contactAdded, contactSaved,
\* actionPerformed, contactRemoved; Server.addContactToList, removeContact).
ListIsTable ==
    ~raced /\ (\A kind \in Kinds : ~Outstanding(kind)) =>
        /\ contacts = table \ missing
        /\ \A k \in Contacts :
             listed[k] = IF k \in contacts THEN 1 ELSE 0

\* The receiver thread dies of an answer only after one of the two races
\* (Client.contactSaved, Client.contactRemoved).
DiesOnlyOfARace == receiver.at = "dead" => raced

\* A contact on the client's list may lose its status to an answer that is
\* older than the contact, but the timer's next request brings it, as long as
\* the receiver thread lives and is not in an alert
\* (Client.updateContactsStatuses, Client.contactsStatusesReceived).
StatusComesBack ==
    \A k \in Contacts :
        k \in contacts ~> \/ k \in statuses
                          \/ k \notin contacts
                          \/ receiver.at \in {"alert", "dead"}

\* An event thread that waits for the monitor to send a status goes on, unless
\* the refusal of a contact is being shown: then neither the alert nor the
\* program ever reacts again (Client.sendClientStatus, Client.contactSaved).
EventThreadReturns ==
    event.at = "status" ~> event.at = "idle" \/ receiver.at = "alert"
---------------------------------------------------------------------------
(* What makes ListIsTable and DiesOnlyOfARace inductive. *)

OfKind(packets, kind) == {i \in DOMAIN packets : packets[i].command = kind}

Handles(kind) == receiver.at = "handle" /\ receiver.command = kind

Wrote(kind) == event.at = "wrote" /\ event.command = kind

\* The contact that the outstanding request of this kind is about.
Pending(kind) == IF Wrote(kind) THEN event.contact ELSE slot[kind]

\* Every element of the list on the screen is there since sign-in or has had
\* a request of its own.
AddsAreCounted ==
    \A k \in Contacts :
        listed[k] + Cardinality(OfKind(toServer, "ADD"))
                  + Cardinality(OfKind(toClient, "ADD"))
                  + (IF Handles("ADD") /\ receiver.next <= 3 THEN 1 ELSE 0)
            <= requests + 1

\* One request of a kind at a time.
OneOfAKind ==
    \A kind \in Kinds :
        /\ \A i, j \in OfKind(toServer, kind) : i = j
        /\ \A i, j \in OfKind(toClient, kind) : i = j
        /\ OfKind(toServer, kind) = {} \/ OfKind(toClient, kind) = {}
        /\ Handles(kind) => /\ OfKind(toServer, kind) = {}
                            /\ OfKind(toClient, kind) = {}
                            /\ ~Wrote(kind)

\* The client knows what the answer to come will be about.
IsRemembered ==
    \A kind \in Kinds :
        /\ \A i \in OfKind(toServer, kind) :
             toServer[i].contact = Pending(kind)
        /\ OfKind(toClient, kind) # {} \/ Handles(kind)
             => Pending(kind) # NoContact

\* This answer will change the client's list.
Accepted(i) == toClient[i].command \in Kinds /\ toClient[i].result

About(i, k) == Accepted(i) /\ Pending(toClient[i].command) = k

\* What sign-in failed to load is never listed, and so never removed.
MissingStay ==
    /\ missing \subseteq table
    /\ \A k \in missing : k \notin contacts /\ listed[k] = 0
    /\ \A i \in OfKind(toServer, "REMOVE") : toServer[i].contact \notin missing
    /\ \A i \in DOMAIN toClient : \A k \in missing : ~About(i, k)
    /\ \A kind \in Kinds : Handles(kind) => slot[kind] \notin missing

\* The client's contacts when the handler has done.
Coming ==
    IF receiver.at = "handle" /\ receiver.next <= 2
    THEN Change(contacts, receiver.command, slot[receiver.command])
    ELSE contacts

\* A contact is in the table as the last answer in flight about it says, and
\* else as the client has it; a contact to be added is not listed yet.
Expected(k) ==
    /\ (\A i \in DOMAIN toClient : ~About(i, k))
         => (k \in table \ missing <=> k \in Coming)
    /\ \A i \in DOMAIN toClient :
         About(i, k) /\ (\A j \in DOMAIN toClient : About(j, k) => j <= i)
         => (k \in table \ missing <=> toClient[i].command = "ADD")
    /\ \A i \in DOMAIN toClient :
         About(i, k) /\ (\A j \in DOMAIN toClient : About(j, k) => j >= i)
         => toClient[i].command = "REMOVE" \/ k \notin Coming

TableIsExpected == \A k \in Contacts : Expected(k)

\* The handler is between the change of the map and that of the list.
Between(k) ==
    /\ receiver.at = "handle"
    /\ receiver.next = 3
    /\ k = slot[receiver.command]

ListIsContacts ==
    /\ \A k \in Contacts :
         IF Between(k)
         THEN listed[k] = 0 \/ (listed[k] = 1 /\ receiver.command = "REMOVE")
         ELSE listed[k] = IF k \in contacts THEN 1 ELSE 0
    /\ Handles("ADD") /\ receiver.next <= 2 => slot["ADD"] \notin contacts
    /\ receiver.at = "handle" /\ receiver.next = 3 =>
         (receiver.command = "ADD" <=> slot[receiver.command] \in contacts)

Orderly ==
    OneOfAKind /\ IsRemembered /\ MissingStay /\ TableIsExpected /\ ListIsContacts

CInv ==
    /\ TypeOK
    /\ AddsAreCounted
    /\ DiesOnlyOfARace
    /\ ~raced => Orderly
=============================================================================
