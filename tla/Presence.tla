------------------------------ MODULE Presence ------------------------------
(***************************************************************************)
(* The availability of contacts: each client program tells the server its  *)
(* status and asks for the statuses of its contacts, at once when it       *)
(* starts and then from a timer; the server keeps the shared, unlocked map *)
(* contactsStatuses and answers from it.                                   *)
(*                                                                         *)
(* A session is one run of a client program that has a contact id, granted *)
(* or remembered, with its connection and server thread.  The map is read  *)
(* and written by the threads of all sessions, one call at a time.  Of the *)
(* receiver thread, what other packets do to it is one step: it may stop,  *)
(* by an exception or for an alert that nobody dismisses.                  *)
(***************************************************************************)
EXTENDS Naturals, Sequences

CONSTANTS
    Users,        \* contact ids
    Sessions,     \* runs of client programs
    Owner,        \* Owner[c] is the user of session c
    Watched,      \* Watched[c] is the contact list of session c
    Remembered,   \* sessions whose id comes from the preferences
    StartsAs,     \* StartsAs[c]: statuses the preferences of c may remember
    Fallible,     \* sessions whose receiver thread may stop
    Statuses,     \* statuses a user may choose, OFFLINE among them
    OFFLINE,
    Absent,       \* no entry in a map
    Null,         \* a status that is null
    MaxQueue,     \* bound on the packets in flight to the server
    MaxAnswers,   \* bound on the answers in flight to a client
    MaxChanges    \* MaxChanges[c]: bound on the status changes of session c

ASSUME SessionsAssumption ==
    /\ Owner \in [Sessions -> Users]
    /\ Watched \in [Sessions -> SUBSET Users]
    /\ Remembered \subseteq Sessions
    /\ StartsAs \in [Sessions -> SUBSET Statuses]

ASSUME StatusesAssumption ==
    /\ OFFLINE \in Statuses
    /\ Absent \notin Statuses \cup {Null}
    /\ Null \notin Statuses

ASSUME MaxQueueAssumption == MaxQueue \in Nat \ {0, 1} /\ MaxAnswers \in Nat \ {0}

ASSUME MaxChangesAssumption == MaxChanges \in [Sessions -> Nat]

VARIABLES
    contactsStatuses, \* server: contact id -> status
    thread,           \* server thread: "none", "serving" or "ended"
    answering,        \* server thread: is it answering a request?
    asked,            \* server thread: contacts still to be looked up
    found,            \* server thread: contacts whose key it has just seen
    statuses,         \* server thread: the answer built so far
    up, down,         \* packets in flight
    phase,            \* client: where it is in its life
    status,           \* client: its status, null before it has one
    ticking,          \* client: timer task between its two packets
    contactStatuses,  \* client: what its renderer shows
    changes,          \* how many status changes the user has made
    closed            \* history: sessions whose CLOSE the server has served

answerVars == <<answering, asked, found, statuses>>
serverVars == <<contactsStatuses, thread, answerVars, closed>>
clientVars == <<phase, status, ticking, contactStatuses, changes>>
vars == <<serverVars, up, down, clientVars>>

\* A map from contact ids to statuses, as a total function.
StatusMap == [Users -> Statuses \cup {Absent, Null}]

NoEntries == [u \in Users |-> Absent]

UpPacket ==
    [command : {"STATUS_CHANGED"}, object : Statuses] \cup
    [command : {"CONTACTS_STATUSES_REQUEST"}, object : SUBSET Users] \cup
    [command : {"CLOSE_CONNECTION"}, object : Users]

TypeOK ==
    /\ contactsStatuses \in [Users -> Statuses \cup {Absent}]
    /\ thread \in [Sessions -> {"none", "serving", "ended"}]
    /\ answering \in [Sessions -> BOOLEAN]
    /\ asked \in [Sessions -> SUBSET Users]
    /\ found \in [Sessions -> SUBSET Users]
    /\ statuses \in [Sessions -> StatusMap]
    /\ up \in [Sessions -> Seq(UpPacket)]
    /\ down \in [Sessions -> Seq(StatusMap)]
    /\ phase \in [Sessions -> {"off", "idle", "run", "deaf", "gone"}]
    /\ status \in [Sessions -> Statuses \cup {Null}]
    /\ ticking \in [Sessions -> BOOLEAN]
    /\ contactStatuses \in [Sessions -> StatusMap]
    /\ changes \in [Sessions -> Nat]
    /\ \A c \in Sessions : changes[c] <= MaxChanges[c]
    /\ closed \in SUBSET Sessions

Init ==
    /\ contactsStatuses = NoEntries
    /\ thread = [c \in Sessions |-> "none"]
    /\ answering = [c \in Sessions |-> FALSE]
    /\ asked = [c \in Sessions |-> {}]
    /\ found = [c \in Sessions |-> {}]
    /\ statuses = [c \in Sessions |-> NoEntries]
    /\ up = [c \in Sessions |-> <<>>]
    /\ down = [c \in Sessions |-> <<>>]
    /\ phase = [c \in Sessions |-> "off"]
    /\ status = [c \in Sessions |-> Null]
    /\ ticking = [c \in Sessions |-> FALSE]
    /\ contactStatuses = [c \in Sessions |-> NoEntries]
    /\ changes = [c \in Sessions |-> 0]
    /\ closed = {}

---------------------------------------------------------------------------
(* The client program. *)

StatusChanged(s) == [command |-> "STATUS_CHANGED", object |-> s]

StatusesRequest(c) ==
    [command |-> "CONTACTS_STATUSES_REQUEST", object |-> Watched[c]]

CloseConnection(c) == [command |-> "CLOSE_CONNECTION", object |-> Owner[c]]

\* A write waits for room; a write to a thread that has ended is an exception
\* that the callers swallow.
ToServer(c, packets) ==
    IF thread[c] = "ended"
    THEN up' = up
    ELSE /\ Len(up[c]) + Len(packets) <= MaxQueue
         /\ up' = [up EXCEPT ![c] = @ \o packets]

\* grantedContactId, from the status that the preferences remember on: both
\* packets are sent and the timer is started.
GrantedContactId(c) ==
    /\ c \notin Remembered
    /\ phase[c] = "off"
    /\ \E s \in StartsAs[c] :
         /\ status' = [status EXCEPT ![c] = s]
         /\ ToServer(c, <<StatusChanged(s), StatusesRequest(c)>>)
    /\ phase' = [phase EXCEPT ![c] = "run"]
    /\ thread' = [thread EXCEPT ![c] = "serving"]
    /\ UNCHANGED <<contactsStatuses, answerVars, down, ticking,
                   contactStatuses, changes, closed>>

\* With a remembered id there is no dialog, so nobody grants anything: the
\* program has no status, no timer and no receiver thread.
StartRemembered(c) ==
    /\ c \in Remembered
    /\ phase[c] = "off"
    /\ phase' = [phase EXCEPT ![c] = "idle"]
    /\ thread' = [thread EXCEPT ![c] = "serving"]
    /\ UNCHANGED <<contactsStatuses, answerVars, up, down, status, ticking,
                   contactStatuses, changes, closed>>

\* The user chooses another status from the menu.
ChangeStatus(c) ==
    /\ phase[c] \in {"idle", "run", "deaf"}
    /\ changes[c] < MaxChanges[c]
    /\ changes' = [changes EXCEPT ![c] = @ + 1]
    /\ \E s \in Statuses \ {status[c]} :
         /\ status' = [status EXCEPT ![c] = s]
         /\ ToServer(c, <<StatusChanged(s)>>)
    /\ UNCHANGED <<serverVars, down, phase, ticking, contactStatuses>>

\* Fault: the timer task asks for the statuses only.
SkipClientStatus(c) ==
    /\ phase[c] \in {"run", "deaf"}
    /\ ~ticking[c]
    /\ ticking' = [ticking EXCEPT ![c] = TRUE]
    /\ UNCHANGED <<serverVars, up, down, phase, status, contactStatuses, changes>>

\* The timer task: sendClientStatus, which sends the status of that moment.
SendClientStatus(c) ==
    /\ phase[c] \in {"run", "deaf"}
    /\ ~ticking[c]
    /\ ToServer(c, <<StatusChanged(status[c])>>)
    /\ ticking' = [ticking EXCEPT ![c] = TRUE]
    /\ UNCHANGED <<serverVars, down, phase, status, contactStatuses, changes>>

\* The timer task: updateContactsStatuses.
UpdateContactsStatuses(c) ==
    /\ phase[c] \in {"run", "deaf"}
    /\ ticking[c]
    /\ ToServer(c, <<StatusesRequest(c)>>)
    /\ ticking' = [ticking EXCEPT ![c] = FALSE]
    /\ UNCHANGED <<serverVars, down, phase, status, contactStatuses, changes>>

\* The receiver thread takes the map it is sent for its own.
ContactsStatusesReceived(c) ==
    /\ phase[c] = "run"
    /\ down[c] # <<>>
    /\ contactStatuses' = [contactStatuses EXCEPT ![c] = Head(down[c])]
    /\ down' = [down EXCEPT ![c] = Tail(@)]
    /\ UNCHANGED <<serverVars, up, phase, status, ticking, changes>>

\* The receiver thread reads no more: a packet of another kind has ended it, or
\* made it show an alert that stays on the screen.  Fallible bounds whose does.
ReceiverStops(c) ==
    /\ c \in Fallible
    /\ phase[c] = "run"
    /\ phase' = [phase EXCEPT ![c] = "deaf"]
    /\ UNCHANGED <<serverVars, up, down, status, ticking, contactStatuses,
                   changes>>

\* The program ends, and what it had in memory is gone.
Exit(c) ==
    /\ phase[c] \in {"idle", "run", "deaf"}
    /\ phase' = [phase EXCEPT ![c] = "gone"]
    /\ down' = [down EXCEPT ![c] = <<>>]
    /\ status' = [status EXCEPT ![c] = Null]
    /\ ticking' = [ticking EXCEPT ![c] = FALSE]
    /\ contactStatuses' = [contactStatuses EXCEPT ![c] = NoEntries]
    /\ UNCHANGED <<serverVars, changes>>

\* The user quits: OFFLINE is sent, then the request to close, for the id that
\* the program has, granted or remembered.  Without a status it fails.
AppClosing(c) ==
    /\ status[c] # Null
    /\ Exit(c)
    /\ ToServer(c, <<StatusChanged(OFFLINE), CloseConnection(c)>>)

ClientCrash(c) == Exit(c) /\ UNCHANGED up

---------------------------------------------------------------------------
(* The server thread of session c. *)

Serves(c, command) ==
    /\ thread[c] = "serving"
    /\ ~answering[c]
    /\ up[c] # <<>>
    /\ Head(up[c]).command = command
    /\ up' = [up EXCEPT ![c] = Tail(@)]

\* The status is entered under the id that the thread has authenticated: for a
\* program that never signed in that is 0, which is nobody's contact.
UpdateStatus(c) ==
    /\ Serves(c, "STATUS_CHANGED")
    /\ contactsStatuses' =
         IF c \in Remembered
         THEN contactsStatuses
         ELSE [contactsStatuses EXCEPT ![Owner[c]] = Head(up[c]).object]
    /\ UNCHANGED <<thread, answerVars, down, clientVars, closed>>

\* sendContactsStatusesFor begins with an empty map.
ReadContactIds(c) ==
    /\ Serves(c, "CONTACTS_STATUSES_REQUEST")
    /\ answering' = [answering EXCEPT ![c] = TRUE]
    /\ asked' = [asked EXCEPT ![c] = Head(up[c]).object]
    /\ statuses' = [statuses EXCEPT ![c] = NoEntries]
    /\ UNCHANGED <<contactsStatuses, thread, found, down, clientVars, closed>>

\* Fault: the key is not looked for.
ContainsKeyUnchecked(c) ==
    /\ thread[c] = "serving"
    /\ found[c] = {}
    /\ \E k \in asked[c] :
         /\ asked' = [asked EXCEPT ![c] = @ \ {k}]
         /\ found' = [found EXCEPT ![c] = {k}]
    /\ UNCHANGED <<contactsStatuses, thread, answering, statuses, up, down,
                   clientVars, closed>>

\* containsKey for the next contact: without an entry it is OFFLINE.
ContainsKey(c) ==
    /\ thread[c] = "serving"
    /\ found[c] = {}
    /\ \E k \in asked[c] :
         /\ asked' = [asked EXCEPT ![c] = @ \ {k}]
         /\ \/ /\ contactsStatuses[k] = Absent
               /\ statuses' = [statuses EXCEPT ![c][k] = OFFLINE]
               /\ UNCHANGED found
            \/ /\ contactsStatuses[k] # Absent
               /\ found' = [found EXCEPT ![c] = {k}]
               /\ UNCHANGED statuses
    /\ UNCHANGED <<contactsStatuses, thread, answering, up, down, clientVars,
                   closed>>

\* get for a contact whose key was seen: null if the entry is gone by now.
GetStatus(c) ==
    /\ thread[c] = "serving"
    /\ \E k \in found[c] :
         statuses' = [statuses EXCEPT
            ![c][k] = IF contactsStatuses[k] = Absent
                      THEN Null ELSE contactsStatuses[k]]
    /\ found' = [found EXCEPT ![c] = {}]
    /\ UNCHANGED <<contactsStatuses, thread, answering, asked, up, down,
                   clientVars, closed>>

\* The answer is written, or the write fails because the client is gone.
SendStatuses(c) ==
    /\ thread[c] = "serving"
    /\ answering[c]
    /\ asked[c] = {} /\ found[c] = {}
    /\ \/ /\ phase[c] # "gone"
          /\ Len(down[c]) < MaxAnswers
          /\ down' = [down EXCEPT ![c] = Append(@, statuses[c])]
       \/ /\ phase[c] = "gone"
          /\ UNCHANGED down
    /\ answering' = [answering EXCEPT ![c] = FALSE]
    /\ statuses' = [statuses EXCEPT ![c] = NoEntries]
    /\ UNCHANGED <<contactsStatuses, thread, asked, found, up, clientVars,
                   closed>>

\* Fault: the status is left in the map.
CloseKeepingStatus(c) ==
    /\ Serves(c, "CLOSE_CONNECTION")
    /\ thread' = [thread EXCEPT ![c] = "ended"]
    /\ closed' = closed \cup {c}
    /\ UNCHANGED <<contactsStatuses, answerVars, down, clientVars>>

\* Fault: the status is cleared, but its entry is left in the map.
CloseClearingStatus(c) ==
    /\ Serves(c, "CLOSE_CONNECTION")
    /\ contactsStatuses' =
         [contactsStatuses EXCEPT ![Head(up[c]).object] = Null]
    /\ thread' = [thread EXCEPT ![c] = "ended"]
    /\ closed' = closed \cup {c}
    /\ UNCHANGED <<answerVars, down, clientVars>>

\* The entry of the user is removed, also when another session of the same
\* user has put it there.
CloseConnectionWithClient(c) ==
    /\ Serves(c, "CLOSE_CONNECTION")
    /\ contactsStatuses' =
         [contactsStatuses EXCEPT ![Head(up[c]).object] = Absent]
    /\ thread' = [thread EXCEPT ![c] = "ended"]
    /\ closed' = closed \cup {c}
    /\ UNCHANGED <<answerVars, down, clientVars>>

\* readObject fails on the connection of a client that is gone; the map is
\* left alone.
ConnectionReset(c) ==
    /\ thread[c] = "serving"
    /\ ~answering[c]
    /\ phase[c] = "gone"
    /\ thread' = [thread EXCEPT ![c] = "ended"]
    /\ up' = [up EXCEPT ![c] = <<>>]
    /\ UNCHANGED <<contactsStatuses, answerVars, down, clientVars, closed>>

---------------------------------------------------------------------------

User(c) ==
    \/ GrantedContactId(c) \/ StartRemembered(c) \/ ChangeStatus(c)
    \/ AppClosing(c) \/ ClientCrash(c)

Timer(c) == SendClientStatus(c) \/ UpdateContactsStatuses(c)

Server(c) ==
    \/ UpdateStatus(c) \/ ReadContactIds(c) \/ ContainsKey(c) \/ GetStatus(c)
    \/ SendStatuses(c) \/ CloseConnectionWithClient(c)

Next ==
    \E c \in Sessions :
        \/ User(c) \/ Timer(c)
        \/ ContactsStatusesReceived(c) \/ ReceiverStops(c)
        \/ Server(c) \/ ConnectionReset(c)

Spec == Init /\ [][Next]_vars

\* The threads of a client whose receiver reads go on: an alert that is
\* dismissed only delays them.  While an alert stays, the timer waits for the
\* monitor that the receiver holds; nothing is owed then.  Server threads go on,
\* and notice a dead connection in the end; users owe nothing, and the thread
\* of a program that never signed in need not owe anything either.
FairSpec ==
    /\ Spec
    /\ \A c \in Sessions \ Remembered :
         /\ WF_vars(phase[c] = "run" /\ Timer(c))
         /\ WF_vars(ContactsStatusesReceived(c))
         /\ WF_vars(Server(c) \/ ConnectionReset(c))

---------------------------------------------------------------------------
(* Properties. *)

SessionsOf(u) == {c \in Sessions : Owner[c] = u}

\* Once every session that a user has begun has been closed with the server,
\* the map has no entry of the user, whatever was in flight
\* (Server.updateStatus against Server.closeConnectionWithClient).
ClosedIsForgotten ==
    \A u \in Users :
        (\A c \in SessionsOf(u) : phase[c] # "off" => c \in closed)
            => contactsStatuses[u] = Absent

\* c is the only session of its user that tells the server a status, which is s,
\* and its receiver thread reads.
RunsAlone(c, s) ==
    /\ phase[c] = "run"
    /\ thread[c] = "serving"
    /\ status[c] = s
    /\ \A d \in SessionsOf(Owner[c]) \ {c} : phase[d] \notin {"run", "deaf"}

\* An answer holds a null only for a user one of whose sessions has been
\* closed, be it one that never signed in: the two calls on the map disagree
\* about nothing else
\* (Server.sendContactsStatusesFor against Server.closeConnectionWithClient).
NullOnlyOfAClose ==
    \A c \in Sessions, u \in Users :
        statuses[c][u] = Null => SessionsOf(u) \cap closed # {}

\* The sessions of other users that show the status of the user of c.
Watchers(c) ==
    {d \in Sessions : Owner[d] # Owner[c] /\ Owner[c] \in Watched[d]}

\* A user who stays signed in with one status is in the end seen with it by
\* every client of another user that runs and watches, even if an older program
\* of the user, signed in or not, ends late and takes the entry along: the timer
\* puts it back (Client.sendClientStatus and updateContactsStatuses in the timer
\* task).  Both receiver threads have to read: one that has died, or shows an
\* alert that nobody dismisses, lets the buffers fill, and stops the timer and
\* the server thread with them.
StatusIsSeen ==
    \A c \in Sessions \ Remembered : \A d \in Watchers(c) : \A s \in Statuses :
        <>[](RunsAlone(c, s) /\ phase[d] = "run")
            => <>[](contactStatuses[d][Owner[c]] = s)

---------------------------------------------------------------------------
(* What makes ClosedIsForgotten and NullOnlyOfAClose inductive. *)

\* A session has a server thread once it has begun, and none that works once
\* its CLOSE has been served.
ThreadOfSession ==
    \A c \in Sessions :
        /\ thread[c] = "none" <=> phase[c] = "off"
        /\ c \in closed => thread[c] = "ended"

\* A session that has started its timer has a status to send.
HasStatus ==
    \A c \in Sessions : phase[c] \in {"run", "deaf"} => status[c] # Null

\* A session asks to close the connection of its own user.
ClosesItsUser(packets, c) ==
    \A i \in DOMAIN packets :
        packets[i].command = "CLOSE_CONNECTION" => packets[i].object = Owner[c]

\* An entry whose key a thread has seen is gone only after a close.
FoundIsThere ==
    \A c \in Sessions : \A u \in found[c] :
        contactsStatuses[u] # Absent \/ SessionsOf(u) \cap closed # {}

PInv ==
    /\ TypeOK
    /\ ThreadOfSession
    /\ HasStatus
    /\ \A c \in Sessions : ClosesItsUser(up[c], c)
    /\ FoundIsThere
    /\ ClosedIsForgotten
    /\ NullOnlyOfAClose
=============================================================================
