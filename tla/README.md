# Verification of the instant messenger

TLA+ models of the messenger in `src/messanger` and `src/model` (Java): a
server with one thread per connection and an SQLite database, and Swing client
programs that talk to it with serialized `Packet` objects. The models are
checked with TLC on small instances; the core is also proved with TLAPS for
every number of users, letters, connections and restarts.

## The system

| part | state | operations | talks to |
|---|---|---|---|
| `Server` (one object and thread per connection) | its `clientId`; shared by all threads without a lock: `sockets`, `outputs`, `contactsStatuses` (by contact id), one database `connection` | one handler per packet command in `run` | its client over its own streams, *other* clients over the streams in `outputs`, the database |
| `Message`, `Contact`, `ContactList` | rows of three tables; the objects travel in packets | `save`, loads, `authorizeClient`, `remove` | the shared connection |
| `SignInDialog` | form fields and validity flags | nickname check, sign-up, sign-in; writes and waits for the answer on the event thread | server; calls `grantedContactId` |
| `Client` | `clientId`, `status`, `contacts`, `contactStatuses`, `msgFrames`, `newContact`, `deletedContact`, dialog references | user events (event thread), packets (receiver thread), status timer (timer thread) | server, windows, dialogs |
| `ClientMessageFrame` | list of messages, receiver id | send a text, show a message, close | `Client` and its stream |
| `AddContactDialog`, `ArchiveDialog` | search timer and task, list shown | search, add, show the archive | server, `Client` |
| `DataBase`, `Packet`, `Status` | - | tables are created once; data carriers | - |

What is hard here: the `synchronized` handlers of `Server` lock the thread's own
object, so nothing protects the shared maps, the shared connection or another
client's stream; clients, connections and the server may die between any two
steps; the sign-in dialog and `loadContactList` read "the next packet" from a
stream on which other threads may already be writing; the client has three
threads and no common lock; an answer refers to a request only by being the next
one. `PROJECT.json` lists each hazard at its line.

What makes each part correct:

* message exchange: an accepted letter is displayed to its addressee or stays an
  unread message of the addressee, through any crash; nobody else sees it; a
  session shows the mail that was waiting for it;
* registration: one account per nickname, the id granted is the id of the row
  inserted, credentials keep leading to one account;
* windows: one per contact, every message visible in the right one;
* presence: a lasting status is seen, a user who has left is forgotten;
* contact book: the list on the screen is the list in the table;
* dialogs: an answer is shown in the dialog that asked, for what it asked;
* streams: packets arrive whole, and nobody waits for ever.

Several of these do not hold: see the runs.

## The modules

**`MessageStore`** is `model/Message.java` against the `message` table: `Save`
(UPDATE for an object with an id, INSERT without reading the key back), `Load`
(with the swapped constructor arguments of the loading methods),
`UnreadMessagesFor` and `ArchiveMessagesFor`. A row is its position: keys are AUTOINCREMENT and the
server deletes no message. The text of a message is its *letter*, a record of
who wrote it to whom, which the code copies and never looks at. The model can
therefore compare what the columns say with what was meant.

**`Messaging`** is the core. A connection `c` is one run of a client program with
its socket and its server thread; `up[c]` and `down[c]` are the packets in
flight. The client goes through `phase` *off, dialog, signIn, load, run, deaf, gone*, or
*off, idle, gone* when the preferences hold an id from an earlier sign-in
(`ConnectRemembered`: no dialog, so nothing that `grantedContactId` would do, and the
user can only close the program): `Connect` (constructor), `TrySignIn`, `ReceiveSignInResponse` (the dialog, and
`grantedContactId` up to the request for the contact list), `LoadContactList`
(its one `readObject`, the request for unread messages, start of the receiver
thread), then `SendMessage`, `HandleReceivedMessage`, `AppClosing`. `ReceiverStops` makes a
running client *deaf*: a packet has ended its receiver thread, as a window closed between
`containsKey` and `get` does, or made it show an alert that stays; the user goes on writing and
the server goes on serving, but nothing that comes is read. The server
thread has one action per handler; `passMessage` is two (`PassMessage` up to the
end of `save`, `Forward` for lookup and write) and `sendUnreadedMessages` is
`SelectUnreaded` and one `SendUnreaded` per message, because other threads act
in between. `ClientCrash`, `ReceiverStops`, `ConnectionReset`, `LoseServer` and `ServerRestart`
are the failures; a reset may also follow a normal quit, because the client
closes a socket that may hold unread data, and then what was in flight, CLOSE
included, is lost. `sent` and `shown` are history variables.

**`Mailbox`** is the promise: letters are accepted, pending and seen, a letter
stops being pending only when it has been seen, and none is forgotten.
`Messaging!Promise` maps the table and the screens to it.

**`MessagingInv`** holds the inductive invariants `IInv`, `RInv`, `MInv` and `AInv`;
**`Messaging_proofs`** (`IInv`, `RInv`) and **`Delivery_proofs`** (`MInv`, `AInv`) the
proofs; **`MCMessaging`** the instances.

**`Accounts`** is registration: dialog and server thread of a program are one
process, since the dialog blocks on each answer. `EditNick` and `CheckNickIsFree`, the edit
and the loss of focus, are two events, between which the flag `isNickCorrect` is that of the earlier
nickname and the form may be sent; `unchecked` is the history of the programs that did. `Contact.save` is two steps,
the INSERT and the SELECT of the generated key, which the JDBC driver runs as a
second statement (`last_insert_rowid()`) on the connection that all threads
share; `InsertMessage` is any other thread's INSERT in between. `AuthorizeClient`
takes the first matching row.

**`MessageWindows`** is `msgFrames` under two threads, one step per call on the
map: the receiver thread (`ContainsKey`, then `GetFrame` or `CreateFrame` and
`PutFrame`, then `AddMessage` with the confirmation) and the event thread
(`ValueChanged`, `OpenFrame`, `RegisterFrame`, `WindowClosing`). A window can be
closed as soon as its constructor has made it visible. `AddMessage` does not
look whether the window is still open, as the code does not. Histories: `closes` are the contacts a window of
which has ever been closed, `meanwhile` those since the receiver's last `containsKey`.

**`Presence`** is `contactsStatuses` under the threads of several sessions:
`UpdateStatus`, the answer to a request contact by contact (`ContainsKey`, then
`GetStatus`), `CloseConnectionWithClient`; on the client the menu, the timer task
with its two packets, the receiver and the end of the program. A session in `Remembered` has its id from the
preferences (`StartRemembered`): no status, timer, receiver thread or authentication. What it
tells the server is entered under the id 0 of its thread, but its CLOSE_CONNECTION
names the remembered id, and removes that entry. `ReceiverStops` is as in `Messaging`, for the sessions in `Fallible`.

**`ContactBook`** is the contact list of one user: the `contact_list` rows, the maps
`contacts` and `contactStatuses`, the list on the screen. The event thread writes a
request (`ContactAdded`, `RemoveContactPressed`) and remembers its contact one step
later (`Remember`); the receiver thread handles an answer one statement at a time
(`ChangeStatuses`, `ChangeContacts`, `ChangeList`, `ClearSlot`), reading the field anew
in each, or dies of a null in it (`NullContact`), or shows the alert while it holds
the monitor of the `Client` object (`ShowAlert`). `raced` remembers whether requests of
one kind overlapped, or an answer overtook the assignment. One program of the user is assumed: the list of a
program does not follow what a second one changes in the rows, nor is it told.

**`Dialogs`** is `AddContactDialog` and `ArchiveDialog` with their timers, the two
references of the client and the receiver thread, which compares a reference with
null (`LookForDialog`) and reads it again for the call (`UpdateDialog`, `NoDialog`).
Opening an archive dialog is two steps, the constructor with its query and the
assignment. A text is the number of the change that made it, and an answer is
the query that it answers; the three fields of the form are one text. `closed` is the history of
the kinds of dialog closed since the receiver last compared a reference with null.

**`Connections`** is what the other modules abstract from: every `writeObject` has a
beginning and an end, ends only when the buffers of the connection have room, and
mixes its bytes with those of a second writer. `BeginLocked` waits for the
monitor of the `Client` object, message windows and dialogs write without it, server
threads write to streams of other clients holding their own. What a packet
says is left out, except for what it makes its reader write (`Reaction`).
`ReceiverDies` stands for every way in which the other modules see that thread end.

The inductive invariant of each of the last six modules stands at its end
(`RegistrationInv`, `WInv`, `PInv`, `CInv`, `DInv`, `CInv`), the proofs in **`Accounts_proofs`**,
**`MessageWindows_proofs`**, **`Presence_proofs`**, **`ContactBook_proofs`**, **`Dialogs_proofs`**
and **`Connections_proofs`**.

An operator whose comment begins with "Fault" is a wrong variant of the definition
after it, kept to show that the properties notice it; no specification uses it.

## The runs

| run | question | result |
|---|---|---|
| `Messaging_exchange` | one letter each way, 2 connections, 1 restart: types, addressees, growth of the table, the archive of two people is the stored letters between them, the mailbox refinement, mail stored when a session begins to load is displayed in it, unless the session ends or its receiver thread stops | holds, under `FairSpec` |
| `Messaging_sessions` | 3 connections for 2 users (return after a crash, two sessions at once, a remembered id): `IInv`, `UndeliveredIsKept`, `ReadMeansDisplayed`, `RegisteredIsAuthenticated`, `ReachableUnlessShared` | holds |
| `Messaging_rows` | one row per message | violated: live copies are confirmed by a second INSERT |
| `Messaging_window` | a message is shown in its sender's window | violated: unread messages open the reader's own |
| `Messaging_contacts` | a client runs with its contact list | violated: a message takes the list's place |
| `Accounts_register` | 3 programs, 2 nicknames, 2 passwords: duplicates only from a check that did not see the older account; the login of any other account leads to it; stable logins | holds |
| `Accounts_ids` | signing up grants the row inserted for it | violated: another INSERT comes before the key is read |
| `MessageWindows_races` | 3 messages, 2 contacts, 4 windows: what the races cannot do | holds |
| `Presence_sessions` | a user and a client of another user that watches, whose timers tick, and an older program of the first user with a remembered id: types, `ClosedIsForgotten`, `NullOnlyOfAClose`, a lasting status is seen by the other client | holds under `FairSpec` |
| `ContactBook_requests` | 3 requests about 2 contacts: the list is the table when nothing raced; the receiver thread dies only of a race; statuses come back; the event thread is stopped for good only by the alert | holds under `FairSpec` |
| `Dialogs_answers` | 2 dialogs, 2 changes, buttons and closes: the result shown is that for the text, an archive is its own, a scheduled search is made | holds under `FairSpec` |
| `Connections_standstill` | 2 clients, 3 things begun, 2 unread messages, buffers for one packet: who spoils a stream, what a standstill is | holds |

Several promises of the comments do not hold without a condition, and the properties
that hold in the runs say by how much:

* nicknames "should be unique" (`Contact.java:80`): `OnlyRacingDuplicates` says that two
  accounts share one only if the check of the younger came before the INSERT of the older, or
  the nickname was edited and sent before it was checked again;
* "at most one window" per contact (`Client.java:150`): `ShownUntilOneIsClosed` says that
  there are two at most while none is closed; and a received message is displayed
  (`Client.java:426`) unless its window has been closed under it;
* streams are kept so that other threads reach a client (`Server.java:300`):
  `ReachableUnlessShared` says that a running client is registered unless another
  program has used its account, be it only to start with the remembered id and
  close again;
* a contact without a status is OFFLINE (`Server.java:493`): `NullOnlyOfAClose` says that a
  null can be in its place only after a CLOSE;
* the contact being added is kept until its answer (`Client.java:773`): `ListIsTable` and
  `DiesOnlyOfARace` name the two races in which it is not;
* messages that are unread are delivered (`Server.java:531`): `StandstillIsARing` says that
  with bounded buffers there is one way to stop short of a dead thread: a server thread
  writes to a client that does not read, because it waits itself for a server thread
  that does not read.

Bounds. `Letters` bounds what is sent (each is typed once), `Conns` and `Sessions`
how often a program is started, `MaxRestarts` the deaths of the server,
`MaxOtherRows` the rows of the message table that move `last_insert_rowid()`,
`MaxFrames` the windows constructed, `MaxQueue` the packets in flight to the
server in `Presence` (`MaxAnswers` those to a client) and those before the search button is pressed in `Dialogs`, `MaxChanges` the choices
from the status menu of each session or the changes to the forms, `StartsAs` the statuses a session may
have in its preferences, `Fallible` the sessions whose receiver thread may stop, `MaxDialogs` the dialogs opened,
`MaxRequests` the requests to add and remove, `MaxAsked` the requests for statuses in flight,
`MaxSends` what users and timers begin in `Connections`; `Capacity` is the size of a buffer
and `Unread` the mail that waits. Two users are enough for
sender and addressee, since the server treats each recipient by itself; three connections
let one user be signed in twice or come back while another writes; a third message
and a second contact let the window threads disagree about different entries;
two INSERTs and one reader are enough to make a generated key wrong; three requests
let two of one kind overlap while one of the other is answered; two dialogs let an
answer meet the other one; in `Presence` one session that shows a status, one of
another user that watches it, and one program whose CLOSE takes the entry along are what
`StatusIsSeen` is about: the watched session starts ONLINE or OFFLINE, which is also what no entry
reads as, and stays so, and only its receiver may stop, since a stopped receiver of the watcher is outside the property too; more unread messages than a buffer holds, and a writer on
each side, are enough to close a ring. The
deadlock check is off in every run because programs end and bounds are used up.

Fairness. `Messaging!FairSpec` has weak fairness for the client's and the server's
threads of each connection: a thread whose next packet is there, or that has
something left to write, goes on; the receiver thread does until it stops, which is a failure
that `SessionGetsItsMail` allows for: the letter then waits, unread, for a later session
(`UndeliveredIsKept`). Users and failures owe nothing. Weak fairness
is enough: what one thread can do no other thread disables, short of the
connection's end, which the property allows for. `Presence!FairSpec` adds the timer
(it repeats every five seconds, and is owed only while the receiver thread of its client reads: behind
an alert that stays, the timer waits for the monitor, and one that is dismissed only delays it) and, for a client that is gone, that its server
thread reads the rest or notices the reset; a program that never signed in is owed nothing. Status changes are finite in number
there (`MaxChanges`), as the property's "stays signed in with one status" requires, and the receivers of both clients have to read.
`ContactBook!FairSpec` and `Dialogs!FairSpec` let the threads go on with what they have
begun and the timers fire; nobody has to dismiss an alert or press a button. Weak fairness
is enough for the monitor in `ContactBook`, since the receiver thread holds it
for finitely many answers only. `Connections` needs none: a standstill is a state.

## The proofs

`Messaging_proofs` is about `Messaging` with any finite or infinite set of users,
letters and connections. Its assumptions are those of the modules:
`LettersAssumption` (letters are between users), `NoUserAssumption` (0 is no
user's id), `NoConnAssumption`, `MaxRestartsAssumption`.

`UndeliveredIsKept` is not inductive: an unread row may disappear only because a
confirmation updates it, so what matters is what is in flight. `IInv` adds that

* a message object with an id refers to the row with its letter, and a message
  travels only to, or is selected only for, the letter's addressee (`RefersToItsRow`,
  `MailFor`, `GoodDown`);
* what a client sends up is a new message of its own or a confirmation of a letter that
  has been displayed to its addressee (`GoodUp`);
* sign-in requests do not overlap with messages on a connection, so that `who` and
  `clientId` agree when messages flow (`AsksToSignIn`, `ConnInv`), which in turn
  makes `outputs[u]` a connection authenticated as `u`;
* an unread row still has its addressee in the receiver column (`UnreadIsAddressed`):
  confirming a loaded message swaps the columns of the row, but marks it as read
  in the same statement.

There is one lemma per action; `Inductive` combines them. `TypeCorrect`, `NothingIsLost`,
`ReadIsDisplayed`, `OnlyToAddressee` and `RegisteredOwns` are its
consequences, and `TableGrows` is the action property from the same invariant.

The last part of `Messaging_proofs` proves `ReachableUnlessShared`. `IInv` does not say who may remove an entry
of `outputs`; `RInv` adds that a CLOSE_CONNECTION in flight is its program's last packet and
names that program's id (`ClosesItsOwn`), that no id is there before it is granted or
remembered (`HasNoIdYet`), and that an authenticated thread of a living program is the one
registered unless the account is shared (`IsReachable`). Ids never change once they are there,
so an account that has been shared stays so; that keeps the disjunct stable.

`Delivery_proofs` proves the refinement, `Spec => ImplementsMailbox`: every step is a step of the
mailbox under the mapping, or none. The one step that stores a letter has to be an acceptance,
and the step that displays one has to find it stored. `MInv` therefore adds that the letter of every
copy that the server holds, or that travels to a client or back as a confirmation, is
stored (`CopiesAreStored`), and that a new message in flight is in no row yet and is
the only one of its letter (`NewIsUnstored`, `NewIsUnique`). That a pending letter never disappears
is again `UndeliveredIsKept`.

Its last part proves `ArchiveIsConversation`. Every load swaps sender and receiver, a confirmation
writes the swapped columns back, and a later load swaps them again, so no column can be trusted
to name the sender. The archive is right all the same because its SELECT asks for both
orders, and because the two columns together always name the two people of the letter. `AInv` says that
of every row, and of every message object that a server thread holds or that travels.

`Connections_proofs` proves `ServerDiesOfUnlockedWrite` and `StandstillIsARing` for any clients, buffer size,
amount of waiting mail and number of things begun. `CInv` says that at most one thread of a client holds the
monitor (`OneInMonitor`), that in every meeting on a stream one writer is without it (`MeetsUnlocked`), that a
server thread which dies, and a packet that is mixed up, both go back to such a meeting
(`BadOfMeeting`), and which thread has a packet to write (`HasPlan`). The ring follows from it by going
round: a client thread that waits has, possibly behind the monitor, a write that finds no room, so its server thread
does not read; if that thread lives it is in a write itself, so the receiver thread of some client does not
read; if that one lives it waits too, and its own server thread does not read either. What can move is stated by the guards of the
actions (`CanWork`), which the actions share. The assumptions are `UnreadAssumption` (the waiting mail is a
natural number for each client) and `BoundsAssumption` (a buffer holds at least one packet).

`Accounts_proofs` proves `OnlyRacingDuplicates`, `LoginFindsOwnAccount` and `LoginIsStable` for any programs, nicknames,
passwords and rows of other tables (`MaxOtherRowsAssumption`). That two accounts share a nickname
only if a check missed one is a fact about forms, not about rows: `RegistrationInv` says that
while the flag `isNickCorrect` holds and the nickname is unedited since, and while the answer that will
set the flag is on its way, every account of the nickname in the form is younger than its check
(`FlagIsTrue`), that only such a form, or one in `unchecked`, is signed up (`FormIsReady`), and that
a program which has inserted an account sends no other form
(`AuthorsAreDone`), so that its check stays the one the account was inserted on.

`MessageWindows_proofs` proves the four properties of the window race for any messages, contacts
and bound on windows (`SenderAssumption`, `NoneAssumption`, `MaxFramesAssumption`). The hard part is that
two windows of a contact are the most. `OneTooMany` counts them by where the threads are: without
an entry in `msgFrames`, the windows of the contact are those that a thread is about to register; with
one, only one of the threads can still be about to construct another, and only if
there is just the registered one. It holds for contacts none of whose windows has been closed.

`Presence_proofs` proves `ClosedIsForgotten` and `NullOnlyOfAClose` for any sessions, users and statuses
(`SessionsAssumption`, `StatusesAssumption`, `MaxQueueAssumption`, `MaxChangesAssumption`). An entry comes only from a
session whose server thread still serves, and CLOSE_CONNECTION is the last thing that a thread serves (`ThreadOfSession`);
it removes the entry of the session's own user (`ClosesItsUser`), and a key that a thread has seen
can be gone only after that (`FoundIsThere`). A session whose timer runs has a status to send (`HasStatus`).

`ContactBook_proofs` proves `ListIsTable` and `DiesOnlyOfARace` for any contacts and number of requests
(`NoContactAssumption`, `BoundsAssumption`). Between the table and the screen lie requests in flight, answers in flight
and a handler that is between two statements. `Expected` says what each contact's row must be: what the last
accepted answer in flight about the contact says, and, if there is none, what the client's map
says once the handler is through. It needs that there is one request of a kind at a time (`OneOfAKind`), that the
client knows what the answer will be about (`IsRemembered`), and that what failed to load at
sign-in stays out of all this (`MissingStay`). All of that holds only as long as nothing
has raced (`Orderly`); `AddsAreCounted`, a count of the answers that may still add an element to the
list, holds always and bounds the list for `TypeOK`.

`Dialogs_proofs` proves `SettlesOnText`, `ArchiveIsItsOwn` and `DiesOnlyOfAClose` for any number of dialogs, changes
and packets (`BoundsAssumption`). The answer that the receiver thread holds, those on their way to it and the
queries on their way to the server are read as one queue, `Flight`. Then the server's steps change
nothing, the dialogs and timers only append to it, and the receiver thread only takes from its head. `SearchIsAnswered`
says that a search dialog with nothing scheduled lists what its form says, or the last of its queries in the queue asks for
it; `ArchiveIsAnswered` that an archive dialog has its messages and no query in the queue, or the reverse. The
step that shows an answer needs that an archive dialog asks once (`ArchivesAskOnce`) and that an answer
which came before its dialog was referred to has marked both dialogs (`EarlyIsHurried`); the step
that assigns the reference needs that the new dialog's query is the only archive query in flight
(`OpeningIsNew`).

TLC checked every invariant on the instance of its module's run before it was proved
(`DInv` also with three dialogs and one change); `IInv` is part of a run.

Only model-checked: the liveness properties `SessionGetsItsMail`, `StatusIsSeen`, `StatusComesBack`,
`EventThreadReturns` and `TextIsSearched`, because the prover has no rules for fairness here. Every
other property of a run that holds is a theorem.

## What is abstracted

* `Messaging` leaves out the packets that carry no message: presence, contacts, search, archive.
  They only add elements to the streams that no messaging handler looks at, with one
  exception: any packet may be the one that `loadContactList` drops, and only a message
  can come there, because the client has asked for nothing else.
* Signing up is a second way to sign in; it differs in how the id is found, which is
  `Accounts`.
* The answer to a sign-in and the `outputs.put` after it are one action: what the
  client does on the answer has to be served by the same thread. Another thread can see
  the entry only later than the answer is written, which the model shows as a later `Forward`.
* `Forward` joins lookup and write. A write to a stream that has been unregistered or replaced
  since the lookup is represented by the same `Forward` before that change; only its place among the
  packets that the connection's own thread wrote meanwhile can differ, and no property looks at it.
* SQL statements are atomic (the driver locks the connection), and so are single calls on
  the `HashMap`s: what concurrent `put`s can do to the table inside a map is left out.
* Streams carry whole packets in every module but `Connections`, which shows what that depends on.
  There, once two packets have been mixed, whatever follows on the stream may be unreadable; a
  mixed packet may also be read as if nothing had happened, the reader's luck.
* Fields that threads share without a monitor are read and written in program order; what the Java
  memory model allows beyond that is left out.
* The event thread of `Connections` stands for the menu, the message windows and the dialogs, which
  all run on it. `TaskBegins` joins the start of a search task with its reading of the form.
* In `Presence` the contact list of a session is fixed and the server does not restart. The older
  program of `Presence_sessions` is one that has remembered its id; two sessions of one user that
  are both signed in are covered by the proofs but not by the run: with `Remembered = {}`, no choices from the menu,
  an `a2` that starts OFFLINE and `MaxAnswers = 2`, all four properties hold in 1.34 million states, too many for a run.
* How a receiver thread comes to stop is one step in `Messaging` and `Presence` (`ReceiverStops`), at any
  moment; the windows, the contact book and the dialogs show the races that lead there. It
  also stands for an alert that nobody dismisses.
* `ContactBook` has one program of its user (`Server.java:385` lets several change the rows).
* The order of a button press and the `focusLost` of the field left for it is not fixed in `Accounts`;
  Swing may always deliver the second first, and then no form in `unchecked` exists.
* Exceptions from SQL are left out: the handlers log them and go on.

* Closing a program before it has a status is an exception in which nothing changes
  (`Client.java:893`), and is left out; with a status from the menu it closes in every phase.

Not modelled: layout, renderers and menus, `DataBase`, the statements nobody calls, and
the SQLite sources in `src/sqlite-autoconf-3080600`, which are third-party code.

## The plan

1. Done: `MessageStore`, `Messaging`, `Mailbox`, the proof of `IInv`; `Accounts`,
   `MessageWindows`, `Presence`.
2. Done: `ContactBook`, `Dialogs`, `Connections`, programs with a remembered id; the
   proofs of `ReachableUnlessShared`, of the refinement of `Mailbox`, of `ArchiveIsConversation` and
   of `ServerDiesOfUnlockedWrite`.
3. Done: the proofs about `Accounts`, `MessageWindows`, `Presence`, `ContactBook` and
   `Dialogs`, and of `StandstillIsARing` of `Connections`.
4. Left: the conditions under which the violated promises hold, as `SignUpGrantsOwnAccount`
   when no other INSERT comes between the INSERT and the SELECT of the key.
