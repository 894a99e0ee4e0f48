------------------------------- MODULE Dialogs -------------------------------
(***************************************************************************)
(* The search and archive dialogs of a client program: AddContactDialog    *)
(* asks the server for contacts that match what is typed into it, three    *)
(* seconds after the last change or when the search button is pressed;     *)
(* ArchiveDialog asks once, in its constructor, for the messages exchanged *)
(* with a contact.  The client keeps one reference for each kind of        *)
(* dialog, and the receiver thread passes an answer to the dialog that is  *)
(* referred to when it comes.  The dialogs are modeless: more than one of  *)
(* a kind may be open, and closing any of them clears the reference.       *)
(*                                                                         *)
(* What is typed into a form is the number of the last change made to it,  *)
(* 0 for the empty form; an answer is the query that it answers.           *)
(***************************************************************************)
EXTENDS Naturals, Sequences, SequencesExt

CONSTANTS
    MaxDialogs,   \* bound on the dialogs ever opened
    MaxChanges,   \* bound on the changes made to the forms of the dialogs
    MaxQueue      \* bound on the packets in flight when the button is pressed

ASSUME BoundsAssumption ==
    MaxDialogs \in Nat /\ MaxChanges \in Nat /\ MaxQueue \in Nat

VARIABLES
    dialogs,     \* the dialogs opened so far; a dialog is its position
    current,     \* addContactDialog and archiveDialog, 0 for null
    opening,     \* event thread: archive dialog constructed, not yet
                 \*   referred to; 0 for none
    scheduled,   \* dialogs whose timer has a task that has not begun
    running,     \* tasks that have read the form and not yet written
    toServer,    \* queries in flight
    toClient,    \* answers in flight
    receiver,    \* receiver thread: where it is
    hurried,     \* history: dialogs in which one of the races happened
    changes,     \* history: changes made to the forms so far
    closed       \* history: kinds of dialogs closed since the receiver last
                 \*   compared a reference with null

vars == <<dialogs, current, opening, scheduled, running, toServer, toClient,
          receiver, hurried, changes, closed>>

Kinds == {"search", "archive"}

Numbers == 1 .. MaxDialogs

Query == [kind : Kinds, dialog : Numbers, text : 0 .. MaxChanges]

Dialog == [kind : Kinds, open : BOOLEAN, text : 0 .. MaxChanges,
           listModel : Seq(Query)]

TypeOK ==
    /\ dialogs \in Seq(Dialog) /\ Len(dialogs) <= MaxDialogs
    /\ current \in [Kinds -> 0 .. Len(dialogs)]
    /\ \A kind \in Kinds :
         current[kind] # 0 => dialogs[current[kind]].kind = kind
    /\ opening \in 0 .. Len(dialogs)
    /\ scheduled \in SUBSET DOMAIN dialogs
    /\ running \in SUBSET [dialog : DOMAIN dialogs, text : 0 .. MaxChanges]
    /\ toServer \in Seq(Query)
    /\ toClient \in Seq(Query)
    /\ receiver \in [at : {"wait"}] \cup [at : {"use", "dead"}, answer : Query]
    /\ hurried \in SUBSET DOMAIN dialogs
    /\ changes \in 0 .. MaxChanges
    /\ closed \in SUBSET Kinds

Init ==
    /\ dialogs = <<>>
    /\ current = [kind \in Kinds |-> 0]
    /\ opening = 0
    /\ scheduled = {}
    /\ running = {}
    /\ toServer = <<>>
    /\ toClient = <<>>
    /\ receiver = [at |-> "wait"]
    /\ hurried = {}
    /\ changes = 0
    /\ closed = {}

\* Queries of this kind whose answers have not been passed on.
InFlight(kind) ==
    {q \in ToSet(toServer \o toClient) : q.kind = kind} \cup
    (IF receiver.at = "use" /\ receiver.answer.kind = kind
     THEN {receiver.answer} ELSE {})

---------------------------------------------------------------------------
(* The event thread.  It handles one event at a time, so nothing else      *)
(* happens on it while an archive dialog is being opened.                  *)

NewDialog(kind) ==
    /\ opening = 0
    /\ Len(dialogs) < MaxDialogs
    /\ dialogs' = Append(dialogs, [kind |-> kind, open |-> TRUE, text |-> 0,
                                   listModel |-> <<>>])

OpenAddContactDialog ==
    /\ NewDialog("search")
    /\ current' = [current EXCEPT !["search"] = Len(dialogs')]
    /\ UNCHANGED <<opening, scheduled, running, toServer, toClient, receiver,
                   hurried, changes, closed>>

\* The constructor writes the query.
NewArchiveDialog ==
    /\ NewDialog("archive")
    /\ opening' = Len(dialogs')
    /\ toServer' = Append(toServer, [kind |-> "archive", dialog |-> opening',
                                     text |-> 0])
    /\ hurried' = IF InFlight("archive") = {} THEN hurried
                                              ELSE hurried \cup {opening'}
    /\ UNCHANGED <<current, scheduled, running, toClient, receiver,
                   changes, closed>>

\* Fault: the reference to the other kind of dialog is set.
AssignAddContactDialog ==
    /\ opening # 0
    /\ current' = [current EXCEPT !["search"] = opening]
    /\ opening' = 0
    /\ UNCHANGED <<dialogs, scheduled, running, toServer, toClient, receiver,
                   hurried, changes, closed>>

\* Fault: the messages are asked for once more.
AssignArchiveDialogAndAsk ==
    /\ opening # 0
    /\ current' = [current EXCEPT !["archive"] = opening]
    /\ toServer' = Append(toServer, [kind |-> "archive", dialog |-> opening,
                                     text |-> 0])
    /\ opening' = 0
    /\ UNCHANGED <<dialogs, scheduled, running, toClient, receiver, hurried,
                   changes, closed>>

\* Only then is the new dialog referred to.
AssignArchiveDialog ==
    /\ opening # 0
    /\ current' = [current EXCEPT !["archive"] = opening]
    /\ opening' = 0
    /\ UNCHANGED <<dialogs, scheduled, running, toServer, toClient, receiver,
                   hurried, changes, closed>>

\* Between reading the form and writing the query, a task of this dialog is
\* overtaken by what the user does.
Hurry(d) ==
    hurried' = IF \E task \in running : task.dialog = d
               THEN hurried \cup {d} ELSE hurried

\* searchDataChanged cancels the task that is scheduled and schedules a new
\* one; a task that has begun goes on.
SearchDataChanged(d) ==
    /\ opening = 0
    /\ dialogs[d].kind = "search"
    /\ dialogs[d].open
    /\ changes < MaxChanges
    /\ changes' = changes + 1
    /\ dialogs' = [dialogs EXCEPT ![d].text = changes']
    /\ scheduled' = scheduled \cup {d}
    /\ Hurry(d)
    /\ UNCHANGED <<current, opening, running, toServer, toClient, receiver,
                   closed>>

GetContactsSuggestionFor(d, text) ==
    toServer' = Append(toServer, [kind |-> "search", dialog |-> d,
                                  text |-> text])

\* Fault: the button only cancels a search that is scheduled.
SearchButtonOnlyCancels(d) ==
    /\ opening = 0
    /\ dialogs[d].kind = "search"
    /\ dialogs[d].open
    /\ Len(toServer \o toClient) < MaxQueue
    /\ IF d \in scheduled
       THEN UNCHANGED toServer
       ELSE GetContactsSuggestionFor(d, dialogs[d].text)
    /\ scheduled' = scheduled \ {d}
    /\ Hurry(d)
    /\ UNCHANGED <<dialogs, current, opening, running, toClient, receiver,
                   changes, closed>>

\* The search button cancels the task and asks at once.
SearchButtonPressed(d) ==
    /\ opening = 0
    /\ dialogs[d].kind = "search"
    /\ dialogs[d].open
    /\ Len(toServer \o toClient) < MaxQueue
    /\ GetContactsSuggestionFor(d, dialogs[d].text)
    /\ scheduled' = scheduled \ {d}
    /\ Hurry(d)
    /\ UNCHANGED <<dialogs, current, opening, running, toClient, receiver,
                   changes, closed>>

\* A dialog is closed, by its user or after "add contact".  The reference is
\* cleared, whichever dialog it is to; the timer is not cancelled.
DialogClosed(d) ==
    /\ opening = 0
    /\ dialogs[d].open
    /\ dialogs' = [dialogs EXCEPT ![d].open = FALSE]
    /\ current' = [current EXCEPT ![dialogs[d].kind] = 0]
    /\ closed' = closed \cup {dialogs[d].kind}
    /\ UNCHANGED <<opening, scheduled, running, toServer, toClient, receiver,
                   hurried, changes>>

---------------------------------------------------------------------------
(* The timers. *)

\* Three seconds have passed: the task begins, and reads the form.
TaskBegins(d) ==
    /\ d \in scheduled
    /\ scheduled' = scheduled \ {d}
    /\ running' = running \cup {[dialog |-> d, text |-> dialogs[d].text]}
    /\ UNCHANGED <<dialogs, current, opening, toServer, toClient, receiver,
                   hurried, changes, closed>>

TaskWrites(d) ==
    /\ \E task \in running :
         /\ task.dialog = d
         /\ running' = running \ {task}
         /\ GetContactsSuggestionFor(d, task.text)
    /\ UNCHANGED <<dialogs, current, opening, scheduled, toClient, receiver,
                   hurried, changes, closed>>

---------------------------------------------------------------------------
(* The server thread: handleContactsSearch and sendArchiveMessages. *)

Answer(kind) ==
    /\ toServer # <<>>
    /\ Head(toServer).kind = kind
    /\ toServer' = Tail(toServer)
    /\ toClient' = Append(toClient, Head(toServer))
    /\ UNCHANGED <<dialogs, current, opening, scheduled, running, receiver,
                   hurried, changes, closed>>

HandleContactsSearch == Answer("search")

SendArchiveMessages == Answer("archive")

---------------------------------------------------------------------------
(* The receiver thread. *)

\* An answer has come before its archive dialog is referred to: it is lost for
\* that dialog, and may be shown by the one referred to so far.
Early(answer) ==
    hurried' = IF answer.dialog = opening
               THEN (hurried \cup {opening, current["archive"]}) \ {0}
               ELSE hurried

\* Fault: the reference is not compared with null.
DoNotLookForDialog ==
    /\ receiver.at = "wait"
    /\ toClient # <<>>
    /\ toClient' = Tail(toClient)
    /\ receiver' = [at |-> "use", answer |-> Head(toClient)]
    /\ Early(Head(toClient))
    /\ closed' = {}
    /\ UNCHANGED <<dialogs, current, opening, scheduled, running, toServer,
                   changes>>

\* The reference is compared with null; the answer is dropped if it is null.
LookForDialog ==
    /\ receiver.at = "wait"
    /\ toClient # <<>>
    /\ toClient' = Tail(toClient)
    /\ receiver' = IF current[Head(toClient).kind] = 0 THEN receiver
                   ELSE [at |-> "use", answer |-> Head(toClient)]
    /\ Early(Head(toClient))
    /\ closed' = {}
    /\ UNCHANGED <<dialogs, current, opening, scheduled, running, toServer,
                   changes>>

\* Fault: the suggestions shown so far are left on the list.
UpdateDialogUncleared ==
    /\ receiver.at = "use"
    /\ LET d == current[receiver.answer.kind] IN
         /\ d # 0
         /\ dialogs' = [dialogs EXCEPT ![d].listModel =
                                         Append(@, receiver.answer)]
    /\ receiver' = [at |-> "wait"]
    /\ UNCHANGED <<current, opening, scheduled, running, toServer, toClient,
                   hurried, changes, closed>>

\* The reference is read again for the call.  updateSuggestedContacts
\* replaces what is listed, updateArchiveMessagesList adds to it.
UpdateDialog ==
    /\ receiver.at = "use"
    /\ LET d == current[receiver.answer.kind]
           before == IF receiver.answer.kind = "search" THEN <<>>
                                                   ELSE dialogs[d].listModel
       IN /\ d # 0
          /\ dialogs' = [dialogs EXCEPT ![d].listModel =
                                          Append(before, receiver.answer)]
    /\ receiver' = [at |-> "wait"]
    /\ UNCHANGED <<current, opening, scheduled, running, toServer, toClient,
                   hurried, changes, closed>>

\* It has become null in between: the exception leaves run.
NoDialog ==
    /\ receiver.at = "use"
    /\ current[receiver.answer.kind] = 0
    /\ receiver' = [receiver EXCEPT !.at = "dead"]
    /\ UNCHANGED <<dialogs, current, opening, scheduled, running, toServer,
                   toClient, hurried, changes, closed>>

---------------------------------------------------------------------------

User ==
    \/ OpenAddContactDialog \/ NewArchiveDialog
    \/ \E d \in DOMAIN dialogs :
         \/ SearchDataChanged(d) \/ SearchButtonPressed(d) \/ DialogClosed(d)

Server == HandleContactsSearch \/ SendArchiveMessages

Receiver == LookForDialog \/ UpdateDialog \/ NoDialog

Timer(d) == TaskBegins(d) \/ TaskWrites(d)

Next ==
    \/ User \/ AssignArchiveDialog \/ Server \/ Receiver
    \/ \E d \in DOMAIN dialogs : Timer(d)

Spec == Init /\ [][Next]_vars

\* The threads and timers go on; the user owes nothing.
Fairness ==
    /\ WF_vars(AssignArchiveDialog) /\ WF_vars(Server) /\ WF_vars(Receiver)
    /\ \A d \in Numbers : WF_vars(d \in DOMAIN dialogs /\ Timer(d))

FairSpec == Spec /\ Fairness

---------------------------------------------------------------------------
(* Properties. *)

Quiet == toServer = <<>> /\ toClient = <<>> /\ receiver.at = "wait"

Own(d) == [kind |-> dialogs[d].kind, dialog |-> d, text |-> dialogs[d].text]

\* When a search dialog has come to rest, the contacts listed are those for
\* the text in its form, unless the user changed the form or pressed the
\* button while a task was between reading the form and writing the query, or
\* an answer meant for another dialog came last (AddContactDialog:
\* searchDataChanged, actionPerformed, getContactsSuggestionFor,
\* updateSuggestedContacts; Client.run).
SettlesOnText ==
    \A d \in DOMAIN dialogs :
        /\ Quiet
        /\ current["search"] = d
        /\ d \notin scheduled
        /\ \A task \in running : task.dialog # d
        /\ dialogs[d].text > 0
        /\ d \notin hurried
        => \/ dialogs[d].listModel = <<Own(d)>>
           \/ \E q \in ToSet(dialogs[d].listModel) : q.dialog # d

\* When no query and no answer is on its way, the archive dialog that is
\* referred to lists the messages of its contact and no others, once, unless it
\* was opened while an older answer was still outstanding, or its own answer, or
\* that of the next archive dialog, came before the dialog was referred to
\* (Client.actionPerformed, ArchiveDialog, Client.run).
ArchiveIsItsOwn ==
    \A d \in DOMAIN dialogs :
        Quiet /\ current["archive"] = d /\ d \notin hurried
        => dialogs[d].listModel = <<Own(d)>>

\* The receiver thread dies of an answer for a dialog only if a dialog of that
\* kind has been closed since it compared the reference with null: it reads the
\* reference twice, and nothing else makes it null
\* (Client.run, addContactDialogClosed, archiveDialogClosed).
DiesOnlyOfAClose ==
    receiver.at = "dead" => receiver.answer.kind \in closed

Shows(d, t) ==
    d \in DOMAIN dialogs /\ current["search"] = d /\ dialogs[d].text = t

\* When a search is scheduled for what has been typed into the search dialog
\* that is referred to, its result is shown at some time, unless the text
\* changes, the dialog is no longer referred to or the receiver thread is dead
\* (AddContactDialog.searchDataChanged and its timer task, under cancellation
\* by the button).
TextIsSearched ==
    \A d \in Numbers : \A t \in 1 .. MaxChanges :
        (Shows(d, t) /\ d \in scheduled)
        ~> \/ ~Shows(d, t)
           \/ receiver.at = "dead"
           \/ dialogs[d].listModel = <<Own(d)>>

---------------------------------------------------------------------------
(* What makes DiesOnlyOfAClose, ArchiveIsItsOwn and SettlesOnText inductive. *)

\* The queries whose answers have not been passed on, oldest first.  A query
\* that becomes an answer, or an answer that is taken up, keeps its place.
Flight ==
    (IF receiver.at = "use" THEN <<receiver.answer>> ELSE <<>>)
        \o (toClient \o toServer)

\* A query is for a dialog of its kind; only search forms have changes and
\* tasks.
KindsMatch ==
    /\ \A i \in DOMAIN Flight :
         /\ Flight[i].dialog \in DOMAIN dialogs
         /\ Flight[i].kind = dialogs[Flight[i].dialog].kind
         /\ Flight[i].kind = "archive" => Flight[i].text = 0
    /\ \A d \in DOMAIN dialogs :
         dialogs[d].kind = "archive" => dialogs[d].text = 0
    /\ \A d \in scheduled : dialogs[d].kind = "search"
    /\ \A task \in running : dialogs[task.dialog].kind = "search"

ArchivesAskOnce ==
    \A i, j \in DOMAIN Flight :
        /\ Flight[i].kind = "archive" /\ Flight[j].kind = "archive"
        /\ Flight[i].dialog = Flight[j].dialog
        => i = j

\* The archive dialog being opened is the newest; as long as its answer has
\* not come early, its query is the only one in flight.
OpeningIsNew ==
    opening # 0 =>
        /\ opening = Len(dialogs)
        /\ dialogs[opening].kind = "archive"
        /\ dialogs[opening].listModel = <<>>
        /\ current["archive"] # opening
        /\ opening \notin hurried =>
             /\ \E i \in DOMAIN Flight : Flight[i] = Own(opening)
             /\ \A i \in DOMAIN Flight :
                  Flight[i].kind = "archive" => Flight[i].dialog = opening

\* An answer taken up too early has left its mark on both dialogs.
EarlyIsHurried ==
    receiver.at = "use" /\ receiver.answer.kind = "archive"
        /\ opening # 0 /\ receiver.answer.dialog = opening
        => opening \in hurried /\ current["archive"] \in hurried \cup {0}

\* The archive dialog that is referred to has its messages or will get them.
ArchiveIsAnswered ==
    LET d == current["archive"] IN
        d # 0 /\ d \notin hurried =>
            /\ \A i \in DOMAIN Flight :
                 Flight[i].kind = "archive" => Flight[i].dialog \in {d, opening}
            /\ \/ /\ \E i \in DOMAIN Flight : Flight[i] = Own(d)
                  /\ dialogs[d].listModel = <<>>
               \/ /\ \A i \in DOMAIN Flight : Flight[i] # Own(d)
                  /\ dialogs[d].listModel = <<Own(d)>>

\* A reference found is lost again only by a close.
UseNeedsAClose ==
    receiver.at = "use" =>
        \/ current[receiver.answer.kind] # 0
        \/ receiver.answer.kind \in closed

TasksAreCurrent ==
    \A task \in running :
        task.dialog \notin hurried =>
            /\ task.text = dialogs[task.dialog].text
            /\ task.dialog \notin scheduled

\* The search dialog that is referred to lists what its form says, or the last
\* of its queries in flight asks for it.
SearchIsAnswered ==
    LET d == current["search"] IN
        /\ d # 0
        /\ d \notin hurried
        /\ dialogs[d].text > 0
        /\ d \notin scheduled
        /\ \A task \in running : task.dialog # d
        => \/ \E i \in DOMAIN Flight :
                /\ Flight[i] = Own(d)
                /\ \A j \in DOMAIN Flight : j > i => Flight[j].dialog # d
           \/ /\ \A i \in DOMAIN Flight : Flight[i].dialog # d
              /\ \/ dialogs[d].listModel = <<Own(d)>>
                 \/ \E q \in ToSet(dialogs[d].listModel) : q.dialog # d

DInv ==
    /\ TypeOK
    /\ DiesOnlyOfAClose
    /\ KindsMatch
    /\ ArchivesAskOnce
    /\ OpeningIsNew
    /\ EarlyIsHurried
    /\ ArchiveIsAnswered
    /\ UseNeedsAClose
    /\ TasksAreCurrent
    /\ SearchIsAnswered

==============================================================================
