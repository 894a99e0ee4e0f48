----------------------------- MODULE Accounts -----------------------------
(***************************************************************************)
(* Registration and authentication: the sign-in dialogs of several client  *)
(* programs, the server threads that answer them, and the contact table,   *)
(* which all threads reach through one shared database connection.         *)
(*                                                                         *)
(* A dialog runs on the event thread of its program and waits for each     *)
(* answer, so a program and its server thread are one process: the dialog  *)
(* asks, the thread works, the dialog reads the answer.  A row of the      *)
(* table is identified by its position (contact_id is AUTOINCREMENT and    *)
(* the server deletes no account).                                         *)
(***************************************************************************)
EXTENDS Naturals, Sequences

CONSTANTS
    Programs,       \* client programs, one sign-in dialog each
    Nicks,          \* nicknames that users try
    Hashes,         \* SHA-1 hashes of the passwords that users try
    NoNick, NoHash, \* empty fields
    MaxOtherRows    \* bound on the rows inserted into the message table

ASSUME MaxOtherRowsAssumption == MaxOtherRows \in Nat

VARIABLES
    contact,        \* durable: the contact table
    lastRowId,      \* last_insert_rowid() of the shared connection
    otherRows,      \* number of rows of the message table
    step,           \* where the dialog and its server thread are
    command,        \* the request being served
    nickField,      \* dialog: the nickname in the form
    passField,      \* dialog: the hash of the password in the form
    isNickCorrect,  \* dialog: the nickname was free when it was checked
    edited,         \* dialog: the nickname has been edited since
    answer,         \* the answer on its way to the dialog
    clientId,       \* client program: the id it was granted, 0 for none
    author,         \* history: which program signed up which row
    checkedAt,      \* history: size of the table at the last nick check
    unchecked       \* history: programs that sent a nickname edited since

formVars == <<nickField, passField, isNickCorrect, edited>>
tableVars == <<contact, lastRowId, otherRows, author>>
vars == <<tableVars, step, command, formVars, answer, clientId, checkedAt,
          unchecked>>

Account == [nickname : Nicks, sha1password : Hashes]

Commands == {"NONE", "IS_NICK_OCCUPIED_REQUEST", "SIGN_UP_REQUEST",
             "SIGN_IN_REQUEST"}

TypeOK ==
    /\ contact \in Seq(Account)
    /\ lastRowId \in Nat
    /\ otherRows \in 0 .. MaxOtherRows
    /\ step \in [Programs ->
                   {"form", "asked", "inserted", "answered", "granted"}]
    /\ command \in [Programs -> Commands]
    /\ nickField \in [Programs -> Nicks \cup {NoNick}]
    /\ passField \in [Programs -> Hashes \cup {NoHash}]
    /\ isNickCorrect \in [Programs -> BOOLEAN]
    /\ edited \in [Programs -> BOOLEAN]
    /\ answer \in [Programs -> Nat]
    /\ clientId \in [Programs -> Nat]
    /\ author \in Seq(Programs)
    /\ checkedAt \in [Programs -> Nat]
    /\ unchecked \in SUBSET Programs

Init ==
    /\ contact = <<>>
    /\ lastRowId = 0
    /\ otherRows = 0
    /\ step = [p \in Programs |-> "form"]
    /\ command = [p \in Programs |-> "NONE"]
    /\ nickField = [p \in Programs |-> NoNick]
    /\ passField = [p \in Programs |-> NoHash]
    /\ isNickCorrect = [p \in Programs |-> FALSE]
    /\ edited = [p \in Programs |-> FALSE]
    /\ answer = [p \in Programs |-> 0]
    /\ clientId = [p \in Programs |-> 0]
    /\ author = <<>>
    /\ checkedAt = [p \in Programs |-> 0]
    /\ unchecked = {}

---------------------------------------------------------------------------
(* The SELECTs of model/Contact.java. *)

\* getContactWithNickname finds an account.
IsNickOccupied(table, n) == \E i \in DOMAIN table : table[i].nickname = n

Matching(table, n, h) ==
    {i \in DOMAIN table : table[i].nickname = n /\ table[i].sha1password = h}

\* Fault: the last account found is used, not the first.
AuthorizeLastClient(table, n, h) ==
    LET found == Matching(table, n, h) IN
    IF found = {} THEN 0 ELSE CHOOSE i \in found : \A j \in found : j <= i

\* The id of the first account with this login and password, 0 for none.
AuthorizeClient(table, n, h) ==
    LET found == Matching(table, n, h) IN
    IF found = {} THEN 0 ELSE CHOOSE i \in found : \A j \in found : i <= j

---------------------------------------------------------------------------
(* The dialog. *)

Ask(p, request) ==
    /\ step[p] = "form"
    /\ step' = [step EXCEPT ![p] = "asked"]
    /\ command' = [command EXCEPT ![p] = request]

Read(p, request) ==
    /\ step[p] = "answered"
    /\ command[p] = request
    /\ command' = [command EXCEPT ![p] = "NONE"]

\* The user edits the nickname; the flag stays what it was.  (No nickname is
\* ruled out, the empty one may be among them.)
EditNick(p) ==
    /\ step[p] = "form"
    /\ \E n \in Nicks : nickField' = [nickField EXCEPT ![p] = n]
    /\ edited' = [edited EXCEPT ![p] = TRUE]
    /\ UNCHANGED <<tableVars, step, command, passField, isNickCorrect, answer,
                   clientId, checkedAt, unchecked>>

\* The field loses the focus, edited or not: checkNickIsFree asks the server.
CheckNickIsFree(p) ==
    /\ nickField[p] # NoNick
    /\ Ask(p, "IS_NICK_OCCUPIED_REQUEST")
    /\ edited' = [edited EXCEPT ![p] = FALSE]
    /\ UNCHANGED <<tableVars, nickField, passField, isNickCorrect, answer,
                   clientId, checkedAt, unchecked>>

\* Fault: a nickname that is taken does not clear the flag.
ReadNickAnswerKeepingFlag(p) ==
    /\ Read(p, "IS_NICK_OCCUPIED_REQUEST")
    /\ isNickCorrect' = [isNickCorrect EXCEPT ![p] = @ \/ answer[p] = 0]
    /\ step' = [step EXCEPT ![p] = "form"]
    /\ UNCHANGED <<tableVars, nickField, passField, edited, answer, clientId,
                   checkedAt, unchecked>>

\* The answer says whether the nickname is occupied (1) or free (0).
ReadNickAnswer(p) ==
    /\ Read(p, "IS_NICK_OCCUPIED_REQUEST")
    /\ isNickCorrect' = [isNickCorrect EXCEPT ![p] = answer[p] = 0]
    /\ step' = [step EXCEPT ![p] = "form"]
    /\ UNCHANGED <<tableVars, nickField, passField, edited, answer, clientId,
                   checkedAt, unchecked>>

\* Fault: the form is sent whatever the check has said.
TrySignUpUnchecked(p) ==
    /\ Ask(p, "SIGN_UP_REQUEST")
    /\ \E h \in Hashes : passField' = [passField EXCEPT ![p] = h]
    /\ unchecked' = IF edited[p] THEN unchecked \cup {p} ELSE unchecked
    /\ UNCHANGED <<tableVars, nickField, isNickCorrect, edited, answer,
                   clientId, checkedAt>>

\* The form is sent only if the nickname checked last was found free.  The
\* press of the button and the loss of focus are two events, and this one may
\* be handled before an edited nickname is checked.
TrySignUpNewUser(p) ==
    /\ isNickCorrect[p]
    /\ Ask(p, "SIGN_UP_REQUEST")
    /\ \E h \in Hashes : passField' = [passField EXCEPT ![p] = h]
    /\ unchecked' = IF edited[p] THEN unchecked \cup {p} ELSE unchecked
    /\ UNCHANGED <<tableVars, nickField, isNickCorrect, edited, answer,
                   clientId, checkedAt>>

\* The sign-in form has fields of its own, which nothing else reads: the login
\* and the password in them are chosen where they are used, in SignInClient.
TrySignIn(p) ==
    /\ Ask(p, "SIGN_IN_REQUEST")
    /\ UNCHANGED <<tableVars, formVars, answer, clientId, checkedAt, unchecked>>

\* An id < 1 leaves the dialog open, another one closes it.
ReadId(p) ==
    /\ Read(p, "SIGN_UP_REQUEST") \/ Read(p, "SIGN_IN_REQUEST")
    /\ \/ /\ answer[p] < 1
          /\ step' = [step EXCEPT ![p] = "form"]
          /\ UNCHANGED clientId
       \/ /\ answer[p] >= 1
          /\ step' = [step EXCEPT ![p] = "granted"]
          /\ clientId' = [clientId EXCEPT ![p] = answer[p]]
    /\ UNCHANGED <<tableVars, formVars, answer, checkedAt, unchecked>>

---------------------------------------------------------------------------
(* The server threads. *)

Answer(p, value) ==
    /\ step' = [step EXCEPT ![p] = "answered"]
    /\ answer' = [answer EXCEPT ![p] = value]

\* The thread of p has read the request that the dialog sent.
Serves(p, request) == step[p] = "asked" /\ command[p] = request

HandleIsNickOccupiedRequest(p) ==
    /\ Serves(p, "IS_NICK_OCCUPIED_REQUEST")
    /\ Answer(p, IF IsNickOccupied(contact, nickField[p]) THEN 1 ELSE 0)
    /\ checkedAt' = [checkedAt EXCEPT ![p] = Len(contact)]
    /\ UNCHANGED <<tableVars, command, formVars, clientId, unchecked>>

\* signUpNewAccount, Contact.save: the INSERT.
InsertContact(p) ==
    /\ Serves(p, "SIGN_UP_REQUEST")
    /\ contact' = Append(contact, [nickname |-> nickField[p],
                                   sha1password |-> passField[p]])
    /\ author' = Append(author, p)
    /\ lastRowId' = Len(contact')
    /\ step' = [step EXCEPT ![p] = "inserted"]
    /\ UNCHANGED <<otherRows, command, formVars, answer, clientId, checkedAt,
                   unchecked>>

\* Contact.save: getGeneratedKeys, which the driver implements as a SELECT of
\* last_insert_rowid() on the shared connection; the id becomes the answer.
ReadGeneratedKey(p) ==
    /\ step[p] = "inserted"
    /\ Answer(p, lastRowId)
    /\ UNCHANGED <<tableVars, command, formVars, clientId, checkedAt, unchecked>>

SignInClient(p) ==
    /\ Serves(p, "SIGN_IN_REQUEST")
    /\ \E n \in Nicks, h \in Hashes : Answer(p, AuthorizeClient(contact, n, h))
    /\ UNCHANGED <<tableVars, command, formVars, clientId, checkedAt, unchecked>>

\* Meanwhile the thread of a client that is signed in inserts a row into the
\* message table.
InsertMessage(p) ==
    /\ step[p] = "granted"
    /\ otherRows < MaxOtherRows
    /\ otherRows' = otherRows + 1
    /\ lastRowId' = otherRows'
    /\ UNCHANGED <<contact, author, step, command, formVars, answer, clientId,
                   checkedAt, unchecked>>

Next ==
    \E p \in Programs :
        \/ EditNick(p) \/ CheckNickIsFree(p) \/ ReadNickAnswer(p)
        \/ TrySignUpNewUser(p) \/ TrySignIn(p) \/ ReadId(p)
        \/ HandleIsNickOccupiedRequest(p) \/ InsertContact(p)
        \/ ReadGeneratedKey(p) \/ SignInClient(p) \/ InsertMessage(p)

Spec == Init /\ [][Next]_vars

---------------------------------------------------------------------------
(* Properties. *)

\* Whoever registers later, a login and password that lead to an account go
\* on leading to that same account (Contact.authorizeClient takes the first
\* row; Contact.save only appends).
LoginIsStable ==
    [][\A n \in Nicks, h \in Hashes :
          AuthorizeClient(contact, n, h) # 0 =>
             AuthorizeClient(contact', n, h) = AuthorizeClient(contact, n, h)
      ]_vars

\* The account i came between the nickname check of the account j and its
\* INSERT, or the nickname of j was edited after its check.
NotSeenByCheck(i, j) ==
    checkedAt[author[j]] < i \/ author[j] \in unchecked

\* Two accounts share a nickname only if the first was inserted after the
\* second's dialog had it checked, or if the second's form was sent between an
\* edit and the check that the edit calls for: the check of
\* SignInDialog.checkNickIsFree excludes every other duplicate, however the
\* form is edited and resent and whoever registers meanwhile.
OnlyRacingDuplicates ==
    \A i, j \in DOMAIN contact :
        i < j /\ contact[i].nickname = contact[j].nickname
            => NotSeenByCheck(i, j)

\* The login and password of an account lead to the id of that account, under
\* which its mail and its contacts are kept, unless an older account has the
\* same nickname and its check has not seen it (Contact.authorizeClient takes
\* the first row; SignInDialog.checkNickIsFree).
LoginFindsOwnAccount ==
    \A j \in DOMAIN contact :
        \/ AuthorizeClient(contact, contact[j].nickname,
                           contact[j].sha1password) = j
        \/ \E i \in 1 .. (j - 1) :
              /\ contact[i].nickname = contact[j].nickname
              /\ NotSeenByCheck(i, j)

\* Server.java:228 says that signing up sends back the id that was given to
\* the user: the one of the row inserted for it.
SignUpGrantsOwnAccount ==
    \A p \in Programs :
        step[p] = "granted" /\ (\E i \in DOMAIN author : author[i] = p)
            => clientId[p] \in DOMAIN author /\ author[clientId[p]] = p

---------------------------------------------------------------------------
(* What makes OnlyRacingDuplicates inductive. *)

\* The server thread works only on a request, and a form that is being signed
\* up is filled in and was found correct.
FormIsReady ==
    \A p \in Programs :
        /\ step[p] \in {"asked", "inserted", "answered"} <=> command[p] # "NONE"
        /\ step[p] = "inserted" => command[p] = "SIGN_UP_REQUEST"
        /\ isNickCorrect[p] => nickField[p] \in Nicks
        /\ command[p] = "IS_NICK_OCCUPIED_REQUEST" => nickField[p] \in Nicks
        /\ command[p] = "SIGN_UP_REQUEST" =>
             /\ isNickCorrect[p]
             /\ passField[p] \in Hashes
             /\ edited[p] => p \in unchecked

\* Every account of the nickname in the form is younger than its check.
FreeWhenChecked(p) ==
    \A i \in DOMAIN contact :
        contact[i].nickname = nickField[p] => checkedAt[p] < i

\* That is so while the flag holds and the nickname is neither edited nor being
\* checked, and when the answer that will set the flag is on its way.
FlagIsTrue ==
    \A p \in Programs :
        /\ checkedAt[p] <= Len(contact)
        /\ /\ isNickCorrect[p]
           /\ ~edited[p]
           /\ command[p] # "IS_NICK_OCCUPIED_REQUEST"
           => FreeWhenChecked(p)
        /\ command[p] = "IS_NICK_OCCUPIED_REQUEST" =>
             /\ ~edited[p]
             /\ step[p] = "answered" /\ answer[p] = 0 => FreeWhenChecked(p)

\* A program that has inserted an account sends no other form: some key is
\* there to be read, and any key closes the dialog.
AuthorsAreDone ==
    /\ Len(author) = Len(contact)
    /\ contact # <<>> => lastRowId >= 1
    /\ \A i \in DOMAIN author :
         /\ step[author[i]] \in {"inserted", "answered", "granted"}
         /\ step[author[i]] = "answered" =>
              /\ command[author[i]] = "SIGN_UP_REQUEST"
              /\ answer[author[i]] >= 1

RegistrationInv ==
    /\ TypeOK
    /\ FormIsReady /\ FlagIsTrue /\ AuthorsAreDone
    /\ OnlyRacingDuplicates
============================================================================
