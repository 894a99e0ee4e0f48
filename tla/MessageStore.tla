--------------------------- MODULE MessageStore ---------------------------
(***************************************************************************)
(* The message table of the server's SQLite database and the Message       *)
(* objects that are written to it and read from it (model/Message.java).   *)
(*                                                                         *)
(* A row is identified by its position: message_id is an AUTOINCREMENT key *)
(* and the server deletes no message, so the i-th row inserted has id i.   *)
(* The text of a message, which no code path changes, is the letter it     *)
(* carries: the record of who really wrote what to whom.  The properties   *)
(* compare the receiver_id and sender_id columns with it.                  *)
(***************************************************************************)
EXTENDS Naturals, Sequences

CONSTANTS
    Users,    \* contact ids of registered accounts (all > 0)
    NoUser,   \* the id 0 of a client that is not authenticated
    Letters   \* texts that may be written, each with its true from and to

ASSUME LettersAssumption ==
    \A l \in Letters : l.from \in Users /\ l.to \in Users

ASSUME NoUserAssumption == NoUser \notin Users

Row == [receiver : Users, sender : Users, text : Letters, read : BOOLEAN]

\* A Message object; id 0 means that it was not read from the table.
MessageObject ==
    [id : Nat, receiver : Users, sender : Users,
     text : Letters, read : BOOLEAN]

\* The object a message window creates for the text typed into it.
NewMessage(l) ==
    [id |-> 0, receiver |-> l.to, sender |-> l.from,
     text |-> l, read |-> FALSE]

RowOf(m) ==
    [receiver |-> m.receiver, sender |-> m.sender,
     text |-> m.text, read |-> m.read]

\* Fault: the row updated is the last one inserted, not the object's own.
SaveInLastRow(table, m) ==
    IF m.id > 0 THEN [table EXCEPT ![Len(table)] = RowOf(m)]
                ELSE Append(table, RowOf(m))

\* UPDATE ... WHERE message_id = id for an object that has an id, INSERT for
\* one that has none.  The object itself keeps the id it had: the key that
\* the INSERT generates is not read back.
Save(table, m) ==
    IF m.id > 0 THEN [table EXCEPT ![m.id] = RowOf(m)]
                ELSE Append(table, RowOf(m))

\* The object built from row i.  The loading methods pass the columns as
\* (receiver_id, sender_id) to a constructor that takes (from_id, to_id).
Load(table, i) ==
    [id |-> i, receiver |-> table[i].sender, sender |-> table[i].receiver,
     text |-> table[i].text, read |-> table[i].read]

\* Fault: the SELECT tests the wrong column.
UnreadMessagesFrom(table, u) ==
    {Load(table, i) :
        i \in {j \in DOMAIN table : table[j].sender = u /\ ~table[j].read}}

UnreadMessagesFor(table, u) ==
    {Load(table, i) :
        i \in {j \in DOMAIN table : table[j].receiver = u /\ ~table[j].read}}

\* Fault: the last two parameters of the SELECT are set in the wrong order.
ArchiveMessagesToOne(table, u, v) ==
    {Load(table, i) :
        i \in {j \in DOMAIN table :
                \/ table[j].receiver = u /\ table[j].sender = v
                \/ table[j].sender = v /\ table[j].receiver = u}}

\* What the archive dialog of u about v gets.
ArchiveMessagesFor(table, u, v) ==
    {Load(table, i) :
        i \in {j \in DOMAIN table :
                \/ table[j].receiver = u /\ table[j].sender = v
                \/ table[j].sender = u /\ table[j].receiver = v}}

\* Letters that the table holds, and those it still holds as unread.
StoredLetters(table) == {table[i].text : i \in DOMAIN table}

UnreadLetters(table) ==
    {table[i].text : i \in {j \in DOMAIN table : ~table[j].read}}
===========================================================================
