--------------------------- MODULE MessagingInv ---------------------------
(***************************************************************************)
(* The inductive invariant behind the safety properties of Messaging: what *)
(* is in flight on a connection, and what a server thread holds, is about  *)
(* the account that the thread has authenticated, and refers to the row it *)
(* says it does.                                                           *)
(***************************************************************************)
EXTENDS Messaging

\* An object that has an id came from the row with that id.
RefersToItsRow(m) ==
    m.id > 0 => m.id \in DOMAIN message /\ message[m.id].text = m.text

\* Unread messages on their way to u.
MailFor(u) ==
    {m \in MessageObject : ~m.read /\ m.text.to = u /\ RefersToItsRow(m)}

\* What a client sends once it is signed in.
GoodUp ==
    {p \in UpPacket :
        /\ p.command # "SIGN_IN_REQUEST"
        /\ p.command = "MESSAGE" =>
             /\ p.object.id = 0
             /\ ~p.object.read
             /\ p.object.receiver = p.object.text.to
        /\ p.command = "MESSAGE_RECEIVED_CONFIRMATION" =>
             /\ p.object.read
             /\ RefersToItsRow(p.object)
             /\ Displayed(p.object.text)}

GoodDown(u) ==
    {p \in DownPacket :
        /\ p.command = "SIGN_IN_RESPONSE" => p.object = u
        /\ p.command = "MESSAGE" => p.object \in MailFor(u)}

\* A sign-in request travels alone, before anything was authenticated.
AsksToSignIn(c) ==
    /\ clientId[c] = NoUser
    /\ down[c] = <<>>
    /\ \E u \in Ids : up[c] = <<Packet("SIGN_IN_REQUEST", u)>>

UpInv(c) == up[c] \in Seq(GoodUp) \/ AsksToSignIn(c)

DownInv(c) == down[c] \in Seq(GoodDown(clientId[c]))

ForwardInv(c) ==
    \A m \in forwarding[c] : m.id = 0 /\ ~m.read /\ m.receiver = m.text.to

UnreadInv(c) == unreaded[c] \subseteq MailFor(clientId[c])

\* What the phase of a client says about its connection.
PhaseInv(c) ==
    /\ phase[c] \in {"off", "dialog", "idle"} =>
         clientId[c] = NoUser /\ up[c] = <<>> /\ down[c] = <<>>
    /\ phase[c] = "signIn" =>
         /\ up[c] = <<>> \/ AsksToSignIn(c)
         /\ clientId[c] = NoUser => Len(down[c]) <= 1
    /\ phase[c] \in {"load", "run", "deaf"} =>
         /\ who[c] = clientId[c]
         /\ who[c] \in Users
         /\ up[c] \in Seq(GoodUp)

ConnInv(c) ==
    UpInv(c) /\ DownInv(c) /\ ForwardInv(c) /\ UnreadInv(c) /\ PhaseInv(c)

\* Only confirmed rows have their columns swapped.
UnreadIsAddressed ==
    \A i \in DOMAIN message :
        ~message[i].read => message[i].receiver = message[i].text.to

\* The inductive invariant: strong enough to imply UndeliveredIsKept,
\* ReadMeansDisplayed, DisplayedToAddressee and RegisteredIsAuthenticated,
\* and preserved by every step of Messaging.
IInv ==
    /\ TypeOK
    /\ \A c \in Conns : ConnInv(c)
    /\ UnreadIsAddressed
    /\ ReadMeansDisplayed
    /\ DisplayedToAddressee
    /\ RegisteredIsAuthenticated

---------------------------------------------------------------------------
(* The second invariant, about the map outputs. *)

\* The last thing that a program sends is the removal of its own entry.
ClosesItsOwn(c) ==
    \A i \in DOMAIN up[c] :
        up[c][i].command = "CLOSE_CONNECTION" =>
            /\ up[c][i].object = who[c]
            /\ phase[c] = "gone"

\* A program has no id before it is granted or remembered.
HasNoIdYet(c) == phase[c] \in {"off", "dialog", "signIn"} => who[c] = NoUser

SharesAccount(c) ==
    \E d \in Conns \ {c} : clientId[c] \in {who[d], clientId[d]}

IsReachable(c) ==
    thread[c] = "serving" /\ phase[c] # "gone" /\ clientId[c] \in Users
        => outputs[clientId[c]] = c \/ SharesAccount(c)

\* With IInv, strong enough to imply ReachableUnlessShared.
RInv ==
    \A c \in Conns : ClosesItsOwn(c) /\ HasNoIdYet(c) /\ IsReachable(c)

---------------------------------------------------------------------------
(* The third invariant, about letters and the table. *)

\* Whatever copies of a message travel or are held, its letter is stored.
CopiesAreStored(c) ==
    /\ \A m \in forwarding[c] \cup unreaded[c] :
         m.text \in StoredLetters(message)
    /\ \A i \in DOMAIN down[c] :
         down[c][i].command = "MESSAGE" =>
            down[c][i].object.text \in StoredLetters(message)
    /\ \A i \in DOMAIN up[c] :
         up[c][i].command = "MESSAGE_RECEIVED_CONFIRMATION" =>
            up[c][i].object.text \in StoredLetters(message)

\* The i-th packet on its way from c is a new message.
IsNew(c, i) == i \in DOMAIN up[c] /\ up[c][i].command = "MESSAGE"

\* A letter is sent once and not stored before it arrives.
NewIsUnstored ==
    \A c \in Conns : \A i \in DOMAIN up[c] :
        IsNew(c, i) =>
            up[c][i].object.text \in sent \ StoredLetters(message)

NewIsUnique ==
    \A c, d \in Conns : \A i \in DOMAIN up[c] : \A j \in DOMAIN up[d] :
        (/\ IsNew(c, i) /\ IsNew(d, j)
         /\ up[c][i].object.text = up[d][j].object.text)
            => c = d /\ i = j

StoredIsSent == StoredLetters(message) \subseteq sent

\* With IInv, strong enough to show that every step is one of Mailbox.
MInv ==
    /\ \A c \in Conns : CopiesAreStored(c)
    /\ NewIsUnstored
    /\ NewIsUnique
    /\ StoredIsSent

---------------------------------------------------------------------------
(* The fourth invariant, about the columns of rows and objects. *)

\* Whichever way round, the columns name the two people of the letter.
NamesBoth(m) == {m.receiver, m.sender} = {m.text.from, m.text.to}

ObjectsNameBoth(c) ==
    /\ \A m \in forwarding[c] \cup unreaded[c] : NamesBoth(m)
    /\ \A i \in DOMAIN down[c] :
         down[c][i].command = "MESSAGE" => NamesBoth(down[c][i].object)
    /\ \A i \in DOMAIN up[c] :
         up[c][i].command \in {"MESSAGE", "MESSAGE_RECEIVED_CONFIRMATION"} =>
            NamesBoth(up[c][i].object)

\* With IInv, strong enough to imply ArchiveIsConversation.
AInv ==
    /\ \A i \in DOMAIN message : NamesBoth(message[i])
    /\ \A c \in Conns : ObjectsNameBoth(c)
=============================================================================
