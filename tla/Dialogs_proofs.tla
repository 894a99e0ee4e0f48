---------------------------- MODULE Dialogs_proofs ----------------------------
(***************************************************************************)
(* Proofs about the search and archive dialogs of a client program, for    *)
(* any number of dialogs, changes and packets.                             *)
(***************************************************************************)
EXTENDS Dialogs, SequenceTheorems, TLAPS

---------------------------------------------------------------------------
(* One stream after another. *)

LEMMA AppendToLast ==
    ASSUME NEW S, NEW s \in Seq(S), NEW t \in Seq(S), NEW e \in S
    PROVE  s \o Append(t, e) = Append(s \o t, e)
<1>1. /\ Append(t, e) = t \o <<e>>
      /\ s \o t \in Seq(S)
      /\ <<e>> \in Seq(S)
  BY AppendIsConcat, ConcatProperties
<1>2. Append(s \o t, e) = (s \o t) \o <<e>>
  BY <1>1, AppendIsConcat
<1>3. (s \o t) \o <<e>> = s \o (t \o <<e>>)
  BY <1>1, ConcatAssociative
<1> QED
  BY <1>1, <1>2, <1>3

LEMMA HeadAndTail ==
    ASSUME NEW S, NEW s \in Seq(S), s # <<>>
    PROVE  <<Head(s)>> \o Tail(s) = s
<1>1. /\ Head(s) \in S
      /\ Tail(s) \in Seq(S)
      /\ Len(Tail(s)) = Len(s) - 1
      /\ \A i \in 1 .. Len(Tail(s)) : Tail(s)[i] = s[i + 1]
      /\ Len(s) \in Nat \ {0}
      /\ s[1] = Head(s)
  BY HeadTailProperties, EmptySeq
<1> DEFINE first == <<Head(s)>>
           t == first \o Tail(s)
<1>2. first \in Seq(S) /\ Len(first) = 1 /\ first[1] = Head(s)
  BY <1>1
<1>3. /\ t \in Seq(S)
      /\ Len(t) = 1 + Len(Tail(s))
      /\ \A i \in 1 .. 1 + Len(Tail(s)) :
           t[i] = IF i <= 1 THEN first[i] ELSE Tail(s)[i - 1]
  <2> HIDE DEF first
  <2>1. /\ t \in Seq(S)
        /\ Len(t) = Len(first) + Len(Tail(s))
        /\ \A i \in 1 .. Len(first) + Len(Tail(s)) :
             t[i] = IF i <= Len(first) THEN first[i] ELSE Tail(s)[i - Len(first)]
    BY <1>1, <1>2, ConcatProperties
  <2> HIDE DEF t
  <2> QED
    BY <1>2, <2>1
<1> HIDE DEF first, t
<1>4. ASSUME NEW i \in 1 .. Len(s)
      PROVE  t[i] = s[i]
  <2>1. CASE i = 1
    BY <1>1, <1>2, <1>3, <2>1
  <2>2. CASE i # 1
    <3>1. i - 1 \in 1 .. Len(Tail(s)) /\ (i - 1) + 1 = i
      BY <1>1, <2>2
    <3>2. t[i] = Tail(s)[i - 1]
      BY <1>1, <1>3, <2>2
    <3> QED
      BY <1>1, <3>1, <3>2
  <2> QED
    BY <2>1, <2>2
<1>5. Len(t) = Len(s)
  BY <1>1, <1>3
<1>6. t = s
  BY <1>3, <1>4, <1>5, SeqEqual
<1> QED
  BY <1>6 DEF t, first

\* What is moved from the head of one stream to the end of the one before it
\* keeps its place.
LEMMA MovedOn ==
    ASSUME NEW S, NEW s \in Seq(S), NEW t \in Seq(S), t # <<>>
    PROVE  Append(s, Head(t)) \o Tail(t) = s \o t
<1>1. Head(t) \in S /\ Tail(t) \in Seq(S)
  BY HeadTailProperties
<1>2. Append(s, Head(t)) = s \o <<Head(t)>> /\ <<Head(t)>> \in Seq(S)
  BY <1>1, AppendIsConcat
<1>3. (s \o <<Head(t)>>) \o Tail(t) = s \o (<<Head(t)>> \o Tail(t))
  BY <1>1, <1>2, ConcatAssociative
<1>4. <<Head(t)>> \o Tail(t) = t
  BY HeadAndTail
<1> QED
  BY <1>2, <1>3, <1>4

LEMMA FirstOfTwo ==
    ASSUME NEW S, NEW s \in Seq(S), NEW t \in Seq(S), s # <<>>
    PROVE  <<Head(s)>> \o (Tail(s) \o t) = s \o t
<1>1. Head(s) \in S /\ Tail(s) \in Seq(S) /\ <<Head(s)>> \in Seq(S)
  BY HeadTailProperties
<1>2. <<Head(s)>> \o (Tail(s) \o t) = (<<Head(s)>> \o Tail(s)) \o t
  BY <1>1, ConcatAssociative
<1> QED
  BY <1>2, HeadAndTail

---------------------------------------------------------------------------
(* The queries whose answers have not been passed on. *)

\* A query that is written comes last.
LEMMA Written ==
    ASSUME NEW S, NEW s \in Seq(S), NEW e \in S, NEW t, t = Append(s, e)
    PROVE  /\ t \in Seq(S)
           /\ DOMAIN t = DOMAIN s \cup {Len(s) + 1}
           /\ Len(s) + 1 \notin DOMAIN s
           /\ \A i \in DOMAIN s : t[i] = s[i] /\ i < Len(s) + 1
           /\ t[Len(s) + 1] = e
           /\ DOMAIN s \subseteq Nat
           /\ Len(s) + 1 \in Nat
<1>1. /\ t \in Seq(S)
      /\ Len(t) = Len(s) + 1
      /\ \A i \in 1 .. Len(s) : t[i] = s[i]
      /\ t[Len(s) + 1] = e
  BY AppendProperties
<1>2. DOMAIN s = 1 .. Len(s) /\ DOMAIN t = 1 .. Len(t) /\ Len(s) \in Nat
  BY <1>1
<1> QED
  BY <1>1, <1>2

\* The query that is passed on was the first.
LEMMA PassedOn ==
    ASSUME NEW S, NEW a \in S, NEW t \in Seq(S), NEW s, s = <<a>> \o t
    PROVE  /\ s \in Seq(S)
           /\ 1 \in DOMAIN s /\ s[1] = a
           /\ \A i \in DOMAIN t :
                i \in Nat /\ i + 1 \in DOMAIN s /\ i + 1 # 1 /\ s[i + 1] = t[i]
           /\ \A i \in DOMAIN s \ {1} :
                i \in Nat /\ i - 1 \in DOMAIN t /\ t[i - 1] = s[i]
<1> DEFINE first == <<a>>
<1>1. first \in Seq(S) /\ Len(first) = 1 /\ first[1] = a
  OBVIOUS
<1>2. /\ s \in Seq(S)
      /\ Len(s) = 1 + Len(t)
      /\ \A i \in 1 .. 1 + Len(t) : s[i] = IF i <= 1 THEN first[i] ELSE t[i - 1]
  <2>1. s = first \o t
    OBVIOUS
  <2> HIDE DEF first
  <2> QED
    BY <1>1, <2>1, ConcatProperties
<1> HIDE DEF first
<1>3. DOMAIN s = 1 .. Len(s) /\ DOMAIN t = 1 .. Len(t) /\ Len(t) \in Nat
  BY <1>2
<1>4. 1 \in DOMAIN s /\ s[1] = a
  BY <1>1, <1>2, <1>3
<1>5. ASSUME NEW i \in DOMAIN t
      PROVE  i \in Nat /\ i + 1 \in DOMAIN s /\ i + 1 # 1 /\ s[i + 1] = t[i]
  <2>1. i \in Nat \ {0} /\ i + 1 \in 1 .. 1 + Len(t) /\ (i + 1) - 1 = i /\ ~(i + 1 <= 1)
    BY <1>3
  <2> QED
    BY <1>2, <1>3, <2>1
<1>6. ASSUME NEW i \in DOMAIN s \ {1}
      PROVE  i \in Nat /\ i - 1 \in DOMAIN t /\ t[i - 1] = s[i]
  <2>1. i \in Nat /\ i \in 1 .. 1 + Len(t) /\ i - 1 \in DOMAIN t /\ ~(i <= 1)
    BY <1>2, <1>3
  <2> QED
    BY <1>2, <2>1
<1> QED
  BY <1>2, <1>4, <1>5, <1>6

\* The answer the receiver thread holds, as a stream of at most one.
Held == IF receiver.at = "use" THEN <<receiver.answer>> ELSE <<>>

LEMMA FlightType ==
    ASSUME TypeOK
    PROVE  /\ Held \in Seq(Query)
           /\ toClient \o toServer \in Seq(Query)
           /\ Flight = Held \o (toClient \o toServer)
           /\ Flight \in Seq(Query)
<1>1. receiver.at = "use" => receiver.answer \in Query
  BY DEF TypeOK
<1>2. Held \in Seq(Query)
  BY <1>1 DEF Held
<1>3. toClient \o toServer \in Seq(Query)
  BY ConcatProperties DEF TypeOK
<1>4. Flight = Held \o (toClient \o toServer)
  BY DEF Flight, Held
<1> QED
  BY <1>2, <1>3, <1>4, ConcatProperties

\* When the receiver thread holds an answer, it is the first in flight.
LEMMA HeldIsFirst ==
    ASSUME TypeOK, receiver.at = "use"
    PROVE  /\ receiver.answer \in Query
           /\ Flight = <<receiver.answer>> \o (toClient \o toServer)
           /\ 1 \in DOMAIN Flight
           /\ Flight[1] = receiver.answer
<1>1. receiver.answer \in Query
  BY DEF TypeOK
<1>2. Flight = <<receiver.answer>> \o (toClient \o toServer)
  BY FlightType DEF Held
<1> QED
  BY <1>1, <1>2, FlightType, PassedOn

\* When it does not, the first in flight is the first answer to come.
LEMMA HeadIsFirst ==
    ASSUME TypeOK, receiver.at # "use", toClient # <<>>
    PROVE  /\ Head(toClient) \in Query
           /\ Tail(toClient) \in Seq(Query)
           /\ Tail(toClient) \o toServer \in Seq(Query)
           /\ Flight = <<Head(toClient)>> \o (Tail(toClient) \o toServer)
           /\ 1 \in DOMAIN Flight
           /\ Flight[1] = Head(toClient)
<1>1. Head(toClient) \in Query /\ Tail(toClient) \in Seq(Query)
  BY HeadTailProperties DEF TypeOK
<1>2. Tail(toClient) \o toServer \in Seq(Query)
  BY <1>1, ConcatProperties DEF TypeOK
<1>3. Flight = toClient \o toServer
  BY FlightType, ConcatEmptySeq DEF Held
<1>4. Flight = <<Head(toClient)>> \o (Tail(toClient) \o toServer)
  BY <1>3, FirstOfTwo DEF TypeOK
<1> QED
  BY <1>1, <1>2, <1>4, PassedOn

LEMMA Untouched ==
    ASSUME toServer' = toServer, toClient' = toClient, receiver' = receiver
    PROVE  Flight' = Flight
BY DEF Flight

LEMMA AskedIsLast ==
    ASSUME TypeOK, NEW q \in Query, toServer' = Append(toServer, q),
           toClient' = toClient, receiver' = receiver
    PROVE  Flight' = Append(Flight, q)
<1>1. Held' = Held
  BY DEF Held
<1>2. toClient \o Append(toServer, q) = Append(toClient \o toServer, q)
  BY AppendToLast DEF TypeOK
<1>3. Held \o Append(toClient \o toServer, q) = Append(Held \o (toClient \o toServer), q)
  BY FlightType, AppendToLast
<1>4. Flight' = Held' \o (toClient' \o toServer')
  BY DEF Flight, Held
<1> QED
  BY <1>1, <1>2, <1>3, <1>4, FlightType

LEMMA AnswerKeepsFlight ==
    ASSUME TypeOK, NEW kind, Answer(kind)
    PROVE  Flight' = Flight
<1>1. Append(toClient, Head(toServer)) \o Tail(toServer) = toClient \o toServer
  BY MovedOn DEF Answer, TypeOK
<1> QED
  BY <1>1 DEF Answer, Flight

LEMMA LookKeepsFlight ==
    ASSUME TypeOK, LookForDialog, current[Head(toClient).kind] # 0
    PROVE  Flight' = Flight
<1>1. Flight = <<Head(toClient)>> \o (Tail(toClient) \o toServer)
  BY HeadIsFirst DEF LookForDialog
<1>2. receiver'.at = "use" /\ receiver'.answer = Head(toClient)
  BY DEF LookForDialog
<1>3. Flight' = <<receiver'.answer>> \o (toClient' \o toServer')
  BY <1>2 DEF Flight
<1> QED
  BY <1>1, <1>2, <1>3 DEF LookForDialog

\* When the receiver thread is through with an answer, the others are left.
LEMMA WithoutHeld ==
    ASSUME TypeOK, receiver'.at # "use",
           NEW rest \in Seq(Query), toClient' \o toServer' = rest
    PROVE  Flight' = rest
<1>1. Flight' = <<>> \o (toClient' \o toServer')
  BY DEF Flight
<1> QED
  BY <1>1, ConcatEmptySeq

---------------------------------------------------------------------------
(* What the types say. *)

LEMMA Typed ==
    ASSUME TypeOK
    PROVE  /\ Len(dialogs) \in Nat /\ Len(dialogs) <= MaxDialogs
           /\ DOMAIN dialogs = 1 .. Len(dialogs)
           /\ DOMAIN dialogs \subseteq Numbers /\ 0 \notin DOMAIN dialogs
           /\ \A d \in DOMAIN dialogs : dialogs[d] \in Dialog /\ Own(d) \in Query
           /\ \A kind \in Kinds :
                current[kind] # 0 =>
                  current[kind] \in DOMAIN dialogs
                  /\ dialogs[current[kind]].kind = kind
           /\ opening # 0 => opening \in DOMAIN dialogs
<1>1. DOMAIN dialogs = 1 .. Len(dialogs) /\ Len(dialogs) \in Nat
  BY DEF TypeOK
<1>2. DOMAIN dialogs \subseteq Numbers
  BY <1>1, BoundsAssumption DEF TypeOK, Numbers
<1>3. ASSUME NEW d \in DOMAIN dialogs
      PROVE  dialogs[d] \in Dialog /\ Own(d) \in Query
  <2>1. dialogs[d] \in Dialog
    BY <1>1, ElementOfSeq DEF TypeOK
  <2> QED
    BY <1>2, <2>1 DEF Dialog, Own, Query
<1>4. ASSUME NEW kind \in Kinds, current[kind] # 0
      PROVE  /\ current[kind] \in DOMAIN dialogs
             /\ dialogs[current[kind]].kind = kind
  BY <1>1, <1>4 DEF TypeOK
<1> QED
  BY <1>1, <1>2, <1>3, <1>4 DEF TypeOK

\* The dialog that is opened is the newest, and the others stay as they are.
LEMMA Opened ==
    ASSUME TypeOK, NEW kind \in Kinds, NewDialog(kind),
           NEW n, n = Len(dialogs) + 1
    PROVE  /\ dialogs' \in Seq(Dialog) /\ Len(dialogs') <= MaxDialogs
           /\ Len(dialogs') = n
           /\ DOMAIN dialogs' = DOMAIN dialogs \cup {n}
           /\ n \in Nat \ {0} /\ n \notin DOMAIN dialogs /\ n \in Numbers
           /\ \A d \in DOMAIN dialogs : dialogs'[d] = dialogs[d] /\ Own(d)' = Own(d)
           /\ dialogs'[n] = [kind |-> kind, open |-> TRUE, text |-> 0,
                             listModel |-> <<>>]
           /\ Own(n)' = [kind |-> kind, dialog |-> n, text |-> 0]
<1> DEFINE new == [kind |-> kind, open |-> TRUE, text |-> 0, listModel |-> <<>>]
<1>1. new \in Dialog
  BY BoundsAssumption DEF Dialog
<1>2. dialogs' = Append(dialogs, new)
  BY DEF NewDialog
<1>3. Len(dialogs) < MaxDialogs
  BY DEF NewDialog
<1> HIDE DEF new
<1>4. /\ dialogs' \in Seq(Dialog)
      /\ DOMAIN dialogs' = DOMAIN dialogs \cup {n}
      /\ n \notin DOMAIN dialogs
      /\ \A d \in DOMAIN dialogs : dialogs'[d] = dialogs[d]
      /\ dialogs'[n] = new
      /\ n \in Nat
  BY <1>1, <1>2, Written DEF TypeOK
<1>5. Len(dialogs') = n
  BY <1>1, <1>2, AppendProperties DEF TypeOK
<1>6. n \in Nat \ {0} /\ n \in Numbers /\ n <= MaxDialogs
  BY <1>3, <1>4, Typed, BoundsAssumption DEF Numbers
<1>7. \A d \in DOMAIN dialogs : Own(d)' = Own(d)
  BY <1>4 DEF Own
<1>8. Own(n)' = [kind |-> kind, dialog |-> n, text |-> 0]
  BY <1>4 DEF Own, new
<1> QED
  BY <1>4, <1>5, <1>6, <1>7, <1>8 DEF new

\* A change to one dialog.
LEMMA Altered ==
    ASSUME TypeOK, NEW d \in DOMAIN dialogs, NEW e \in Dialog,
           dialogs' = [dialogs EXCEPT ![d] = e]
    PROVE  /\ dialogs' \in Seq(Dialog) /\ Len(dialogs') = Len(dialogs)
           /\ DOMAIN dialogs' = DOMAIN dialogs
           /\ dialogs'[d] = e
           /\ \A x \in DOMAIN dialogs :
                x # d => dialogs'[x] = dialogs[x] /\ Own(x)' = Own(x)
           /\ e.kind = dialogs[d].kind =>
                \A x \in DOMAIN dialogs : dialogs'[x].kind = dialogs[x].kind
           /\ e.kind = dialogs[d].kind /\ e.text = dialogs[d].text =>
                \A x \in DOMAIN dialogs :
                  dialogs'[x].text = dialogs[x].text /\ Own(x)' = Own(x)
<1>1. dialogs' \in Seq(Dialog) /\ Len(dialogs') = Len(dialogs)
  BY Typed, ExceptSeq DEF TypeOK
<1>2. /\ DOMAIN dialogs' = DOMAIN dialogs
      /\ dialogs'[d] = e
      /\ \A x \in DOMAIN dialogs : x # d => dialogs'[x] = dialogs[x]
  OBVIOUS
<1> QED
  BY <1>1, <1>2 DEF Own

---------------------------------------------------------------------------
(* The event thread. *)

LEMMA OpenAddContactDialogKeeps == DInv /\ OpenAddContactDialog => DInv'
<1> SUFFICES ASSUME DInv, OpenAddContactDialog
             PROVE  DInv'
  OBVIOUS
<1>1. PICK n : n = Len(dialogs) + 1
  OBVIOUS
<1>2. TypeOK /\ "search" \in Kinds /\ NewDialog("search") /\ opening = 0
  BY DEF DInv, OpenAddContactDialog, NewDialog, Kinds
<1>3. /\ dialogs' \in Seq(Dialog) /\ Len(dialogs') <= MaxDialogs
      /\ Len(dialogs') = n
      /\ DOMAIN dialogs' = DOMAIN dialogs \cup {n}
      /\ n \in Nat \ {0} /\ n \notin DOMAIN dialogs
      /\ \A d \in DOMAIN dialogs : dialogs'[d] = dialogs[d] /\ Own(d)' = Own(d)
      /\ dialogs'[n].kind = "search" /\ dialogs'[n].text = 0
  <2>1. dialogs'[n] = [kind |-> "search", open |-> TRUE, text |-> 0,
                       listModel |-> <<>>]
    BY <1>1, <1>2, Opened
  <2>2. /\ dialogs' \in Seq(Dialog) /\ Len(dialogs') <= MaxDialogs
        /\ Len(dialogs') = n
        /\ DOMAIN dialogs' = DOMAIN dialogs \cup {n}
        /\ n \in Nat \ {0} /\ n \notin DOMAIN dialogs
        /\ \A d \in DOMAIN dialogs : dialogs'[d] = dialogs[d] /\ Own(d)' = Own(d)
    BY <1>1, <1>2, Opened
  <2> QED
    BY <2>1, <2>2
<1>4. /\ current' = [current EXCEPT !["search"] = n]
      /\ opening' = opening /\ scheduled' = scheduled /\ running' = running
      /\ toServer' = toServer /\ toClient' = toClient /\ receiver' = receiver
      /\ hurried' = hurried /\ changes' = changes /\ closed' = closed
  BY <1>3 DEF OpenAddContactDialog
<1>5. Flight' = Flight
  BY <1>4, Untouched
<1>6. /\ current'["search"] = n
      /\ current'["archive"] = current["archive"]
      /\ current["archive"] # 0 => current["archive"] \in DOMAIN dialogs
      /\ current' \in [Kinds -> 0 .. Len(dialogs')]
  BY <1>1, <1>2, <1>3, <1>4, Typed DEF TypeOK, Kinds
<1>7. TypeOK'
  BY <1>2, <1>3, <1>4, <1>6, Typed DEF TypeOK, Kinds
<1>8. /\ DiesOnlyOfAClose' /\ ArchivesAskOnce' /\ OpeningIsNew'
      /\ EarlyIsHurried'
  BY <1>2, <1>4, <1>5 DEF DInv, DiesOnlyOfAClose, ArchivesAskOnce, OpeningIsNew,
                          EarlyIsHurried
<1>9. KindsMatch'
  BY <1>2, <1>3, <1>4, <1>5 DEF DInv, KindsMatch, TypeOK
<1>10. ArchiveIsAnswered'
  BY <1>3, <1>4, <1>5, <1>6 DEF DInv, ArchiveIsAnswered
<1>11. UseNeedsAClose'
  BY <1>2, <1>3, <1>4, <1>6, HeldIsFirst DEF DInv, UseNeedsAClose, Query, Kinds
<1>12. TasksAreCurrent'
  BY <1>2, <1>3, <1>4 DEF DInv, TasksAreCurrent, TypeOK
<1>13. SearchIsAnswered'
  BY <1>3, <1>6 DEF SearchIsAnswered
<1> QED
  BY <1>7, <1>8, <1>9, <1>10, <1>11, <1>12, <1>13 DEF DInv

LEMMA AssignArchiveDialogKeeps == DInv /\ AssignArchiveDialog => DInv'
<1> SUFFICES ASSUME DInv, AssignArchiveDialog
             PROVE  DInv'
  OBVIOUS
<1>1. /\ opening # 0 /\ opening' = 0
      /\ current' = [current EXCEPT !["archive"] = opening]
      /\ dialogs' = dialogs /\ scheduled' = scheduled /\ running' = running
      /\ toServer' = toServer /\ toClient' = toClient /\ receiver' = receiver
      /\ hurried' = hurried /\ changes' = changes /\ closed' = closed
  BY DEF AssignArchiveDialog
<1>2. TypeOK
  BY DEF DInv
<1>3. Flight' = Flight
  BY <1>1, Untouched
<1>4. /\ current'["search"] = current["search"]
      /\ current'["archive"] = opening
      /\ current' \in [Kinds -> 0 .. Len(dialogs)]
      /\ opening \in DOMAIN dialogs
      /\ dialogs[opening].kind = "archive"
      /\ \A d \in DOMAIN dialogs : Own(d)' = Own(d)
  BY <1>1, <1>2, Typed DEF DInv, OpeningIsNew, TypeOK, Kinds, Own
<1>5. TypeOK'
  BY <1>1, <1>2, <1>4 DEF TypeOK, Kinds
<1>6. /\ DiesOnlyOfAClose' /\ ArchivesAskOnce' /\ OpeningIsNew'
      /\ EarlyIsHurried' /\ TasksAreCurrent' /\ KindsMatch'
  BY <1>1, <1>3 DEF DInv, DiesOnlyOfAClose, ArchivesAskOnce, OpeningIsNew,
                    EarlyIsHurried, TasksAreCurrent, KindsMatch
<1>7. ArchiveIsAnswered'
  <2> SUFFICES ASSUME opening \notin hurried
               PROVE  /\ \A i \in DOMAIN Flight :
                           Flight[i].kind = "archive" => Flight[i].dialog = opening
                      /\ \E i \in DOMAIN Flight : Flight[i] = Own(opening)
                      /\ dialogs[opening].listModel = <<>>
    BY <1>1, <1>3, <1>4 DEF ArchiveIsAnswered
  <2> QED
    BY <1>1 DEF DInv, OpeningIsNew
<1>8. UseNeedsAClose'
  <2>1. receiver.at = "use" => receiver.answer.kind \in {"search", "archive"}
    BY <1>2, HeldIsFirst DEF Query, Kinds
  <2> QED
    BY <1>1, <1>4, <2>1 DEF DInv, UseNeedsAClose
<1>9. SearchIsAnswered'
  <2>1. current["search"] # 0 => current["search"] \in DOMAIN dialogs
    BY <1>2, Typed DEF Kinds
  <2> QED
    BY <1>1, <1>3, <1>4, <2>1 DEF DInv, SearchIsAnswered
<1> QED
  BY <1>5, <1>6, <1>7, <1>8, <1>9 DEF DInv

LEMMA SearchDataChangedKeeps ==
    ASSUME NEW d \in DOMAIN dialogs
    PROVE  DInv /\ SearchDataChanged(d) => DInv'
<1> SUFFICES ASSUME DInv, SearchDataChanged(d)
             PROVE  DInv'
  OBVIOUS
<1>1. /\ opening = 0 /\ opening' = 0
      /\ dialogs[d].kind = "search"
      /\ changes < MaxChanges /\ changes' = changes + 1
      /\ dialogs' = [dialogs EXCEPT ![d].text = changes']
      /\ scheduled' = scheduled \cup {d}
      /\ hurried' = IF \E task \in running : task.dialog = d
                    THEN hurried \cup {d} ELSE hurried
      /\ current' = current /\ running' = running /\ toServer' = toServer
      /\ toClient' = toClient /\ receiver' = receiver /\ closed' = closed
  BY DEF SearchDataChanged, Hurry
<1>2. TypeOK /\ dialogs[d] \in Dialog
  BY Typed DEF DInv
<1> DEFINE new == [dialogs[d] EXCEPT !.text = changes']
<1>3. /\ changes' \in 0 .. MaxChanges
      /\ new \in Dialog /\ new.kind = dialogs[d].kind
      /\ dialogs' = [dialogs EXCEPT ![d] = new]
  <2>1. changes' \in 0 .. MaxChanges
    BY <1>1, <1>2, BoundsAssumption DEF TypeOK
  <2>2. new \in Dialog
    BY <1>2, <2>1 DEF Dialog
  <2>3. new.kind = dialogs[d].kind
    BY <1>2 DEF Dialog
  <2> QED
    BY <1>1, <2>1, <2>2, <2>3
<1> HIDE DEF new
<1>4. /\ dialogs' \in Seq(Dialog) /\ Len(dialogs') = Len(dialogs)
      /\ DOMAIN dialogs' = DOMAIN dialogs
      /\ \A x \in DOMAIN dialogs :
           x # d => dialogs'[x] = dialogs[x] /\ Own(x)' = Own(x)
      /\ \A x \in DOMAIN dialogs : dialogs'[x].kind = dialogs[x].kind
  BY <1>2, <1>3, Altered
<1>5. Flight' = Flight
  BY <1>1, Untouched
<1>6. hurried \subseteq hurried' /\ hurried' \subseteq DOMAIN dialogs
  BY <1>1, <1>2 DEF TypeOK
<1>7. TypeOK'
  BY <1>1, <1>2, <1>3, <1>4, <1>6 DEF TypeOK
<1>8. /\ DiesOnlyOfAClose' /\ ArchivesAskOnce' /\ OpeningIsNew'
      /\ EarlyIsHurried' /\ UseNeedsAClose'
  BY <1>1, <1>5 DEF DInv, DiesOnlyOfAClose, ArchivesAskOnce, OpeningIsNew,
                    EarlyIsHurried, UseNeedsAClose
<1>9. KindsMatch'
  BY <1>1, <1>2, <1>4, <1>5 DEF DInv, KindsMatch, TypeOK
<1>10. ArchiveIsAnswered'
  <2>1. current["archive"] # 0 =>
          current["archive"] \in DOMAIN dialogs /\ current["archive"] # d
    BY <1>1, <1>2, Typed DEF Kinds
  <2> QED
    BY <1>1, <1>4, <1>5, <1>6, <2>1 DEF DInv, ArchiveIsAnswered
<1>11. TasksAreCurrent'
  <2> SUFFICES ASSUME NEW task \in running, task.dialog \notin hurried'
               PROVE  /\ task.text = dialogs'[task.dialog].text
                      /\ task.dialog \notin scheduled'
    BY <1>1 DEF TasksAreCurrent
  <2>1. task.dialog # d /\ task.dialog \in DOMAIN dialogs
    BY <1>1, <1>2 DEF TypeOK
  <2> QED
    BY <1>1, <1>4, <1>6, <2>1 DEF DInv, TasksAreCurrent
<1>12. SearchIsAnswered'
  <2>1. current["search"] # 0 => current["search"] \in DOMAIN dialogs
    BY <1>2, Typed DEF Kinds
  <2>2. CASE current["search"] = d
    BY <1>1, <2>2 DEF SearchIsAnswered
  <2>3. CASE current["search"] # d
    BY <1>1, <1>4, <1>5, <1>6, <2>1, <2>3 DEF DInv, SearchIsAnswered
  <2> QED
    BY <2>2, <2>3
<1> QED
  BY <1>7, <1>8, <1>9, <1>10, <1>11, <1>12 DEF DInv

LEMMA DialogClosedKeeps ==
    ASSUME NEW d \in DOMAIN dialogs
    PROVE  DInv /\ DialogClosed(d) => DInv'
<1> SUFFICES ASSUME DInv, DialogClosed(d)
             PROVE  DInv'
  OBVIOUS
<1>1. /\ opening = 0 /\ opening' = 0
      /\ dialogs' = [dialogs EXCEPT ![d].open = FALSE]
      /\ current' = [current EXCEPT ![dialogs[d].kind] = 0]
      /\ closed' = closed \cup {dialogs[d].kind}
      /\ scheduled' = scheduled /\ running' = running /\ toServer' = toServer
      /\ toClient' = toClient /\ receiver' = receiver /\ hurried' = hurried
      /\ changes' = changes
  BY DEF DialogClosed
<1>2. TypeOK /\ dialogs[d] \in Dialog
  BY Typed DEF DInv
<1> DEFINE new == [dialogs[d] EXCEPT !.open = FALSE]
<1>3. /\ new \in Dialog
      /\ new.kind = dialogs[d].kind /\ new.text = dialogs[d].text
      /\ new.listModel = dialogs[d].listModel
      /\ dialogs' = [dialogs EXCEPT ![d] = new]
  BY <1>1, <1>2 DEF Dialog
<1> HIDE DEF new
<1>4. /\ dialogs' \in Seq(Dialog) /\ Len(dialogs') = Len(dialogs)
      /\ DOMAIN dialogs' = DOMAIN dialogs
      /\ dialogs'[d] = new
      /\ \A x \in DOMAIN dialogs : x # d => dialogs'[x] = dialogs[x]
      /\ \A x \in DOMAIN dialogs : Own(x)' = Own(x)
  BY <1>2, <1>3, Altered
<1>5. \A x \in DOMAIN dialogs : /\ dialogs'[x].kind = dialogs[x].kind
                                /\ dialogs'[x].text = dialogs[x].text
                                /\ dialogs'[x].listModel = dialogs[x].listModel
  BY <1>3, <1>4
<1>6. Flight' = Flight
  BY <1>1, Untouched
<1>7. \A kind \in Kinds : /\ current'[kind] \in {0, current[kind]}
                          /\ current[kind] # 0 => current[kind] \in DOMAIN dialogs
                          /\ current'[kind] \in 0 .. Len(dialogs)
  BY <1>1, <1>2, Typed DEF TypeOK
<1>8. TypeOK'
  <2>1. \A kind \in Kinds : current'[kind] # 0 => dialogs'[current'[kind]].kind = kind
    BY <1>2, <1>5, <1>7, Typed
  <2>2. current' \in [Kinds -> 0 .. Len(dialogs')]
    BY <1>1, <1>2, <1>4, <1>7 DEF TypeOK
  <2> QED
    BY <1>1, <1>2, <1>4, <2>1, <2>2 DEF TypeOK
<1>9. /\ DiesOnlyOfAClose' /\ ArchivesAskOnce' /\ OpeningIsNew'
      /\ EarlyIsHurried'
  BY <1>1, <1>6 DEF DInv, DiesOnlyOfAClose, ArchivesAskOnce, OpeningIsNew,
                    EarlyIsHurried
<1>14. UseNeedsAClose'
  <2> SUFFICES ASSUME receiver.at = "use"
               PROVE  \/ current'[receiver.answer.kind] # 0
                      \/ receiver.answer.kind \in closed'
    BY <1>1 DEF UseNeedsAClose
  <2>1. receiver.answer.kind \in Kinds
    BY <1>2 DEF TypeOK, Query
  <2>2. CASE receiver.answer.kind = dialogs[d].kind
    BY <1>1, <2>2
  <2>3. CASE receiver.answer.kind # dialogs[d].kind
    BY <1>1, <1>2, <2>1, <2>3 DEF DInv, UseNeedsAClose, TypeOK
  <2> QED
    BY <2>2, <2>3
<1>10. KindsMatch'
  BY <1>1, <1>2, <1>4, <1>5, <1>6 DEF DInv, KindsMatch, TypeOK
<1>11. ArchiveIsAnswered'
  BY <1>1, <1>4, <1>5, <1>6, <1>7 DEF DInv, ArchiveIsAnswered, Kinds
<1>12. TasksAreCurrent'
  BY <1>1, <1>2, <1>5 DEF DInv, TasksAreCurrent, TypeOK
<1>13. SearchIsAnswered'
  BY <1>1, <1>4, <1>5, <1>6, <1>7 DEF DInv, SearchIsAnswered, Kinds
<1> QED
  BY <1>8, <1>9, <1>10, <1>11, <1>12, <1>13, <1>14 DEF DInv

LEMMA RangeOfBoth ==
    ASSUME TypeOK
    PROVE  ToSet(toServer \o toClient) = ToSet(toClient \o toServer)
<1>1. ASSUME NEW s \in Seq(Query), NEW t \in Seq(Query)
      PROVE  ToSet(s \o t) = ToSet(s) \cup ToSet(t)
  <2>1. /\ s \o t \in Seq(Query)
        /\ Len(s \o t) = Len(s) + Len(t)
        /\ \A i \in 1 .. Len(s) + Len(t) : (s \o t)[i] =
                     IF i <= Len(s) THEN s[i] ELSE t[i - Len(s)]
    BY ConcatProperties
  <2> DEFINE u == s \o t
  <2> HIDE DEF u
  <2>2. /\ DOMAIN u = 1 .. Len(s) + Len(t)
        /\ DOMAIN s = 1 .. Len(s) /\ DOMAIN t = 1 .. Len(t)
        /\ Len(s) \in Nat /\ Len(t) \in Nat
    BY <2>1 DEF u
  <2>3. ASSUME NEW i \in DOMAIN u
        PROVE  u[i] \in ToSet(s) \cup ToSet(t)
    <3>1. CASE i <= Len(s)
      <4>1. i \in DOMAIN s /\ u[i] = s[i]
        BY <2>1, <2>2, <3>1 DEF u
      <4> QED
        BY <4>1 DEF ToSet
    <3>2. CASE ~(i <= Len(s))
      <4>1. i - Len(s) \in DOMAIN t /\ u[i] = t[i - Len(s)]
        BY <2>1, <2>2, <3>2 DEF u
      <4> QED
        BY <4>1 DEF ToSet
    <3> QED
      BY <3>1, <3>2
  <2>4. ASSUME NEW i \in DOMAIN s
        PROVE  i \in DOMAIN u /\ u[i] = s[i]
    BY <2>1, <2>2 DEF u
  <2>5. ASSUME NEW i \in DOMAIN t
        PROVE  i + Len(s) \in DOMAIN u /\ u[i + Len(s)] = t[i]
    <3>1. /\ i + Len(s) \in DOMAIN u /\ ~(i + Len(s) <= Len(s))
          /\ (i + Len(s)) - Len(s) = i
      BY <2>2
    <3> QED
      BY <2>1, <2>2, <3>1 DEF u
  <2>6. ToSet(u) = ToSet(s) \cup ToSet(t)
    BY <2>3, <2>4, <2>5 DEF ToSet
  <2> QED
    BY <2>6 DEF u
<1> QED
  BY <1>1 DEF TypeOK

---------------------------------------------------------------------------
(* A query is written. *)

LEMMA NewArchiveDialogKeeps == DInv /\ NewArchiveDialog => DInv'
<1> SUFFICES ASSUME DInv, NewArchiveDialog
             PROVE  DInv'
  OBVIOUS
<1>1. PICK n : n = Len(dialogs) + 1
  OBVIOUS
<1>2. TypeOK /\ "archive" \in Kinds /\ NewDialog("archive") /\ opening = 0
  BY DEF DInv, NewArchiveDialog, NewDialog, Kinds
<1>3. /\ dialogs' \in Seq(Dialog) /\ Len(dialogs') <= MaxDialogs
      /\ Len(dialogs') = n
      /\ DOMAIN dialogs' = DOMAIN dialogs \cup {n}
      /\ n \in Nat \ {0} /\ n \notin DOMAIN dialogs /\ n \in Numbers
      /\ \A d \in DOMAIN dialogs : dialogs'[d] = dialogs[d] /\ Own(d)' = Own(d)
  BY <1>1, <1>2, Opened
<1>4. dialogs'[n] = [kind |-> "archive", open |-> TRUE, text |-> 0,
                     listModel |-> <<>>]
  BY <1>1, <1>2, Opened
<1> DEFINE q == [kind |-> "archive", dialog |-> n, text |-> 0]
<1>5. /\ q \in Query
      /\ q.kind = "archive" /\ q.dialog = n /\ q.text = 0
      /\ dialogs'[n].kind = "archive" /\ dialogs'[n].text = 0
      /\ dialogs'[n].listModel = <<>>
  BY <1>2, <1>3, <1>4, BoundsAssumption DEF Query
<1>6. Own(n)' = q
  BY <1>1, <1>2, Opened
<1>7. /\ opening' = n
      /\ toServer' = Append(toServer, q)
      /\ hurried' = IF InFlight("archive") = {} THEN hurried ELSE hurried \cup {n}
      /\ current' = current /\ scheduled' = scheduled /\ running' = running
      /\ toClient' = toClient /\ receiver' = receiver /\ changes' = changes
      /\ closed' = closed
  BY <1>3 DEF NewArchiveDialog
<1> HIDE DEF q
<1>8. PICK k : k = Len(Flight) + 1
  OBVIOUS
<1>9. /\ DOMAIN Flight' = DOMAIN Flight \cup {k}
      /\ k \notin DOMAIN Flight
      /\ \A i \in DOMAIN Flight : Flight'[i] = Flight[i] /\ i < k
      /\ Flight'[k] = q
      /\ DOMAIN Flight \subseteq Nat /\ k \in Nat
  <2>1. Flight' = Append(Flight, q)
    BY <1>2, <1>5, <1>7, AskedIsLast
  <2>2. Flight \in Seq(Query)
    BY <1>2, FlightType
  <2> QED
    BY <1>5, <1>8, <2>1, <2>2, Written
<1>10. hurried \subseteq hurried' /\ hurried' \subseteq DOMAIN dialogs'
  BY <1>2, <1>3, <1>7 DEF TypeOK
<1>11. \A kind \in Kinds : current[kind] # 0 => current[kind] \in DOMAIN dialogs
  BY <1>2, Typed
<1>12. TypeOK'
  <2>1. current' \in [Kinds -> 0 .. Len(dialogs')]
    BY <1>1, <1>2, <1>3, <1>7, Typed DEF TypeOK
  <2>2. \A kind \in Kinds : current'[kind] # 0 => dialogs'[current'[kind]].kind = kind
    BY <1>2, <1>3, <1>7, Typed
  <2>3. toServer' \in Seq(Query)
    BY <1>2, <1>5, <1>7, AppendProperties DEF TypeOK
  <2>4. opening' \in 0 .. Len(dialogs')
    BY <1>3, <1>7
  <2> QED
    BY <1>2, <1>3, <1>7, <1>10, <2>1, <2>2, <2>3, <2>4 DEF TypeOK
<1>13. DiesOnlyOfAClose' /\ UseNeedsAClose'
  BY <1>7 DEF DInv, DiesOnlyOfAClose, UseNeedsAClose
<1>14. \A i \in DOMAIN Flight : /\ Flight[i].dialog \in DOMAIN dialogs
                                /\ Flight[i].dialog # n
                                /\ Flight[i].dialog # 0
  BY <1>2, <1>3, Typed DEF DInv, KindsMatch
<1>15. KindsMatch'
  <2>1. \A i \in DOMAIN Flight' :
         /\ Flight'[i].dialog \in DOMAIN dialogs'
         /\ Flight'[i].kind = dialogs'[Flight'[i].dialog].kind
         /\ Flight'[i].kind = "archive" => Flight'[i].text = 0
    BY <1>3, <1>5, <1>9, <1>14 DEF DInv, KindsMatch
  <2>2. \A d \in DOMAIN dialogs' : dialogs'[d].kind = "archive" => dialogs'[d].text = 0
    BY <1>3, <1>5 DEF DInv, KindsMatch
  <2>3. /\ \A d \in scheduled' : dialogs'[d].kind = "search"
        /\ \A task \in running' : dialogs'[task.dialog].kind = "search"
    BY <1>2, <1>3, <1>7 DEF DInv, KindsMatch, TypeOK
  <2> QED
    BY <2>1, <2>2, <2>3 DEF KindsMatch
<1>16. ArchivesAskOnce'
  BY <1>5, <1>9, <1>14 DEF DInv, ArchivesAskOnce
<1>17. OpeningIsNew'
  <2>1. ASSUME n \notin hurried'
        PROVE  \A i \in DOMAIN Flight : Flight[i].kind # "archive"
    <3>1. InFlight("archive") = {}
      BY <1>7, <2>1
    <3>2. \A i \in DOMAIN (toClient \o toServer) :
            (toClient \o toServer)[i].kind # "archive"
      <4>1. ToSet(toServer \o toClient) = ToSet(toClient \o toServer)
        BY <1>2, RangeOfBoth
      <4> QED
        BY <3>1, <4>1 DEF InFlight, ToSet
    <3>3. receiver.at = "use" => receiver.answer.kind # "archive"
      BY <3>1 DEF InFlight
    <3>4. CASE receiver.at = "use"
      <4> DEFINE w == toClient \o toServer
      <4>1. /\ Flight = <<receiver.answer>> \o w
            /\ receiver.answer \in Query /\ w \in Seq(Query)
        BY <1>2, <3>4, HeldIsFirst, FlightType
      <4>2. \A i \in DOMAIN w : w[i].kind # "archive"
        BY <3>2
      <4> HIDE DEF w
      <4>3. /\ Flight[1] = receiver.answer
            /\ \A i \in DOMAIN Flight \ {1} : i - 1 \in DOMAIN w /\ w[i - 1] = Flight[i]
        BY <4>1, PassedOn
      <4> QED
        BY <3>3, <3>4, <4>2, <4>3
    <3>5. CASE receiver.at # "use"
      BY <1>2, <3>2, <3>5, FlightType, ConcatEmptySeq DEF Held
    <3> QED
      BY <3>4, <3>5
  <2>2. current'["archive"] # n
    BY <1>2, <1>3, <1>7, <1>11, Typed
  <2>3. n \notin hurried' =>
          /\ \E i \in DOMAIN Flight' : Flight'[i] = q
          /\ \A i \in DOMAIN Flight' :
               Flight'[i].kind = "archive" => Flight'[i].dialog = n
    BY <1>5, <1>9, <2>1
  <2> QED
    BY <1>3, <1>5, <1>6, <1>7, <2>2, <2>3 DEF OpeningIsNew
<1>18. EarlyIsHurried'
  <2>1. receiver.at = "use" => receiver.answer.dialog # n
    BY <1>2, <1>14, HeldIsFirst
  <2> QED
    BY <1>7, <2>1 DEF EarlyIsHurried
<1>19. ArchiveIsAnswered'
  <2> DEFINE d == current["archive"]
  <2> SUFFICES ASSUME d # 0, d \notin hurried'
               PROVE  /\ \A i \in DOMAIN Flight' :
                           Flight'[i].kind = "archive" => Flight'[i].dialog \in {d, n}
                      /\ \/ /\ \E i \in DOMAIN Flight' : Flight'[i] = Own(d)
                            /\ dialogs'[d].listModel = <<>>
                         \/ /\ \A i \in DOMAIN Flight' : Flight'[i] # Own(d)
                            /\ dialogs'[d].listModel = <<Own(d)>>
    BY <1>2, <1>3, <1>7, <1>11 DEF ArchiveIsAnswered
  <2>1. d \in DOMAIN dialogs /\ d # n /\ dialogs'[d] = dialogs[d]
    BY <1>2, <1>3, <1>11
  <2>2. Own(d).dialog = d
    BY DEF Own
  <2>3. /\ \A i \in DOMAIN Flight :
             Flight[i].kind = "archive" => Flight[i].dialog = d
        /\ \/ /\ \E i \in DOMAIN Flight : Flight[i] = Own(d)
              /\ dialogs[d].listModel = <<>>
           \/ /\ \A i \in DOMAIN Flight : Flight[i] # Own(d)
              /\ dialogs[d].listModel = <<Own(d)>>
    BY <1>2, <1>10, <1>14 DEF DInv, ArchiveIsAnswered
  <2> HIDE DEF d
  <2> QED
    BY <1>5, <1>9, <2>1, <2>2, <2>3
<1>20. TasksAreCurrent'
  BY <1>2, <1>3, <1>7, <1>10 DEF DInv, TasksAreCurrent, TypeOK
<1>21. SearchIsAnswered'
  <2> DEFINE d == current["search"]
  <2> SUFFICES ASSUME d # 0, d \notin hurried', dialogs'[d].text > 0,
                      d \notin scheduled,
                      \A task \in running : task.dialog # d
               PROVE  \/ \E i \in DOMAIN Flight' :
                           /\ Flight'[i] = Own(d)
                           /\ \A j \in DOMAIN Flight' : j > i => Flight'[j].dialog # d
                      \/ /\ \A i \in DOMAIN Flight' : Flight'[i].dialog # d
                         /\ \/ dialogs'[d].listModel = <<Own(d)>>
                            \/ \E x \in ToSet(dialogs'[d].listModel) : x.dialog # d
    BY <1>2, <1>3, <1>7, <1>11 DEF SearchIsAnswered, Kinds
  <2>1. d \in DOMAIN dialogs /\ d # n /\ dialogs'[d] = dialogs[d]
    BY <1>2, <1>3, <1>11 DEF Kinds
  <2>2. \/ \E i \in DOMAIN Flight :
             /\ Flight[i] = Own(d)
             /\ \A j \in DOMAIN Flight : j > i => Flight[j].dialog # d
        \/ /\ \A i \in DOMAIN Flight : Flight[i].dialog # d
           /\ \/ dialogs[d].listModel = <<Own(d)>>
              \/ \E x \in ToSet(dialogs[d].listModel) : x.dialog # d
    BY <1>10, <2>1 DEF DInv, SearchIsAnswered
  <2> HIDE DEF d
  <2> QED
    BY <1>5, <1>9, <2>1, <2>2
<1> QED
  BY <1>12, <1>13, <1>15, <1>16, <1>17, <1>18, <1>19, <1>20, <1>21 DEF DInv

\* A search that is asked for disturbs no archive dialog, and comes last.
LEMMA SearchAsked ==
    ASSUME DInv, NEW d \in DOMAIN dialogs, dialogs[d].kind = "search",
           NEW q \in Query, q.kind = "search", q.dialog = d,
           GetContactsSuggestionFor(d, q.text),
           dialogs' = dialogs, current' = current, opening' = opening,
           toClient' = toClient, receiver' = receiver,
           hurried \subseteq hurried',
           hurried' \subseteq DOMAIN dialogs,
           scheduled' \subseteq scheduled,
           running' \subseteq running,
           NEW k, k = Len(Flight) + 1
    PROVE  /\ toServer' \in Seq(Query)
           /\ DOMAIN Flight' = DOMAIN Flight \cup {k}
           /\ k \notin DOMAIN Flight
           /\ \A i \in DOMAIN Flight : Flight'[i] = Flight[i] /\ i < k
           /\ Flight'[k] = q
           /\ DOMAIN Flight \subseteq Nat /\ k \in Nat
           /\ \A x : Own(x)' = Own(x)
           /\ KindsMatch' /\ ArchivesAskOnce' /\ OpeningIsNew'
           /\ EarlyIsHurried' /\ ArchiveIsAnswered'
<1>1. TypeOK
  BY DEF DInv
<1>2. q = [kind |-> "search", dialog |-> d, text |-> q.text]
  BY DEF Query
<1>3. toServer' = Append(toServer, q)
  BY <1>2 DEF GetContactsSuggestionFor
<1>4. toServer' \in Seq(Query)
  BY <1>1, <1>3, AppendProperties DEF TypeOK
<1>5. /\ DOMAIN Flight' = DOMAIN Flight \cup {k}
      /\ k \notin DOMAIN Flight
      /\ \A i \in DOMAIN Flight : Flight'[i] = Flight[i] /\ i < k
      /\ Flight'[k] = q
      /\ DOMAIN Flight \subseteq Nat /\ k \in Nat
  <2>1. Flight' = Append(Flight, q)
    BY <1>1, <1>3, AskedIsLast
  <2>2. Flight \in Seq(Query)
    BY <1>1, FlightType
  <2> QED
    BY <2>1, <2>2, Written
<1>6. \A x : Own(x)' = Own(x)
  BY DEF Own
<1>7. KindsMatch'
  <2>1. \A i \in DOMAIN Flight' :
         /\ Flight'[i].dialog \in DOMAIN dialogs'
         /\ Flight'[i].kind = dialogs'[Flight'[i].dialog].kind
         /\ Flight'[i].kind = "archive" => Flight'[i].text = 0
    BY <1>5 DEF DInv, KindsMatch
  <2> QED
    BY <2>1 DEF DInv, KindsMatch
<1>8. ArchivesAskOnce'
  BY <1>5 DEF DInv, ArchivesAskOnce
<1>9. OpeningIsNew'
  <2> SUFFICES ASSUME opening # 0, opening \notin hurried'
               PROVE  /\ \E i \in DOMAIN Flight' : Flight'[i] = Own(opening)
                      /\ \A i \in DOMAIN Flight' :
                           Flight'[i].kind = "archive" => Flight'[i].dialog = opening
    BY <1>6 DEF DInv, OpeningIsNew
  <2>1. /\ \E i \in DOMAIN Flight : Flight[i] = Own(opening)
        /\ \A i \in DOMAIN Flight :
             Flight[i].kind = "archive" => Flight[i].dialog = opening
    BY DEF DInv, OpeningIsNew
  <2> QED
    BY <1>5, <2>1
<1>10. EarlyIsHurried'
  BY DEF DInv, EarlyIsHurried
<1>11. ArchiveIsAnswered'
  <2> DEFINE c == current["archive"]
  <2> SUFFICES ASSUME c # 0, c \notin hurried'
               PROVE  /\ \A i \in DOMAIN Flight' :
                           Flight'[i].kind = "archive" =>
                             Flight'[i].dialog \in {c, opening}
                      /\ \/ /\ \E i \in DOMAIN Flight' : Flight'[i] = Own(c)
                            /\ dialogs[c].listModel = <<>>
                         \/ /\ \A i \in DOMAIN Flight' : Flight'[i] # Own(c)
                            /\ dialogs[c].listModel = <<Own(c)>>
    BY <1>6 DEF ArchiveIsAnswered
  <2>1. Own(c).kind = "archive"
    BY <1>1, Typed DEF Own, Kinds
  <2>2. /\ \A i \in DOMAIN Flight :
             Flight[i].kind = "archive" => Flight[i].dialog \in {c, opening}
        /\ \/ /\ \E i \in DOMAIN Flight : Flight[i] = Own(c)
              /\ dialogs[c].listModel = <<>>
           \/ /\ \A i \in DOMAIN Flight : Flight[i] # Own(c)
              /\ dialogs[c].listModel = <<Own(c)>>
    BY DEF DInv, ArchiveIsAnswered
  <2> HIDE DEF c
  <2> QED
    BY <1>5, <2>1, <2>2
<1> QED
  BY <1>4, <1>5, <1>6, <1>7, <1>8, <1>9, <1>10, <1>11

LEMMA SearchButtonPressedKeeps ==
    ASSUME NEW d \in DOMAIN dialogs
    PROVE  DInv /\ SearchButtonPressed(d) => DInv'
<1> SUFFICES ASSUME DInv, SearchButtonPressed(d)
             PROVE  DInv'
  OBVIOUS
<1>1. /\ opening = 0 /\ opening' = opening
      /\ dialogs[d].kind = "search"
      /\ GetContactsSuggestionFor(d, dialogs[d].text)
      /\ scheduled' = scheduled \ {d}
      /\ hurried' = IF \E task \in running : task.dialog = d
                    THEN hurried \cup {d} ELSE hurried
      /\ dialogs' = dialogs /\ current' = current /\ running' = running
      /\ toClient' = toClient /\ receiver' = receiver /\ changes' = changes
      /\ closed' = closed
  BY DEF SearchButtonPressed, Hurry
<1>2. TypeOK /\ Own(d) \in Query
  BY Typed DEF DInv
<1>3. Own(d).kind = "search" /\ Own(d).dialog = d /\ Own(d).text = dialogs[d].text
  BY <1>1 DEF Own
<1>4. hurried \subseteq hurried' /\ hurried' \subseteq DOMAIN dialogs
  BY <1>1, <1>2 DEF TypeOK
<1>5. PICK k : k = Len(Flight) + 1
  OBVIOUS
<1>6. PICK q \in Query : q = Own(d)
  BY <1>2
<1>7. /\ toServer' \in Seq(Query)
      /\ DOMAIN Flight' = DOMAIN Flight \cup {k}
      /\ \A i \in DOMAIN Flight : Flight'[i] = Flight[i] /\ i < k
      /\ Flight'[k] = q
      /\ DOMAIN Flight \subseteq Nat /\ k \in Nat
      /\ \A x : Own(x)' = Own(x)
      /\ KindsMatch' /\ ArchivesAskOnce' /\ OpeningIsNew'
      /\ EarlyIsHurried' /\ ArchiveIsAnswered'
  BY <1>1, <1>3, <1>4, <1>5, <1>6, SearchAsked
<1>8. TypeOK'
  BY <1>1, <1>2, <1>4, <1>7 DEF TypeOK
<1>9. DiesOnlyOfAClose' /\ UseNeedsAClose'
  BY <1>1 DEF DInv, DiesOnlyOfAClose, UseNeedsAClose
<1>10. TasksAreCurrent'
  BY <1>1, <1>4 DEF DInv, TasksAreCurrent
<1>11. SearchIsAnswered'
  <2> SUFFICES ASSUME NEW e, e = current["search"], e # 0, e \notin hurried',
                      dialogs[e].text > 0, e \notin scheduled',
                      \A task \in running : task.dialog # e
               PROVE  \/ \E i \in DOMAIN Flight' :
                           /\ Flight'[i] = Own(e)
                           /\ \A j \in DOMAIN Flight' : j > i => Flight'[j].dialog # e
                      \/ /\ \A i \in DOMAIN Flight' : Flight'[i].dialog # e
                         /\ \/ dialogs[e].listModel = <<Own(e)>>
                            \/ \E x \in ToSet(dialogs[e].listModel) : x.dialog # e
    BY <1>1, <1>7 DEF SearchIsAnswered
  <2>1. CASE e = d
    <3>1. \A j \in DOMAIN Flight' : ~(j > k)
      BY <1>7
    <3> QED
      BY <1>6, <1>7, <2>1, <3>1
  <2>2. CASE e # d
    <3>1. e \notin scheduled
      BY <1>1, <2>2
    <3>2. \/ \E i \in DOMAIN Flight :
               /\ Flight[i] = Own(e)
               /\ \A j \in DOMAIN Flight : j > i => Flight[j].dialog # e
          \/ /\ \A i \in DOMAIN Flight : Flight[i].dialog # e
             /\ \/ dialogs[e].listModel = <<Own(e)>>
                \/ \E x \in ToSet(dialogs[e].listModel) : x.dialog # e
      BY <1>4, <3>1 DEF DInv, SearchIsAnswered
    <3>3. q.dialog # e
      BY <1>3, <1>6, <2>2
    <3> QED
      BY <1>7, <3>2, <3>3
  <2> QED
    BY <2>1, <2>2
<1> QED
  BY <1>7, <1>8, <1>9, <1>10, <1>11 DEF DInv

LEMMA TaskWritesKeeps ==
    ASSUME NEW d \in DOMAIN dialogs
    PROVE  DInv /\ TaskWrites(d) => DInv'
<1> SUFFICES ASSUME DInv, TaskWrites(d)
             PROVE  DInv'
  OBVIOUS
<1>1. PICK task \in running :
        /\ task.dialog = d
        /\ running' = running \ {task}
        /\ GetContactsSuggestionFor(d, task.text)
  BY DEF TaskWrites
<1>2. /\ dialogs' = dialogs /\ current' = current /\ opening' = opening
      /\ scheduled' = scheduled /\ toClient' = toClient /\ receiver' = receiver
      /\ hurried' = hurried /\ changes' = changes /\ closed' = closed
  BY DEF TaskWrites
<1>3. TypeOK
  BY DEF DInv
<1>4. dialogs[d].kind = "search"
  BY <1>1 DEF DInv, KindsMatch
<1>5. PICK q : q = [kind |-> "search", dialog |-> d, text |-> task.text]
  OBVIOUS
<1>6. q \in Query /\ q.kind = "search" /\ q.dialog = d /\ q.text = task.text
  BY <1>1, <1>3, <1>5, Typed DEF TypeOK, Query, Kinds
<1>7. PICK k : k = Len(Flight) + 1
  OBVIOUS
<1>8. hurried \subseteq hurried' /\ hurried' \subseteq DOMAIN dialogs
  BY <1>2, <1>3 DEF TypeOK
<1>9. /\ toServer' \in Seq(Query)
      /\ DOMAIN Flight' = DOMAIN Flight \cup {k}
      /\ \A i \in DOMAIN Flight : Flight'[i] = Flight[i] /\ i < k
      /\ Flight'[k] = q
      /\ DOMAIN Flight \subseteq Nat /\ k \in Nat
      /\ \A x : Own(x)' = Own(x)
      /\ KindsMatch' /\ ArchivesAskOnce' /\ OpeningIsNew'
      /\ EarlyIsHurried' /\ ArchiveIsAnswered'
  BY <1>1, <1>2, <1>4, <1>6, <1>7, <1>8, SearchAsked
<1>10. TypeOK'
  BY <1>1, <1>2, <1>3, <1>9 DEF TypeOK
<1>11. DiesOnlyOfAClose' /\ UseNeedsAClose'
  BY <1>2 DEF DInv, DiesOnlyOfAClose, UseNeedsAClose
<1>12. TasksAreCurrent'
  BY <1>1, <1>2 DEF DInv, TasksAreCurrent
<1>13. SearchIsAnswered'
  <2> SUFFICES ASSUME NEW e, e = current["search"], e # 0, e \notin hurried,
                      dialogs[e].text > 0, e \notin scheduled,
                      \A other \in running' : other.dialog # e
               PROVE  \/ \E i \in DOMAIN Flight' :
                           /\ Flight'[i] = Own(e)
                           /\ \A j \in DOMAIN Flight' : j > i => Flight'[j].dialog # e
                      \/ /\ \A i \in DOMAIN Flight' : Flight'[i].dialog # e
                         /\ \/ dialogs[e].listModel = <<Own(e)>>
                            \/ \E x \in ToSet(dialogs[e].listModel) : x.dialog # e
    BY <1>2, <1>9 DEF SearchIsAnswered
  <2>1. CASE e = d
    <3>1. \A j \in DOMAIN Flight' : ~(j > k)
      BY <1>9
    <3>2. task.text = dialogs[d].text
      BY <1>1, <2>1 DEF DInv, TasksAreCurrent
    <3>3. q = Own(d)
      BY <1>4, <1>5, <3>2 DEF Own
    <3> QED
      BY <1>9, <2>1, <3>1, <3>3
  <2>2. CASE e # d
    <3>1. \A other \in running : other.dialog # e
      BY <1>1, <2>2
    <3>2. \/ \E i \in DOMAIN Flight :
               /\ Flight[i] = Own(e)
               /\ \A j \in DOMAIN Flight : j > i => Flight[j].dialog # e
          \/ /\ \A i \in DOMAIN Flight : Flight[i].dialog # e
             /\ \/ dialogs[e].listModel = <<Own(e)>>
                \/ \E x \in ToSet(dialogs[e].listModel) : x.dialog # e
      BY <1>8, <3>1 DEF DInv, SearchIsAnswered
    <3>3. q.dialog # e
      BY <1>6, <2>2
    <3> QED
      BY <1>9, <3>2, <3>3
  <2> QED
    BY <2>1, <2>2
<1> QED
  BY <1>9, <1>10, <1>11, <1>12, <1>13 DEF DInv

---------------------------------------------------------------------------
(* Steps that leave the queries in flight as they are. *)

LEMMA TaskBeginsKeeps ==
    ASSUME NEW d \in DOMAIN dialogs
    PROVE  DInv /\ TaskBegins(d) => DInv'
<1> SUFFICES ASSUME DInv, TaskBegins(d)
             PROVE  DInv'
  OBVIOUS
<1>1. /\ d \in scheduled /\ scheduled' = scheduled \ {d}
      /\ running' = running \cup {[dialog |-> d, text |-> dialogs[d].text]}
      /\ dialogs' = dialogs /\ current' = current /\ opening' = opening
      /\ toServer' = toServer /\ toClient' = toClient /\ receiver' = receiver
      /\ hurried' = hurried /\ changes' = changes /\ closed' = closed
  BY DEF TaskBegins
<1>2. TypeOK /\ dialogs[d] \in Dialog
  BY Typed DEF DInv
<1>3. Flight' = Flight
  BY <1>1, Untouched
<1>4. \A x : Own(x)' = Own(x)
  BY <1>1 DEF Own
<1>5. TypeOK'
  <2>1. [dialog |-> d, text |-> dialogs[d].text]
          \in [dialog : DOMAIN dialogs, text : 0 .. MaxChanges]
    BY <1>2 DEF Dialog
  <2> QED
    BY <1>1, <1>2, <2>1 DEF TypeOK
<1>6. /\ DiesOnlyOfAClose' /\ ArchivesAskOnce' /\ OpeningIsNew'
      /\ EarlyIsHurried' /\ UseNeedsAClose' /\ ArchiveIsAnswered'
  BY <1>1, <1>3, <1>4 DEF DInv, DiesOnlyOfAClose, ArchivesAskOnce, OpeningIsNew,
                          EarlyIsHurried, UseNeedsAClose, ArchiveIsAnswered
<1>7. KindsMatch'
  BY <1>1, <1>3 DEF DInv, KindsMatch
<1>8. TasksAreCurrent'
  BY <1>1 DEF DInv, TasksAreCurrent
<1>9. SearchIsAnswered'
  <2>1. CASE current["search"] = d
    <3>1. [dialog |-> d, text |-> dialogs[d].text] \in running'
      BY <1>1
    <3> QED
      BY <1>1, <2>1, <3>1 DEF SearchIsAnswered
  <2>2. CASE current["search"] # d
    BY <1>1, <1>3, <1>4, <2>2 DEF DInv, SearchIsAnswered
  <2> QED
    BY <2>1, <2>2
<1> QED
  BY <1>5, <1>6, <1>7, <1>8, <1>9 DEF DInv

LEMMA AnswerKeeps ==
    ASSUME NEW kind
    PROVE  DInv /\ Answer(kind) => DInv'
<1> SUFFICES ASSUME DInv, Answer(kind)
             PROVE  DInv'
  OBVIOUS
<1>1. /\ dialogs' = dialogs /\ current' = current /\ opening' = opening
      /\ scheduled' = scheduled /\ running' = running /\ receiver' = receiver
      /\ hurried' = hurried /\ changes' = changes /\ closed' = closed
  BY DEF Answer
<1>2. TypeOK
  BY DEF DInv
<1>3. Flight' = Flight
  BY <1>2, AnswerKeepsFlight
<1>4. \A x : Own(x)' = Own(x)
  BY <1>1 DEF Own
<1>5. TypeOK'
  <2>1. /\ Head(toServer) \in Query
        /\ toServer' \in Seq(Query)
        /\ toClient' \in Seq(Query)
    BY <1>2, HeadTailProperties, AppendProperties DEF TypeOK, Answer
  <2> QED
    BY <1>1, <1>2, <2>1 DEF TypeOK
<1>6. /\ DiesOnlyOfAClose' /\ ArchivesAskOnce' /\ OpeningIsNew'
      /\ EarlyIsHurried' /\ UseNeedsAClose' /\ ArchiveIsAnswered'
      /\ KindsMatch' /\ TasksAreCurrent' /\ SearchIsAnswered'
  BY <1>1, <1>3, <1>4 DEF DInv, DiesOnlyOfAClose, ArchivesAskOnce, OpeningIsNew,
         EarlyIsHurried, UseNeedsAClose, ArchiveIsAnswered, KindsMatch,
         TasksAreCurrent, SearchIsAnswered
<1> QED
  BY <1>5, <1>6 DEF DInv

\* What the receiver thread does to the history when an answer comes.
LEMMA LookTyped ==
    ASSUME DInv, LookForDialog
    PROVE  /\ receiver.at = "wait" /\ toClient # <<>>
           /\ Head(toClient) \in Query /\ Tail(toClient) \in Seq(Query)
           /\ 1 \in DOMAIN Flight /\ Flight[1] = Head(toClient)
           /\ hurried \subseteq hurried' /\ hurried' \subseteq DOMAIN dialogs
           /\ Head(toClient).dialog = opening /\ opening # 0 =>
                opening \in hurried' /\ current["archive"] \in hurried' \cup {0}
           /\ TypeOK'
<1>1. TypeOK
  BY DEF DInv
<1>2. /\ receiver.at = "wait" /\ toClient # <<>>
      /\ toClient' = Tail(toClient)
      /\ receiver' = IF current[Head(toClient).kind] = 0 THEN receiver
                     ELSE [at |-> "use", answer |-> Head(toClient)]
      /\ hurried' = IF Head(toClient).dialog = opening
                    THEN (hurried \cup {opening, current["archive"]}) \ {0}
                    ELSE hurried
      /\ dialogs' = dialogs /\ current' = current /\ opening' = opening
      /\ scheduled' = scheduled /\ running' = running /\ toServer' = toServer
      /\ changes' = changes /\ closed' = {}
  BY DEF LookForDialog, Early
<1>3. /\ Head(toClient) \in Query /\ Tail(toClient) \in Seq(Query)
      /\ 1 \in DOMAIN Flight /\ Flight[1] = Head(toClient)
  BY <1>1, <1>2, HeadIsFirst
<1>4. /\ opening # 0 => opening \in DOMAIN dialogs
      /\ current["archive"] # 0 => current["archive"] \in DOMAIN dialogs
      /\ 0 \notin DOMAIN dialogs
  BY <1>1, Typed DEF Kinds
<1>5. hurried \subseteq DOMAIN dialogs
  BY <1>1 DEF TypeOK
<1>6. hurried \subseteq hurried' /\ hurried' \subseteq DOMAIN dialogs
  BY <1>2, <1>4, <1>5
<1>7. Head(toClient).dialog = opening /\ opening # 0 =>
        opening \in hurried' /\ current["archive"] \in hurried' \cup {0}
  BY <1>2
<1>8. TypeOK'
  BY <1>1, <1>2, <1>3, <1>6 DEF TypeOK
<1> QED
  BY <1>2, <1>3, <1>6, <1>7, <1>8

LEMMA DialogFoundKeeps ==
    DInv /\ LookForDialog /\ current[Head(toClient).kind] # 0 => DInv'
<1> SUFFICES ASSUME DInv, LookForDialog, current[Head(toClient).kind] # 0
             PROVE  DInv'
  OBVIOUS
<1>1. TypeOK
  BY DEF DInv
<1>2. /\ receiver'.at = "use" /\ receiver'.answer = Head(toClient)
      /\ dialogs' = dialogs /\ current' = current /\ opening' = opening
      /\ scheduled' = scheduled /\ running' = running /\ closed' = {}
  BY DEF LookForDialog
<1>3. /\ hurried \subseteq hurried'
      /\ Head(toClient).dialog = opening /\ opening # 0 =>
           opening \in hurried' /\ current["archive"] \in hurried' \cup {0}
      /\ TypeOK'
  BY LookTyped
<1>4. Flight' = Flight
  BY <1>1, LookKeepsFlight
<1>5. \A x : Own(x)' = Own(x)
  BY <1>2 DEF Own
<1>6. /\ DiesOnlyOfAClose' /\ ArchivesAskOnce' /\ OpeningIsNew'
      /\ UseNeedsAClose' /\ KindsMatch'
  BY <1>2, <1>3, <1>4, <1>5 DEF DInv, DiesOnlyOfAClose, ArchivesAskOnce,
         OpeningIsNew, UseNeedsAClose, KindsMatch
<1>7. EarlyIsHurried'
  BY <1>2, <1>3 DEF EarlyIsHurried
<1>8. ArchiveIsAnswered' /\ TasksAreCurrent' /\ SearchIsAnswered'
  BY <1>2, <1>3, <1>4, <1>5 DEF DInv, ArchiveIsAnswered, TasksAreCurrent,
                                SearchIsAnswered
<1> QED
  BY <1>3, <1>6, <1>7, <1>8 DEF DInv

---------------------------------------------------------------------------
(* The receiver thread is through with an answer. *)

\* The other queries stay in order, and go on being asked once.
LEMMA OthersStay ==
    ASSUME DInv, NEW a \in Query, NEW rest \in Seq(Query),
           Flight = <<a>> \o rest, Flight' = rest,
           DOMAIN dialogs' = DOMAIN dialogs,
           \A x \in DOMAIN dialogs : /\ dialogs'[x].kind = dialogs[x].kind
                                     /\ dialogs'[x].text = dialogs[x].text,
           scheduled' = scheduled, running' = running
    PROVE  /\ 1 \in DOMAIN Flight /\ Flight[1] = a
           /\ \A i \in DOMAIN Flight' :
                /\ i \in Nat /\ i + 1 \in DOMAIN Flight /\ i + 1 # 1
                /\ Flight[i + 1] = Flight'[i]
           /\ \A i \in DOMAIN Flight \ {1} :
                i \in Nat /\ i - 1 \in DOMAIN Flight' /\ Flight'[i - 1] = Flight[i]
           /\ a.dialog \in DOMAIN dialogs
           /\ a.kind = dialogs[a.dialog].kind
           /\ a.kind = "archive" => a.text = 0
           /\ KindsMatch' /\ ArchivesAskOnce'
           /\ \A j \in DOMAIN Flight' : \E i \in DOMAIN Flight :
                i # 1 /\ Flight[i] = Flight'[j]
           /\ \A i \in DOMAIN Flight : i # 1 =>
                \E j \in DOMAIN Flight' : Flight'[j] = Flight[i]
<1>1. /\ 1 \in DOMAIN Flight /\ Flight[1] = a
      /\ \A i \in DOMAIN Flight' :
           /\ i \in Nat /\ i + 1 \in DOMAIN Flight /\ i + 1 # 1
           /\ Flight[i + 1] = Flight'[i]
      /\ \A i \in DOMAIN Flight \ {1} :
           i \in Nat /\ i - 1 \in DOMAIN Flight' /\ Flight'[i - 1] = Flight[i]
  BY PassedOn
<1>2. /\ a.dialog \in DOMAIN dialogs
      /\ a.kind = dialogs[a.dialog].kind
      /\ a.kind = "archive" => a.text = 0
  <2>1. \A i \in DOMAIN Flight :
          /\ Flight[i].dialog \in DOMAIN dialogs
          /\ Flight[i].kind = dialogs[Flight[i].dialog].kind
          /\ Flight[i].kind = "archive" => Flight[i].text = 0
    BY DEF DInv, KindsMatch
  <2> QED
    BY <1>1, <2>1, Zenon
<1>3. KindsMatch'
  <2>1. \A i \in DOMAIN Flight' :
         /\ Flight'[i].dialog \in DOMAIN dialogs'
         /\ Flight'[i].kind = dialogs'[Flight'[i].dialog].kind
         /\ Flight'[i].kind = "archive" => Flight'[i].text = 0
    <3> TAKE i \in DOMAIN Flight'
    <3>1. i + 1 \in DOMAIN Flight /\ Flight[i + 1] = Flight'[i]
      BY <1>1
    <3>2. /\ Flight[i + 1].dialog \in DOMAIN dialogs
          /\ Flight[i + 1].kind = dialogs[Flight[i + 1].dialog].kind
          /\ Flight[i + 1].kind = "archive" => Flight[i + 1].text = 0
      BY <3>1 DEF DInv, KindsMatch
    <3> QED
      BY <3>1, <3>2, Zenon
  <2>2. \A d \in DOMAIN dialogs' : dialogs'[d].kind = "archive" => dialogs'[d].text = 0
    BY DEF DInv, KindsMatch
  <2>3. /\ \A d \in scheduled' : dialogs'[d].kind = "search"
        /\ \A task \in running' : dialogs'[task.dialog].kind = "search"
    BY DEF DInv, KindsMatch, TypeOK
  <2> QED
    BY <2>1, <2>2, <2>3 DEF KindsMatch
<1>4. ArchivesAskOnce'
  <2> SUFFICES ASSUME NEW i \in DOMAIN Flight', NEW j \in DOMAIN Flight',
                      Flight'[i].kind = "archive", Flight'[j].kind = "archive",
                      Flight'[i].dialog = Flight'[j].dialog
               PROVE  i = j
    BY DEF ArchivesAskOnce
  <2>1. i + 1 = j + 1
    BY <1>1 DEF DInv, ArchivesAskOnce
  <2> QED
    BY <1>1, <2>1
<1>5. \A j \in DOMAIN Flight' : \E i \in DOMAIN Flight :
        i # 1 /\ Flight[i] = Flight'[j]
  <2> TAKE j \in DOMAIN Flight'
  <2> WITNESS j + 1 \in DOMAIN Flight
  <2> QED
    BY <1>1, Zenon
<1>6. \A i \in DOMAIN Flight : i # 1 =>
        \E j \in DOMAIN Flight' : Flight'[j] = Flight[i]
  <2> SUFFICES ASSUME NEW i \in DOMAIN Flight, i # 1
               PROVE  \E j \in DOMAIN Flight' : Flight'[j] = Flight[i]
    OBVIOUS
  <2>1. i - 1 \in DOMAIN Flight' /\ Flight'[i - 1] = Flight[i]
    BY <1>1, Zenon
  <2> QED
    BY <2>1, Zenon
<1> QED
  BY <1>1, <1>2, <1>3, <1>4, <1>5, <1>6, Zenon

\* An answer for a kind of dialog that is not referred to may be dropped,
\* unless it is that of the archive dialog being opened.
LEMMA Dropped ==
    ASSUME DInv, NEW a \in Query, NEW rest \in Seq(Query),
           Flight = <<a>> \o rest, Flight' = rest,
           current[a.kind] = 0,
           dialogs' = dialogs, current' = current, opening' = opening,
           scheduled' = scheduled, running' = running,
           hurried \subseteq hurried',
           a.dialog = opening /\ opening # 0 => opening \in hurried'
    PROVE  /\ KindsMatch' /\ ArchivesAskOnce' /\ OpeningIsNew'
           /\ ArchiveIsAnswered' /\ TasksAreCurrent' /\ SearchIsAnswered'
<1>1. TypeOK
  BY DEF DInv
<1>2. /\ 1 \in DOMAIN Flight /\ Flight[1] = a
      /\ \A i \in DOMAIN Flight' :
           /\ i \in Nat /\ i + 1 \in DOMAIN Flight /\ i + 1 # 1
           /\ Flight[i + 1] = Flight'[i]
      /\ \A i \in DOMAIN Flight \ {1} :
           i \in Nat /\ i - 1 \in DOMAIN Flight' /\ Flight'[i - 1] = Flight[i]
      /\ a.dialog \in DOMAIN dialogs
      /\ a.kind = dialogs[a.dialog].kind
      /\ KindsMatch' /\ ArchivesAskOnce'
      /\ \A j \in DOMAIN Flight' : \E i \in DOMAIN Flight :
           i # 1 /\ Flight[i] = Flight'[j]
      /\ \A i \in DOMAIN Flight : i # 1 =>
           \E j \in DOMAIN Flight' : Flight'[j] = Flight[i]
  BY OthersStay
<1>3. \A x : Own(x)' = Own(x)
  BY DEF Own
<1>4. OpeningIsNew'
  <2> SUFFICES ASSUME opening # 0, opening \notin hurried'
               PROVE  /\ \E i \in DOMAIN Flight' : Flight'[i] = Own(opening)
                      /\ \A i \in DOMAIN Flight' :
                           Flight'[i].kind = "archive" => Flight'[i].dialog = opening
    BY <1>3 DEF DInv, OpeningIsNew
  <2>1. /\ \E i \in DOMAIN Flight : Flight[i] = Own(opening)
        /\ \A i \in DOMAIN Flight :
             Flight[i].kind = "archive" => Flight[i].dialog = opening
    BY DEF DInv, OpeningIsNew
  <2>2. Own(opening).dialog = opening
    BY DEF Own
  <2>3. a # Own(opening)
    BY <2>2
  <2>4. PICK i \in DOMAIN Flight \ {1} : Flight[i] = Own(opening)
    BY <1>2, <2>1, <2>3, Zenon
  <2>5. i - 1 \in DOMAIN Flight' /\ Flight'[i - 1] = Own(opening)
    BY <1>2, <2>4, Zenon
  <2>6. \A j \in DOMAIN Flight' :
          Flight'[j].kind = "archive" => Flight'[j].dialog = opening
    <3> TAKE j \in DOMAIN Flight'
    <3>1. PICK m \in DOMAIN Flight : Flight[m] = Flight'[j]
      BY <1>2, Zenon
    <3>2. Flight[m].kind = "archive" => Flight[m].dialog = opening
      BY <2>1
    <3> QED
      BY <3>1, <3>2
  <2> QED
    BY <2>5, <2>6
<1>5. ArchiveIsAnswered'
  <2> SUFFICES ASSUME NEW c, c = current["archive"], c # 0, c \notin hurried'
               PROVE  /\ \A i \in DOMAIN Flight' :
                           Flight'[i].kind = "archive" =>
                             Flight'[i].dialog \in {c, opening}
                      /\ \/ /\ \E i \in DOMAIN Flight' : Flight'[i] = Own(c)
                            /\ dialogs[c].listModel = <<>>
                         \/ /\ \A i \in DOMAIN Flight' : Flight'[i] # Own(c)
                            /\ dialogs[c].listModel = <<Own(c)>>
    BY <1>3 DEF ArchiveIsAnswered
  <2>1. Own(c).kind = "archive" /\ a.kind # "archive"
    BY <1>1, Typed DEF Own, Kinds
  <2>2. /\ \A i \in DOMAIN Flight :
             Flight[i].kind = "archive" => Flight[i].dialog \in {c, opening}
        /\ \/ /\ \E i \in DOMAIN Flight : Flight[i] = Own(c)
              /\ dialogs[c].listModel = <<>>
           \/ /\ \A i \in DOMAIN Flight : Flight[i] # Own(c)
              /\ dialogs[c].listModel = <<Own(c)>>
    BY DEF DInv, ArchiveIsAnswered
  <2>3. (\E i \in DOMAIN Flight' : Flight'[i] = Own(c))
          <=> (\E i \in DOMAIN Flight : Flight[i] = Own(c))
    <3>1. ASSUME NEW j \in DOMAIN Flight', Flight'[j] = Own(c)
          PROVE  \E i \in DOMAIN Flight : Flight[i] = Own(c)
      <4>1. PICK m \in DOMAIN Flight : Flight[m] = Flight'[j]
        BY <1>2, Zenon
      <4> QED
        BY <3>1, <4>1
    <3>2. ASSUME NEW i \in DOMAIN Flight, Flight[i] = Own(c)
          PROVE  \E j \in DOMAIN Flight' : Flight'[j] = Own(c)
      <4>1. i # 1
        BY <1>2, <2>1, <3>2
      <4>2. PICK m \in DOMAIN Flight' : Flight'[m] = Flight[i]
        BY <1>2, <4>1, Zenon
      <4> QED
        BY <3>2, <4>2
    <3> QED
      BY <3>1, <3>2
  <2>4. \A i \in DOMAIN Flight' :
          Flight'[i].kind = "archive" => Flight'[i].dialog \in {c, opening}
    <3> TAKE i \in DOMAIN Flight'
    <3>1. PICK m \in DOMAIN Flight : Flight[m] = Flight'[i]
      BY <1>2, Zenon
    <3>2. Flight[m].kind = "archive" => Flight[m].dialog \in {c, opening}
      BY <2>2
    <3> QED
      BY <3>1, <3>2
  <2> QED
    BY <2>2, <2>3, <2>4, Zenon
<1>6. TasksAreCurrent'
  BY DEF DInv, TasksAreCurrent
<1>7. SearchIsAnswered'
  <2> SUFFICES ASSUME NEW e, e = current["search"], e # 0, e \notin hurried',
                      dialogs[e].text > 0, e \notin scheduled,
                      \A task \in running : task.dialog # e
               PROVE  \/ \E i \in DOMAIN Flight' :
                           /\ Flight'[i] = Own(e)
                           /\ \A j \in DOMAIN Flight' : j > i => Flight'[j].dialog # e
                      \/ /\ \A i \in DOMAIN Flight' : Flight'[i].dialog # e
                         /\ \/ dialogs[e].listModel = <<Own(e)>>
                            \/ \E x \in ToSet(dialogs[e].listModel) : x.dialog # e
    BY <1>3 DEF SearchIsAnswered
  <2>1. a.dialog # e
    BY <1>1, <1>2, Typed DEF Kinds
  <2>2. Own(e).dialog = e
    BY DEF Own
  <2>3. \/ \E i \in DOMAIN Flight :
             /\ Flight[i] = Own(e)
             /\ \A j \in DOMAIN Flight : j > i => Flight[j].dialog # e
        \/ /\ \A i \in DOMAIN Flight : Flight[i].dialog # e
           /\ \/ dialogs[e].listModel = <<Own(e)>>
              \/ \E x \in ToSet(dialogs[e].listModel) : x.dialog # e
    BY DEF DInv, SearchIsAnswered
  <2>4. CASE \A i \in DOMAIN Flight : Flight[i].dialog # e
    <3>1. \A i \in DOMAIN Flight' : Flight'[i].dialog # e
      <4> TAKE i \in DOMAIN Flight'
      <4>1. PICK m \in DOMAIN Flight : Flight[m] = Flight'[i]
        BY <1>2, Zenon
      <4> QED
        BY <2>4, <4>1
    <3>2. ~ \E i \in DOMAIN Flight : Flight[i] = Own(e)
      BY <2>2, <2>4
    <3> QED
      BY <2>3, <3>1, <3>2, Zenon
  <2>5. ASSUME NEW i \in DOMAIN Flight, Flight[i] = Own(e),
               \A j \in DOMAIN Flight : j > i => Flight[j].dialog # e
        PROVE  \E m \in DOMAIN Flight' :
                 /\ Flight'[m] = Own(e)
                 /\ \A j \in DOMAIN Flight' : j > m => Flight'[j].dialog # e
    <3>1. i # 1
      BY <1>2, <2>1, <2>2, <2>5
    <3>2. i \in Nat /\ i - 1 \in DOMAIN Flight' /\ Flight'[i - 1] = Own(e)
      BY <1>2, <2>5, <3>1, Zenon
    <3>3. ASSUME NEW j \in DOMAIN Flight', j > i - 1
          PROVE  Flight'[j].dialog # e
      <4>1. j \in Nat /\ j + 1 \in DOMAIN Flight /\ Flight[j + 1] = Flight'[j]
        BY <1>2, Zenon
      <4>2. j + 1 > i
        BY <3>2, <3>3, <4>1
      <4> QED
        BY <2>5, <4>1, <4>2, Zenon
    <3> QED
      BY <3>2, <3>3
  <2> QED
    BY <2>3, <2>4, <2>5
<1> QED
  BY <1>2, <1>4, <1>5, <1>6, <1>7

LEMMA NoDialogFoundKeeps ==
    DInv /\ LookForDialog /\ current[Head(toClient).kind] = 0 => DInv'
<1> SUFFICES ASSUME DInv, LookForDialog, current[Head(toClient).kind] = 0
             PROVE  DInv'
  OBVIOUS
<1>1. TypeOK
  BY DEF DInv
<1>2. /\ receiver.at = "wait" /\ toClient # <<>>
      /\ receiver' = receiver /\ toClient' = Tail(toClient)
      /\ toServer' = toServer
      /\ dialogs' = dialogs /\ current' = current /\ opening' = opening
      /\ scheduled' = scheduled /\ running' = running /\ closed' = {}
  BY DEF LookForDialog
<1>3. /\ hurried \subseteq hurried'
      /\ Head(toClient).dialog = opening /\ opening # 0 => opening \in hurried'
      /\ TypeOK'
  BY LookTyped
<1>4. PICK a \in Query, rest \in Seq(Query) :
        /\ a = Head(toClient) /\ rest = Tail(toClient) \o toServer
        /\ Flight = <<a>> \o rest
  BY <1>1, <1>2, HeadIsFirst
<1>5. Flight' = rest
  <2>1. receiver'.at # "use" /\ toClient' \o toServer' = rest
    BY <1>2, <1>4
  <2> QED
    BY <1>1, <2>1, WithoutHeld
<1>6. /\ KindsMatch' /\ ArchivesAskOnce' /\ OpeningIsNew'
      /\ ArchiveIsAnswered' /\ TasksAreCurrent' /\ SearchIsAnswered'
  BY <1>2, <1>3, <1>4, <1>5, Dropped
<1>7. DiesOnlyOfAClose' /\ UseNeedsAClose' /\ EarlyIsHurried'
  BY <1>2 DEF DInv, DiesOnlyOfAClose, UseNeedsAClose, EarlyIsHurried
<1> QED
  BY <1>3, <1>6, <1>7 DEF DInv

LEMMA NoDialogKeeps == DInv /\ NoDialog => DInv'
<1> SUFFICES ASSUME DInv, NoDialog
             PROVE  DInv'
  OBVIOUS
<1>1. TypeOK
  BY DEF DInv
<1>2. /\ receiver.at = "use" /\ current[receiver.answer.kind] = 0
      /\ receiver'.at = "dead" /\ receiver'.answer = receiver.answer
      /\ receiver' \in [at : {"dead"}, answer : Query]
      /\ toClient' = toClient /\ toServer' = toServer
      /\ dialogs' = dialogs /\ current' = current /\ opening' = opening
      /\ scheduled' = scheduled /\ running' = running /\ closed' = closed
      /\ hurried' = hurried /\ changes' = changes
  BY <1>1 DEF NoDialog, TypeOK
<1>3. PICK a \in Query, rest \in Seq(Query) :
        /\ a = receiver.answer /\ rest = toClient \o toServer
        /\ Flight = <<a>> \o rest
  BY <1>1, <1>2, HeldIsFirst, FlightType
<1>4. Flight' = rest
  BY <1>1, <1>2, <1>3, WithoutHeld
<1>5. a.dialog = opening /\ opening # 0 => opening \in hurried
  <2> SUFFICES ASSUME a.dialog = opening, opening # 0
               PROVE  opening \in hurried
    OBVIOUS
  <2>1. a.kind = "archive"
    <3>1. Flight[1] = a /\ 1 \in DOMAIN Flight
      BY <1>1, <1>2, <1>3, HeldIsFirst
    <3>2. a.kind = dialogs[a.dialog].kind
      BY <3>1 DEF DInv, KindsMatch
    <3> QED
      BY <3>2 DEF DInv, OpeningIsNew
  <2> QED
    BY <1>2, <1>3, <2>1 DEF DInv, EarlyIsHurried
<1>6. /\ KindsMatch' /\ ArchivesAskOnce' /\ OpeningIsNew'
      /\ ArchiveIsAnswered' /\ TasksAreCurrent' /\ SearchIsAnswered'
  BY <1>2, <1>3, <1>4, <1>5, Dropped
<1>7. DiesOnlyOfAClose' /\ UseNeedsAClose' /\ EarlyIsHurried'
  BY <1>2 DEF DInv, DiesOnlyOfAClose, UseNeedsAClose, EarlyIsHurried
<1>8. TypeOK'
  BY <1>1, <1>2 DEF TypeOK
<1> QED
  BY <1>6, <1>7, <1>8 DEF DInv

LEMMA SingleAnswer ==
    ASSUME NEW a \in Query
    PROVE  Append(<<>>, a) = <<a>> /\ a \in ToSet(<<a>>)
<1>1. <<>> \in Seq(Query) /\ <<a>> \in Seq(Query)
  OBVIOUS
<1>2. Append(<<>>, a) = <<>> \o <<a>>
  BY <1>1, AppendIsConcat
<1>3. <<>> \o <<a>> = <<a>>
  BY <1>1, ConcatEmptySeq
<1>4. <<a>>[1] = a /\ 1 \in DOMAIN <<a>>
  OBVIOUS
<1> QED
  BY <1>2, <1>3, <1>4 DEF ToSet

\* An answer is shown by the dialog of its kind that is referred to.
LEMMA Shown ==
    ASSUME DInv, UpdateDialog
    PROVE  \E a \in Query, rest \in Seq(Query), d \in DOMAIN dialogs,
              new \in Dialog :
             /\ a = receiver.answer /\ d = current[a.kind] /\ d # 0
             /\ dialogs[d].kind = a.kind
             /\ Flight = <<a>> \o rest /\ Flight' = rest
             /\ new.kind = dialogs[d].kind /\ new.text = dialogs[d].text
             /\ new.listModel =
                  Append(IF a.kind = "search" THEN <<>>
                                              ELSE dialogs[d].listModel, a)
             /\ dialogs' = [dialogs EXCEPT ![d] = new]
<1>1. TypeOK /\ receiver.at = "use"
  BY DEF DInv, UpdateDialog
<1>2. PICK a \in Query, rest \in Seq(Query) :
        /\ a = receiver.answer /\ rest = toClient \o toServer
        /\ Flight = <<a>> \o rest
  BY <1>1, HeldIsFirst, FlightType
<1>3. Flight' = rest
  <2>1. receiver'.at # "use" /\ toClient' \o toServer' = rest
    BY <1>2 DEF UpdateDialog
  <2> QED
    BY <1>1, <2>1, WithoutHeld
<1>4. a.kind \in Kinds
  BY <1>2 DEF Query
<1>5. PICK d \in DOMAIN dialogs : /\ d = current[a.kind] /\ d # 0
                                  /\ dialogs[d].kind = a.kind
                                  /\ dialogs[d] \in Dialog
  BY <1>1, <1>2, <1>4, Typed DEF UpdateDialog
<1> DEFINE before == IF a.kind = "search" THEN <<>> ELSE dialogs[d].listModel
           listed == Append(before, a)
           new == [dialogs[d] EXCEPT !.listModel = listed]
<1>6. before \in Seq(Query)
  BY <1>5 DEF Dialog
<1>7. listed \in Seq(Query)
  BY <1>6, AppendProperties
<1>8. dialogs' = [dialogs EXCEPT ![d] = new]
  BY <1>2, <1>5 DEF UpdateDialog
<1> HIDE DEF listed
<1>9. /\ new \in Dialog
      /\ new.kind = dialogs[d].kind /\ new.text = dialogs[d].text
      /\ new.listModel = listed
  BY <1>5, <1>7 DEF Dialog
<1> HIDE DEF new
<1>10. PICK n \in Dialog : n = new
  BY <1>9
<1> WITNESS a \in Query, rest \in Seq(Query), d \in DOMAIN dialogs, n \in Dialog
<1> QED
  BY <1>2, <1>3, <1>5, <1>8, <1>9, <1>10 DEF listed

LEMMA UpdateDialogKeeps == DInv /\ UpdateDialog => DInv'
<1> SUFFICES ASSUME DInv, UpdateDialog
             PROVE  DInv'
  OBVIOUS
<1>1. TypeOK
  BY DEF DInv
<1>2. /\ receiver.at = "use" /\ receiver' = [at |-> "wait"]
      /\ toClient' = toClient /\ toServer' = toServer
      /\ current' = current /\ opening' = opening
      /\ scheduled' = scheduled /\ running' = running /\ closed' = closed
      /\ hurried' = hurried /\ changes' = changes
  BY DEF UpdateDialog
<1>3. PICK a \in Query, rest \in Seq(Query), d \in DOMAIN dialogs,
           new \in Dialog :
        /\ a = receiver.answer /\ d = current[a.kind] /\ d # 0
        /\ dialogs[d].kind = a.kind
        /\ Flight = <<a>> \o rest /\ Flight' = rest
        /\ new.kind = dialogs[d].kind /\ new.text = dialogs[d].text
        /\ new.listModel =
             Append(IF a.kind = "search" THEN <<>>
                                         ELSE dialogs[d].listModel, a)
        /\ dialogs' = [dialogs EXCEPT ![d] = new]
  BY Shown
<1>4. /\ dialogs' \in Seq(Dialog) /\ Len(dialogs') = Len(dialogs)
      /\ DOMAIN dialogs' = DOMAIN dialogs
      /\ dialogs'[d].listModel = new.listModel
      /\ \A x \in DOMAIN dialogs : x # d => dialogs'[x] = dialogs[x]
      /\ \A x \in DOMAIN dialogs : /\ dialogs'[x].kind = dialogs[x].kind
                                   /\ dialogs'[x].text = dialogs[x].text
                                   /\ Own(x)' = Own(x)
  BY <1>1, <1>3, Altered
<1>5. /\ 1 \in DOMAIN Flight /\ Flight[1] = a
      /\ \A i \in DOMAIN Flight' :
           /\ i \in Nat /\ i + 1 \in DOMAIN Flight /\ i + 1 # 1
           /\ Flight[i + 1] = Flight'[i]
      /\ \A i \in DOMAIN Flight \ {1} :
           i \in Nat /\ i - 1 \in DOMAIN Flight' /\ Flight'[i - 1] = Flight[i]
      /\ a.dialog \in DOMAIN dialogs
      /\ a.kind = dialogs[a.dialog].kind
      /\ a.kind = "archive" => a.text = 0
      /\ KindsMatch' /\ ArchivesAskOnce'
      /\ \A j \in DOMAIN Flight' : \E i \in DOMAIN Flight :
           i # 1 /\ Flight[i] = Flight'[j]
      /\ \A i \in DOMAIN Flight : i # 1 =>
           \E j \in DOMAIN Flight' : Flight'[j] = Flight[i]
  BY <1>2, <1>3, <1>4, OthersStay
<1>6. a.kind \in {"search", "archive"}
  BY DEF Query, Kinds
<1>7. \A x : Own(x).dialog = x
  BY DEF Own
<1>8. TypeOK'
  BY <1>1, <1>2, <1>4, Typed DEF TypeOK
<1>9. DiesOnlyOfAClose' /\ UseNeedsAClose' /\ EarlyIsHurried'
  BY <1>2 DEF DInv, DiesOnlyOfAClose, UseNeedsAClose, EarlyIsHurried
<1>10. TasksAreCurrent'
  BY <1>1, <1>2, <1>4 DEF DInv, TasksAreCurrent, TypeOK
<1>11. OpeningIsNew'
  <2> SUFFICES ASSUME opening # 0
               PROVE  /\ dialogs'[opening].listModel = <<>>
                      /\ opening \notin hurried =>
                           /\ \E i \in DOMAIN Flight' : Flight'[i] = Own(opening)
                           /\ \A i \in DOMAIN Flight' :
                                Flight'[i].kind = "archive" =>
                                  Flight'[i].dialog = opening
    BY <1>1, <1>2, <1>4, Typed DEF DInv, OpeningIsNew
  <2>1. /\ opening \in DOMAIN dialogs
        /\ dialogs[opening].kind = "archive"
        /\ dialogs[opening].listModel = <<>>
        /\ current["archive"] # opening
    BY <1>1, Typed DEF DInv, OpeningIsNew
  <2>2. d # opening
    BY <1>3, <2>1
  <2>3. ASSUME opening \notin hurried
        PROVE  /\ \E i \in DOMAIN Flight' : Flight'[i] = Own(opening)
               /\ \A i \in DOMAIN Flight' :
                    Flight'[i].kind = "archive" => Flight'[i].dialog = opening
    <3>1. /\ \E i \in DOMAIN Flight : Flight[i] = Own(opening)
          /\ \A i \in DOMAIN Flight :
               Flight[i].kind = "archive" => Flight[i].dialog = opening
      BY <2>3 DEF DInv, OpeningIsNew
    <3>2. a.dialog # opening
      <4>1. a.kind = "archive" => a.dialog # opening
        BY <1>2, <1>3, <2>3 DEF DInv, EarlyIsHurried
      <4> QED
        BY <1>5, <2>1, <4>1
    <3>3. PICK i \in DOMAIN Flight : Flight[i] = Own(opening)
      BY <3>1
    <3>4. i # 1
      BY <1>5, <1>7, <3>2, <3>3
    <3>5. \E j \in DOMAIN Flight' : Flight'[j] = Flight[i]
      BY <1>5, <3>4, Zenon
    <3>6. \A j \in DOMAIN Flight' :
            Flight'[j].kind = "archive" => Flight'[j].dialog = opening
      <4> TAKE j \in DOMAIN Flight'
      <4>1. PICK m \in DOMAIN Flight : Flight[m] = Flight'[j]
        BY <1>5, Zenon
      <4>2. Flight[m].kind = "archive" => Flight[m].dialog = opening
        BY <3>1
      <4> QED
        BY <4>1, <4>2
    <3> QED
      BY <3>3, <3>5, <3>6
  <2> QED
    BY <1>4, <2>1, <2>2, <2>3
<1>12. ArchiveIsAnswered'
  <2> SUFFICES ASSUME NEW c, c = current["archive"], c # 0, c \notin hurried
               PROVE  /\ \A i \in DOMAIN Flight' :
                           Flight'[i].kind = "archive" =>
                             Flight'[i].dialog \in {c, opening}
                      /\ \/ /\ \E i \in DOMAIN Flight' : Flight'[i] = Own(c)
                            /\ dialogs'[c].listModel = <<>>
                         \/ /\ \A i \in DOMAIN Flight' : Flight'[i] # Own(c)
                            /\ dialogs'[c].listModel = <<Own(c)>>
    <3>1. current["archive"] # 0 => Own(current["archive"])' = Own(current["archive"])
      BY <1>1, <1>2, <1>4, Typed DEF Kinds, Own
    <3> QED
      BY <1>2, <3>1 DEF ArchiveIsAnswered
  <2>1. /\ c \in DOMAIN dialogs /\ dialogs[c].kind = "archive"
        /\ Own(c).kind = "archive"
    BY <1>1, Typed DEF Own, Kinds
  <2>2. /\ \A i \in DOMAIN Flight :
             Flight[i].kind = "archive" => Flight[i].dialog \in {c, opening}
        /\ \/ /\ \E i \in DOMAIN Flight : Flight[i] = Own(c)
              /\ dialogs[c].listModel = <<>>
           \/ /\ \A i \in DOMAIN Flight : Flight[i] # Own(c)
              /\ dialogs[c].listModel = <<Own(c)>>
    BY DEF DInv, ArchiveIsAnswered
  <2>3. \A i \in DOMAIN Flight' :
          Flight'[i].kind = "archive" => Flight'[i].dialog \in {c, opening}
    <3> TAKE i \in DOMAIN Flight'
    <3>1. PICK m \in DOMAIN Flight : Flight[m] = Flight'[i]
      BY <1>5, Zenon
    <3>2. Flight[m].kind = "archive" => Flight[m].dialog \in {c, opening}
      BY <2>2
    <3> QED
      BY <3>1, <3>2
  <2>4. CASE a.kind = "search"
    <3>1. dialogs'[c] = dialogs[c]
      BY <1>3, <1>4, <2>1, <2>4
    <3>2. ASSUME NEW j \in DOMAIN Flight', Flight'[j] = Own(c)
          PROVE  \E i \in DOMAIN Flight : Flight[i] = Own(c)
      <4>1. PICK m \in DOMAIN Flight : Flight[m] = Flight'[j]
        BY <1>5, Zenon
      <4> QED
        BY <3>2, <4>1
    <3>3. ASSUME NEW i \in DOMAIN Flight, Flight[i] = Own(c)
          PROVE  \E j \in DOMAIN Flight' : Flight'[j] = Own(c)
      <4>1. i # 1
        BY <1>5, <2>1, <2>4, <3>3
      <4>2. PICK m \in DOMAIN Flight' : Flight'[m] = Flight[i]
        BY <1>5, <4>1, Zenon
      <4> QED
        BY <3>3, <4>2
    <3> QED
      BY <2>2, <2>3, <3>1, <3>2, <3>3
  <2>5. CASE a.kind = "archive"
    <3>1. d = c
      BY <1>3, <2>5
    <3>2. a.dialog # opening
      <4> SUFFICES ASSUME a.dialog = opening
                   PROVE  FALSE
        OBVIOUS
      <4>1. opening # 0
        BY <1>1, <1>5, Typed
      <4> QED
        BY <1>2, <1>3, <2>5, <4>1 DEF DInv, EarlyIsHurried
    <3>3. a.dialog = c
      BY <1>5, <2>2, <2>5, <3>2
    <3>4. dialogs[c].text = 0
      BY <2>1 DEF DInv, KindsMatch
    <3>5. a = Own(c)
      BY <1>5, <2>1, <2>5, <3>3, <3>4 DEF Own, Query
    <3>6. dialogs[c].listModel = <<>>
      BY <1>5, <2>2, <3>5
    <3>7. dialogs'[c].listModel = <<Own(c)>>
      BY <1>3, <1>4, <2>5, <3>1, <3>5, <3>6, SingleAnswer
    <3>8. ASSUME NEW j \in DOMAIN Flight', Flight'[j] = Own(c)
          PROVE  FALSE
      <4>1. PICK m \in DOMAIN Flight : m # 1 /\ Flight[m] = Flight'[j]
        BY <1>5, Zenon
      <4>2. Flight[m] = a /\ Flight[1] = a /\ 1 \in DOMAIN Flight
        BY <1>5, <3>5, <3>8, <4>1
      <4> QED
        BY <2>5, <4>1, <4>2 DEF DInv, ArchivesAskOnce
    <3> QED
      BY <2>3, <3>7, <3>8
  <2> QED
    BY <1>6, <2>4, <2>5
<1>13. SearchIsAnswered'
  <2> SUFFICES ASSUME NEW e, e = current["search"], e # 0, e \notin hurried,
                      dialogs[e].text > 0, e \notin scheduled,
                      \A task \in running : task.dialog # e
               PROVE  \/ \E i \in DOMAIN Flight' :
                           /\ Flight'[i] = Own(e)
                           /\ \A j \in DOMAIN Flight' : j > i => Flight'[j].dialog # e
                      \/ /\ \A i \in DOMAIN Flight' : Flight'[i].dialog # e
                         /\ \/ dialogs'[e].listModel = <<Own(e)>>
                            \/ \E x \in ToSet(dialogs'[e].listModel) : x.dialog # e
    <3>1. current["search"] # 0 =>
            /\ Own(current["search"])' = Own(current["search"])
            /\ dialogs'[current["search"]].text = dialogs[current["search"]].text
      BY <1>1, <1>2, <1>4, Typed DEF Kinds, Own
    <3> QED
      BY <1>2, <3>1 DEF SearchIsAnswered
  <2>1. e \in DOMAIN dialogs /\ dialogs[e].kind = "search"
    BY <1>1, Typed DEF Kinds
  <2>2. \/ \E i \in DOMAIN Flight :
             /\ Flight[i] = Own(e)
             /\ \A j \in DOMAIN Flight : j > i => Flight[j].dialog # e
        \/ /\ \A i \in DOMAIN Flight : Flight[i].dialog # e
           /\ \/ dialogs[e].listModel = <<Own(e)>>
              \/ \E x \in ToSet(dialogs[e].listModel) : x.dialog # e
    BY DEF DInv, SearchIsAnswered
  <2>3. a.kind = "search" => d = e /\ dialogs'[e].listModel = <<a>>
    BY <1>3, <1>4, SingleAnswer
  <2>4. a.kind = "archive" => dialogs'[e] = dialogs[e] /\ a.dialog # e
    BY <1>3, <1>4, <1>5, <2>1
  <2>5. CASE \A i \in DOMAIN Flight : Flight[i].dialog # e
    <3>1. \A i \in DOMAIN Flight' : Flight'[i].dialog # e
      <4> TAKE i \in DOMAIN Flight'
      <4>1. PICK m \in DOMAIN Flight : Flight[m] = Flight'[i]
        BY <1>5, Zenon
      <4> QED
        BY <2>5, <4>1
    <3>2. ~ \E i \in DOMAIN Flight : Flight[i] = Own(e)
      BY <1>7, <2>5
    <3>3. \/ dialogs[e].listModel = <<Own(e)>>
          \/ \E x \in ToSet(dialogs[e].listModel) : x.dialog # e
      BY <2>2, <3>2
    <3>4. a.kind = "search" => \E x \in ToSet(dialogs'[e].listModel) : x.dialog # e
      BY <1>5, <2>3, <2>5, SingleAnswer
    <3>5. a.kind = "archive" =>
            \/ dialogs'[e].listModel = <<Own(e)>>
            \/ \E x \in ToSet(dialogs'[e].listModel) : x.dialog # e
      BY <2>4, <3>3
    <3> QED
      BY <1>6, <3>1, <3>4, <3>5
  <2>6. ASSUME NEW i \in DOMAIN Flight, Flight[i] = Own(e),
               \A j \in DOMAIN Flight : j > i => Flight[j].dialog # e
        PROVE  \/ \E m \in DOMAIN Flight' :
                    /\ Flight'[m] = Own(e)
                    /\ \A j \in DOMAIN Flight' : j > m => Flight'[j].dialog # e
               \/ /\ \A m \in DOMAIN Flight' : Flight'[m].dialog # e
                  /\ dialogs'[e].listModel = <<Own(e)>>
    <3>1. CASE i = 1
      <4>1. a = Own(e)
        BY <1>5, <2>6, <3>1
      <4>2. dialogs'[e].listModel = <<Own(e)>>
        BY <1>6, <1>7, <2>3, <2>4, <4>1
      <4>3. ASSUME NEW j \in DOMAIN Flight'
            PROVE  Flight'[j].dialog # e
        <5>1. j \in Nat /\ j + 1 \in DOMAIN Flight /\ j + 1 # 1
              /\ Flight[j + 1] = Flight'[j]
          BY <1>5, Zenon
        <5>2. j + 1 > i
          BY <3>1, <5>1
        <5> QED
          BY <2>6, <5>1, <5>2, Zenon
      <4> QED
        BY <4>2, <4>3
    <3>2. CASE i # 1
      <4>1. i \in Nat /\ i - 1 \in DOMAIN Flight' /\ Flight'[i - 1] = Own(e)
        BY <1>5, <2>6, <3>2, Zenon
      <4>2. ASSUME NEW j \in DOMAIN Flight', j > i - 1
            PROVE  Flight'[j].dialog # e
        <5>1. j \in Nat /\ j + 1 \in DOMAIN Flight /\ Flight[j + 1] = Flight'[j]
          BY <1>5, Zenon
        <5>2. j + 1 > i
          BY <4>1, <4>2, <5>1
        <5> QED
          BY <2>6, <5>1, <5>2, Zenon
      <4> QED
        BY <4>1, <4>2
    <3> QED
      BY <3>1, <3>2
  <2> QED
    BY <2>2, <2>5, <2>6
<1> QED
  BY <1>5, <1>8, <1>9, <1>10, <1>11, <1>12, <1>13 DEF DInv

---------------------------------------------------------------------------

LEMMA InitHolds == Init => DInv
<1> SUFFICES ASSUME Init
             PROVE  DInv
  OBVIOUS
<1>1. TypeOK
  <2>1. /\ dialogs \in Seq(Dialog) /\ Len(dialogs) = 0
        /\ toServer \in Seq(Query) /\ toClient \in Seq(Query)
    BY DEF Init
  <2>2. /\ current \in [Kinds -> 0 .. Len(dialogs)]
        /\ \A kind \in Kinds : current[kind] = 0
    BY <2>1 DEF Init
  <2>3. /\ opening \in 0 .. Len(dialogs) /\ Len(dialogs) <= MaxDialogs
        /\ changes \in 0 .. MaxChanges /\ closed \in SUBSET Kinds
    <3>1. opening = 0 /\ changes = 0 /\ closed = {}
      BY DEF Init
    <3>2. 0 \in 0 .. Len(dialogs)
      BY <2>1
    <3>3. Len(dialogs) <= MaxDialogs /\ 0 \in 0 .. MaxChanges
      BY <2>1, BoundsAssumption
    <3> QED
      BY <3>1, <3>2, <3>3
  <2>4. /\ scheduled = {} /\ running = {} /\ hurried = {}
        /\ receiver = [at |-> "wait"]
    BY DEF Init
  <2> QED
    BY <2>1, <2>2, <2>3, <2>4 DEF TypeOK
<1>2. DOMAIN Flight = {}
  <2>1. Flight = <<>> \o (<<>> \o <<>>)
    BY DEF Init, Flight
  <2>2. <<>> \in Seq(Query)
    OBVIOUS
  <2>3. Flight = <<>>
    BY <2>1, <2>2, ConcatEmptySeq
  <2> QED
    BY <2>3
<1>3. /\ DiesOnlyOfAClose /\ KindsMatch /\ ArchivesAskOnce /\ OpeningIsNew
      /\ EarlyIsHurried /\ ArchiveIsAnswered /\ UseNeedsAClose
      /\ TasksAreCurrent /\ SearchIsAnswered
  BY <1>2 DEF Init, DiesOnlyOfAClose, KindsMatch, ArchivesAskOnce, OpeningIsNew,
         EarlyIsHurried, ArchiveIsAnswered, UseNeedsAClose, TasksAreCurrent,
         SearchIsAnswered, Kinds
<1> QED
  BY <1>1, <1>3 DEF DInv

LEMMA NextKeeps == DInv /\ [Next]_vars => DInv'
<1> SUFFICES ASSUME DInv, [Next]_vars
             PROVE  DInv'
  OBVIOUS
<1>1. CASE User
  BY <1>1, OpenAddContactDialogKeeps, NewArchiveDialogKeeps,
     SearchDataChangedKeeps, SearchButtonPressedKeeps, DialogClosedKeeps DEF User
<1>2. CASE AssignArchiveDialog
  BY <1>2, AssignArchiveDialogKeeps
<1>3. CASE Server
  BY <1>3, AnswerKeeps DEF Server, HandleContactsSearch, SendArchiveMessages
<1>4. CASE Receiver
  BY <1>4, DialogFoundKeeps, NoDialogFoundKeeps, UpdateDialogKeeps,
     NoDialogKeeps DEF Receiver
<1>5. ASSUME NEW d \in DOMAIN dialogs, Timer(d)
      PROVE  DInv'
  BY <1>5, TaskBeginsKeeps, TaskWritesKeeps DEF Timer
<1>6. CASE UNCHANGED vars
  <2>1. Flight' = Flight /\ \A x : Own(x)' = Own(x)
    BY <1>6 DEF vars, Flight, Own
  <2>2. TypeOK'
    BY <1>6 DEF DInv, TypeOK, vars
  <2>3. /\ DiesOnlyOfAClose' /\ KindsMatch' /\ ArchivesAskOnce' /\ OpeningIsNew'
        /\ EarlyIsHurried' /\ ArchiveIsAnswered' /\ UseNeedsAClose'
        /\ TasksAreCurrent' /\ SearchIsAnswered'
    BY <1>6, <2>1 DEF DInv, vars, DiesOnlyOfAClose, KindsMatch, ArchivesAskOnce,
         OpeningIsNew, EarlyIsHurried, ArchiveIsAnswered, UseNeedsAClose,
         TasksAreCurrent, SearchIsAnswered
  <2> QED
    BY <2>2, <2>3 DEF DInv
<1> QED
  BY <1>1, <1>2, <1>3, <1>4, <1>5, <1>6 DEF Next

\* The invariant holds in every reachable state: queries and answers, whichever
\* thread has them, form one queue, and a dialog that no race has touched lists
\* what it should or has its own answer in that queue (Client.run,
\* AddContactDialog, ArchiveDialog).
THEOREM DInvHolds == Spec => []DInv
<1>1. Init => DInv
  BY InitHolds
<1>2. DInv /\ [Next]_vars => DInv'
  BY NextKeeps
<1> QED
  BY <1>1, <1>2, PTL DEF Spec

\* The state of the dialogs, the packets and the receiver thread has its type:
\* in particular a reference is to a dialog of its kind (Client.addContactDialog,
\* Client.archiveDialog).
THEOREM DialogsTypeCorrect == Spec => []TypeOK
<1>1. DInv => TypeOK
  BY DEF DInv
<1> QED
  BY <1>1, DInvHolds, PTL

\* However many dialogs are opened, the receiver thread dies of an answer only
\* after a dialog has been closed (Client.run, addContactDialogClosed,
\* archiveDialogClosed).
THEOREM DialogDeathNeedsAClose == Spec => []DiesOnlyOfAClose
<1>1. DInv => DiesOnlyOfAClose
  BY DEF DInv
<1> QED
  BY <1>1, DInvHolds, PTL

\* When nothing is in flight, no answer is left to come.
LEMMA QuietIsEmpty ==
    ASSUME Quiet
    PROVE  DOMAIN Flight = {}
<1>1. Flight = <<>> \o (<<>> \o <<>>)
  BY DEF Quiet, Flight
<1>2. <<>> \in Seq(Query)
  OBVIOUS
<1>3. Flight = <<>>
  BY <1>1, <1>2, ConcatEmptySeq
<1> QED
  BY <1>3

\* The archive dialog that is referred to ends up with the messages of its own
\* contact, once, unless one of the races touched it (Client.actionPerformed,
\* ArchiveDialog, Client.run).
THEOREM ArchiveShowsItsOwn == Spec => []ArchiveIsItsOwn
<1>1. ASSUME DInv
      PROVE  ArchiveIsItsOwn
  <2> SUFFICES ASSUME NEW d \in DOMAIN dialogs, Quiet, current["archive"] = d,
                      d \notin hurried
               PROVE  dialogs[d].listModel = <<Own(d)>>
    BY DEF ArchiveIsItsOwn
  <2>1. d # 0
    BY <1>1, Typed DEF DInv
  <2>2. DOMAIN Flight = {}
    BY QuietIsEmpty
  <2> QED
    BY <1>1, <2>1, <2>2 DEF DInv, ArchiveIsAnswered
<1> QED
  BY <1>1, DInvHolds, PTL

\* A search dialog that has come to rest lists the contacts for the text in its
\* form, unless one of the races touched it or it shows another dialog's answer
\* (AddContactDialog.searchDataChanged, getContactsSuggestionFor, Client.run).
THEOREM SearchSettles == Spec => []SettlesOnText
<1>1. ASSUME DInv
      PROVE  SettlesOnText
  <2> SUFFICES ASSUME NEW d \in DOMAIN dialogs, Quiet, current["search"] = d,
                      d \notin scheduled,
                      \A task \in running : task.dialog # d,
                      dialogs[d].text > 0, d \notin hurried
               PROVE  \/ dialogs[d].listModel = <<Own(d)>>
                      \/ \E q \in ToSet(dialogs[d].listModel) : q.dialog # d
    BY DEF SettlesOnText
  <2>1. d # 0
    BY <1>1, Typed DEF DInv
  <2>2. DOMAIN Flight = {}
    BY QuietIsEmpty
  <2> QED
    BY <1>1, <2>1, <2>2 DEF DInv, SearchIsAnswered
<1> QED
  BY <1>1, DInvHolds, PTL

==============================================================================
