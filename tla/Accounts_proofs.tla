--------------------------- MODULE Accounts_proofs ---------------------------
(***************************************************************************)
(* Proofs about registration and authentication, for any programs,         *)
(* nicknames and passwords.                                                *)
(***************************************************************************)
EXTENDS Accounts, SequenceTheorems, WellFoundedInduction, TLAPS

---------------------------------------------------------------------------
(* The SELECTs. *)

LEMMA LeastNumber ==
    ASSUME NEW S \in SUBSET Nat, S # {}
    PROVE  \E i \in S : \A j \in S : i <= j
<1> DEFINE less == OpToRel(<, Nat)
<1>1. IsWellFoundedOn(less, Nat)
  BY NatLessThanWellFounded
<1>2. ASSUME NEW i \in Nat, NEW j \in Nat, j < i
      PROVE  <<j, i>> \in less
  BY <1>2 DEF OpToRel
<1> HIDE DEF less
<1>3. PICK i \in S : \A j \in S : ~ (<<j, i>> \in less)
  BY <1>1, WFMin
<1>4. ASSUME NEW j \in S
      PROVE  i <= j
  <2>1. i \in Nat /\ j \in Nat /\ ~(j < i)
    BY <1>2, <1>3
  <2> QED
    BY <2>1
<1> QED
  BY <1>4

\* An account that matches is found, and it is the first of those that match.
LEMMA FirstAccount ==
    ASSUME NEW table \in Seq(Account), NEW n, NEW h
    PROVE  LET i == AuthorizeClient(table, n, h)
               found == Matching(table, n, h)
           IN  /\ i \in Nat
               /\ found = {} => i = 0
               /\ found # {} => i \in found /\ \A j \in found : i <= j
<1>1. Matching(table, n, h) \subseteq Nat
  BY DEF Matching
<1> QED
  BY <1>1, LeastNumber DEF AuthorizeClient

\* A new row comes after those that are there.
LEMMA FirstAccountStays ==
    ASSUME NEW table \in Seq(Account), NEW row \in Account, NEW n, NEW h,
           AuthorizeClient(table, n, h) # 0
    PROVE  AuthorizeClient(Append(table, row), n, h) =
             AuthorizeClient(table, n, h)
<1> DEFINE after == Append(table, row)
<1>1. /\ after \in Seq(Account)
      /\ Len(after) = Len(table) + 1
      /\ \A i \in 1 .. Len(table) : after[i] = table[i]
  BY AppendProperties
<1> HIDE DEF after
<1>2. DOMAIN after = 1 .. Len(table) + 1 /\ DOMAIN table = 1 .. Len(table)
  BY <1>1
<1>3. Matching(after, n, h) \subseteq Matching(table, n, h) \cup {Len(table) + 1}
  BY <1>1, <1>2 DEF Matching
<1>4. Matching(table, n, h) \subseteq Matching(after, n, h)
  BY <1>1, <1>2 DEF Matching
<1>5. Matching(table, n, h) \subseteq 1 .. Len(table) /\ Len(table) \in Nat
  BY <1>2 DEF Matching
<1>6. PICK i \in Matching(table, n, h) :
         /\ i = AuthorizeClient(table, n, h)
         /\ \A j \in Matching(table, n, h) : i <= j
  BY FirstAccount
<1>7. \A j \in Matching(after, n, h) : i <= j
  BY <1>3, <1>5, <1>6
<1>8. PICK k \in Matching(after, n, h) :
         /\ k = AuthorizeClient(after, n, h)
         /\ \A j \in Matching(after, n, h) : k <= j
  BY <1>1, <1>4, <1>6, FirstAccount
<1>9. k <= i /\ i <= k /\ i \in Nat /\ k \in Nat
  BY <1>3, <1>4, <1>5, <1>6, <1>7, <1>8
<1>10. i = k
  BY <1>9
<1> QED
  BY <1>6, <1>8, <1>10 DEF after

---------------------------------------------------------------------------
(* The dialog. *)

\* An edited nickname is one that was typed; the flag says nothing of it.
LEMMA EditNickKeeps ==
    ASSUME RegistrationInv, NEW p \in Programs, EditNick(p)
    PROVE  RegistrationInv'
<1> USE DEF RegistrationInv, TypeOK, EditNick, tableVars, formVars
<1>1. TypeOK'
  BY DEF Commands, Account
<1>2. FormIsReady'
  BY DEF FormIsReady
<1>3. FlagIsTrue'
  BY DEF FormIsReady, FlagIsTrue, FreeWhenChecked
<1>4. AuthorsAreDone'
  BY DEF AuthorsAreDone
<1>5. OnlyRacingDuplicates'
  BY DEF OnlyRacingDuplicates, NotSeenByCheck
<1> QED
  BY <1>1, <1>2, <1>3, <1>4, <1>5

\* A nickname that is being checked is not edited meanwhile.
LEMMA CheckNickIsFreeKeeps ==
    ASSUME RegistrationInv, NEW p \in Programs, CheckNickIsFree(p)
    PROVE  RegistrationInv'
<1> USE DEF RegistrationInv, TypeOK, CheckNickIsFree, tableVars, formVars, Ask
<1>1. TypeOK'
  BY DEF Commands, Account
<1>2. FormIsReady'
  BY DEF FormIsReady
<1>3. FlagIsTrue'
  BY DEF FlagIsTrue, FreeWhenChecked
<1>4. AuthorsAreDone'
  BY DEF AuthorsAreDone
<1>5. OnlyRacingDuplicates'
  BY DEF OnlyRacingDuplicates, NotSeenByCheck
<1> QED
  BY <1>1, <1>2, <1>3, <1>4, <1>5

\* The flag is set only by the answer that the nickname is free.
LEMMA ReadNickAnswerKeeps ==
    ASSUME RegistrationInv, NEW p \in Programs, ReadNickAnswer(p)
    PROVE  RegistrationInv'
<1> USE DEF RegistrationInv, TypeOK, ReadNickAnswer, tableVars, formVars, Read
<1>1. TypeOK'
  BY DEF Commands, Account
<1>2. FormIsReady'
  BY DEF FormIsReady
<1>3. FlagIsTrue'
  BY DEF FlagIsTrue, FreeWhenChecked
<1>4. AuthorsAreDone'
  BY DEF AuthorsAreDone
<1>5. OnlyRacingDuplicates'
  BY DEF OnlyRacingDuplicates, NotSeenByCheck
<1> QED
  BY <1>1, <1>2, <1>3, <1>4, <1>5

\* The form is sent with a nickname that was found free.
LEMMA TrySignUpNewUserKeeps ==
    ASSUME RegistrationInv, NEW p \in Programs, TrySignUpNewUser(p)
    PROVE  RegistrationInv'
<1> USE DEF RegistrationInv, TypeOK, TrySignUpNewUser, tableVars, formVars, Ask
<1>1. TypeOK'
  BY DEF Commands, Account
<1>2. FormIsReady'
  BY DEF FormIsReady
<1>3. FlagIsTrue'
  BY DEF FormIsReady, FlagIsTrue, FreeWhenChecked
<1>4. AuthorsAreDone'
  BY DEF AuthorsAreDone
<1>5. OnlyRacingDuplicates'
  BY DEF OnlyRacingDuplicates, NotSeenByCheck
<1> QED
  BY <1>1, <1>2, <1>3, <1>4, <1>5

\* Signing in uses nothing of the form.
LEMMA TrySignInKeeps ==
    ASSUME RegistrationInv, NEW p \in Programs, TrySignIn(p)
    PROVE  RegistrationInv'
<1> USE DEF RegistrationInv, TypeOK, TrySignIn, tableVars, formVars, Ask
<1>1. TypeOK'
  BY DEF Commands, Account
<1>2. FormIsReady'
  BY DEF FormIsReady
<1>3. FlagIsTrue'
  BY DEF FormIsReady, FlagIsTrue, FreeWhenChecked
<1>4. AuthorsAreDone'
  BY DEF AuthorsAreDone
<1>5. OnlyRacingDuplicates'
  BY DEF OnlyRacingDuplicates, NotSeenByCheck
<1> QED
  BY <1>1, <1>2, <1>3, <1>4, <1>5

\* A key that was read closes the dialog of an author.
LEMMA ReadIdKeeps ==
    ASSUME RegistrationInv, NEW p \in Programs, ReadId(p)
    PROVE  RegistrationInv'
<1> USE DEF RegistrationInv, TypeOK, ReadId, tableVars, formVars, Read
<1>1. TypeOK'
  BY DEF Commands, Account
<1>2. FormIsReady'
  BY DEF FormIsReady
<1>3. FlagIsTrue'
  <2>1. /\ \A q \in Programs : FreeWhenChecked(q)' <=> FreeWhenChecked(q)
        /\ UNCHANGED <<contact, isNickCorrect, edited, checkedAt, answer>>
    BY DEF FreeWhenChecked
  <2>2. command[p] # "IS_NICK_OCCUPIED_REQUEST"
    OBVIOUS
  <2>3. ASSUME NEW q \in Programs
        PROVE  /\ command'[q] = "IS_NICK_OCCUPIED_REQUEST" <=>
                    command[q] = "IS_NICK_OCCUPIED_REQUEST"
               /\ command[q] = "IS_NICK_OCCUPIED_REQUEST" =>
                    step'[q] = step[q]
    BY <2>2
  <2> QED
    BY <2>1, <2>3 DEF FlagIsTrue
<1>4. AuthorsAreDone'
  <2>1. ASSUME NEW i \in DOMAIN author
        PROVE  /\ author[i] \in Programs
               /\ step'[author[i]] \in {"inserted", "answered", "granted"}
               /\ step'[author[i]] = "answered" => author[i] # p
    BY <2>1 DEF AuthorsAreDone
  <2> QED
    BY <2>1 DEF AuthorsAreDone
<1>5. OnlyRacingDuplicates'
  BY DEF OnlyRacingDuplicates, NotSeenByCheck
<1> QED
  BY <1>1, <1>2, <1>3, <1>4, <1>5

---------------------------------------------------------------------------
(* The server threads. *)

\* A nickname is found free when no account has it.
LEMMA HandleIsNickOccupiedRequestKeeps ==
    ASSUME RegistrationInv, NEW p \in Programs, HandleIsNickOccupiedRequest(p)
    PROVE  RegistrationInv'
<1> USE DEF RegistrationInv, TypeOK, HandleIsNickOccupiedRequest, tableVars, formVars, Serves, Answer
<1>1. TypeOK'
  BY DEF Commands, Account
<1>2. FormIsReady'
  BY DEF FormIsReady
<1>3. FlagIsTrue'
  BY DEF IsNickOccupied, FlagIsTrue, FreeWhenChecked
<1>4. AuthorsAreDone'
  BY DEF AuthorsAreDone
<1>5. OnlyRacingDuplicates'
  <2>1. ASSUME NEW j \in DOMAIN contact
        PROVE  author[j] \in Programs /\ author[j] # p
    <3>1. j \in DOMAIN author
      BY DEF AuthorsAreDone
    <3>2. step[author[j]] # "asked" /\ step[p] = "asked"
      BY <3>1 DEF AuthorsAreDone
    <3> QED
      BY <3>1, <3>2
  <2> QED
    BY <2>1 DEF OnlyRacingDuplicates, NotSeenByCheck
<1> QED
  BY <1>1, <1>2, <1>3, <1>4, <1>5

\* The new row is the last one.
LEMMA InsertContactKeeps ==
    ASSUME RegistrationInv, NEW p \in Programs, InsertContact(p)
    PROVE  RegistrationInv'
<1> USE DEF RegistrationInv, TypeOK, InsertContact, tableVars, formVars, Serves
<1> DEFINE row == [nickname |-> nickField[p], sha1password |-> passField[p]]
<1>0. /\ row \in Account
      /\ contact' \in Seq(Account)
      /\ author' \in Seq(Programs)
      /\ Len(contact') = Len(contact) + 1 /\ Len(author') = Len(contact) + 1
      /\ DOMAIN contact = 1 .. Len(contact)
      /\ DOMAIN contact' = 1 .. Len(contact) + 1
      /\ DOMAIN author = 1 .. Len(contact)
      /\ DOMAIN author' = 1 .. Len(contact) + 1
      /\ \A i \in 1 .. Len(contact) :
           contact'[i] = contact[i] /\ author'[i] = author[i]
      /\ contact'[Len(contact) + 1] = row /\ author'[Len(contact) + 1] = p
  <2>1. row \in Account
    BY DEF FormIsReady, Account
  <2> HIDE DEF row
  <2> QED
    BY <2>1, AppendProperties DEF AuthorsAreDone, row
<1>1. TypeOK'
  BY <1>0 DEF Commands, Account
<1>2. FormIsReady'
  BY <1>0 DEF FormIsReady
<1>3. FlagIsTrue'
  <2>1. ASSUME NEW q \in Programs, FreeWhenChecked(q)
        PROVE  FreeWhenChecked(q)'
    <3>1. checkedAt[q] \in Nat /\ checkedAt[q] <= Len(contact)
      BY DEF FlagIsTrue
    <3>2. nickField' = nickField /\ checkedAt' = checkedAt
      OBVIOUS
    <3>3. \A i \in 1 .. Len(contact) :
             contact[i].nickname = nickField[q] => checkedAt[q] < i
      BY <1>0, <2>1 DEF FreeWhenChecked
    <3>4. ASSUME NEW i \in DOMAIN contact',
                 contact'[i].nickname = nickField[q]
          PROVE  checkedAt[q] < i
      <4>1. Len(contact) \in Nat
        OBVIOUS
      <4>2. CASE i \in 1 .. Len(contact)
        BY <1>0, <3>3, <3>4, <4>2
      <4>3. CASE i = Len(contact) + 1
        BY <3>1, <4>1, <4>3
      <4> QED
        BY <1>0, <4>1, <4>2, <4>3
    <3> QED
      BY <3>2, <3>4 DEF FreeWhenChecked
  <2> QED
    BY <1>0, <2>1 DEF FlagIsTrue
<1>4. AuthorsAreDone'
  <2>1. ASSUME NEW i \in 1 .. Len(contact)
        PROVE  author[i] \in Programs /\ author[i] # p
    <3>1. i \in DOMAIN author
      BY <1>0
    <3>2. step[author[i]] # "asked" /\ step[p] = "asked"
      BY <3>1 DEF AuthorsAreDone
    <3> QED
      BY <3>1, <3>2
  <2>2. ASSUME NEW i \in DOMAIN author'
        PROVE  /\ step'[author'[i]] \in {"inserted", "answered", "granted"}
               /\ step'[author'[i]] = "answered" =>
                    /\ command'[author'[i]] = "SIGN_UP_REQUEST"
                    /\ answer'[author'[i]] >= 1
    <3>1. CASE i = Len(contact) + 1
      BY <1>0, <3>1
    <3>2. CASE i \in 1 .. Len(contact)
      BY <1>0, <2>1, <3>2 DEF AuthorsAreDone
    <3> QED
      BY <1>0, <3>1, <3>2
  <2>3. lastRowId' >= 1 /\ Len(author') = Len(contact')
    BY <1>0
  <2> QED
    BY <2>2, <2>3 DEF AuthorsAreDone
<1>5. OnlyRacingDuplicates'
  <2>1. FreeWhenChecked(p) \/ p \in unchecked
    <3>1. /\ isNickCorrect[p]
          /\ command[p] = "SIGN_UP_REQUEST"
          /\ edited[p] => p \in unchecked
      BY DEF FormIsReady
    <3> QED
      BY <3>1 DEF FlagIsTrue
  <2> SUFFICES ASSUME NEW i \in DOMAIN contact', NEW j \in DOMAIN contact',
                      i < j, contact'[i].nickname = contact'[j].nickname
               PROVE  NotSeenByCheck(i, j)'
    BY DEF OnlyRacingDuplicates
  <2>2. i \in 1 .. Len(contact) /\ UNCHANGED <<checkedAt, unchecked>>
    BY <1>0
  <2>3. CASE j = Len(contact) + 1
    BY <1>0, <2>1, <2>2, <2>3 DEF FreeWhenChecked, NotSeenByCheck
  <2>4. CASE j \in 1 .. Len(contact)
    <3>1. /\ contact[i].nickname = contact[j].nickname
          /\ author'[j] = author[j]
      BY <1>0, <2>2, <2>4
    <3>2. NotSeenByCheck(i, j)
      BY <1>0, <2>2, <2>4, <3>1 DEF OnlyRacingDuplicates
    <3> QED
      BY <2>2, <3>1, <3>2 DEF NotSeenByCheck
  <2> QED
    BY <1>0, <2>3, <2>4
<1> QED
  BY <1>1, <1>2, <1>3, <1>4, <1>5

\* There is a key to be read.
LEMMA ReadGeneratedKeyKeeps ==
    ASSUME RegistrationInv, NEW p \in Programs, ReadGeneratedKey(p)
    PROVE  RegistrationInv'
<1> USE DEF RegistrationInv, TypeOK, ReadGeneratedKey, tableVars, formVars, Answer
<1>1. TypeOK'
  BY DEF Commands, Account
<1>2. FormIsReady'
  BY DEF FormIsReady
<1>3. FlagIsTrue'
  BY DEF FormIsReady, FlagIsTrue, FreeWhenChecked
<1>4. AuthorsAreDone'
  BY DEF FormIsReady, AuthorsAreDone
<1>5. OnlyRacingDuplicates'
  BY DEF OnlyRacingDuplicates, NotSeenByCheck
<1> QED
  BY <1>1, <1>2, <1>3, <1>4, <1>5

\* The answer to a sign-in is the number of a row or 0.
LEMMA SignInClientKeeps ==
    ASSUME RegistrationInv, NEW p \in Programs, SignInClient(p)
    PROVE  RegistrationInv'
<1> USE DEF RegistrationInv, TypeOK, SignInClient, tableVars, formVars, Serves, Answer
<1>0. ASSUME NEW n, NEW h
      PROVE  AuthorizeClient(contact, n, h) \in Nat
  BY FirstAccount
<1>1. TypeOK'
  BY <1>0 DEF Commands, Account
<1>2. FormIsReady'
  BY DEF FormIsReady
<1>3. FlagIsTrue'
  BY DEF FlagIsTrue, FreeWhenChecked
<1>4. AuthorsAreDone'
  BY DEF AuthorsAreDone
<1>5. OnlyRacingDuplicates'
  BY DEF OnlyRacingDuplicates, NotSeenByCheck
<1> QED
  BY <1>1, <1>2, <1>3, <1>4, <1>5

\* Any key is at least 1.
LEMMA InsertMessageKeeps ==
    ASSUME RegistrationInv, NEW p \in Programs, InsertMessage(p)
    PROVE  RegistrationInv'
<1> USE DEF RegistrationInv, TypeOK, InsertMessage, tableVars, formVars
<1>1. TypeOK'
  BY MaxOtherRowsAssumption DEF Commands, Account
<1>2. FormIsReady'
  BY DEF FormIsReady
<1>3. FlagIsTrue'
  BY DEF FlagIsTrue, FreeWhenChecked
<1>4. AuthorsAreDone'
  BY DEF AuthorsAreDone
<1>5. OnlyRacingDuplicates'
  BY DEF OnlyRacingDuplicates, NotSeenByCheck
<1> QED
  BY <1>1, <1>2, <1>3, <1>4, <1>5

---------------------------------------------------------------------------
(* The theorems. *)

LEMMA InitRegistrationInv == Init => RegistrationInv
<1> SUFFICES ASSUME Init
             PROVE  RegistrationInv
  OBVIOUS
<1>1. DOMAIN contact = {} /\ DOMAIN author = {} /\ Len(contact) = 0
  BY DEF Init
<1>2. TypeOK
  BY MaxOtherRowsAssumption DEF Init, TypeOK, Commands
<1>3. FormIsReady /\ FlagIsTrue /\ AuthorsAreDone /\ OnlyRacingDuplicates
  BY <1>1 DEF Init, FormIsReady, FlagIsTrue, AuthorsAreDone,
              OnlyRacingDuplicates
<1> QED
  BY <1>2, <1>3 DEF RegistrationInv

LEMMA NextRegistrationInv ==
    RegistrationInv /\ [Next]_vars => RegistrationInv'
<1>1. RegistrationInv /\ UNCHANGED vars => RegistrationInv'
  BY DEF RegistrationInv, vars, tableVars, formVars, TypeOK, FormIsReady,
         FlagIsTrue, FreeWhenChecked, AuthorsAreDone, OnlyRacingDuplicates,
         NotSeenByCheck
<1> QED
  BY <1>1, EditNickKeeps, CheckNickIsFreeKeeps, ReadNickAnswerKeeps,
     TrySignUpNewUserKeeps, TrySignInKeeps, ReadIdKeeps, HandleIsNickOccupiedRequestKeeps,
     InsertContactKeeps, ReadGeneratedKeyKeeps, SignInClientKeeps,
     InsertMessageKeeps
     DEF Next

\* The invariant that the following theorems rest on.
THEOREM RegistrationInvHolds == Spec => []RegistrationInv
  BY InitRegistrationInv, NextRegistrationInv, PTL DEF Spec

\* The table and the dialogs hold what they are meant to hold.
THEOREM AccountsTypeCorrect == Spec => []TypeOK
<1>1. RegistrationInv => TypeOK
  BY DEF RegistrationInv
<1> QED
  BY <1>1, RegistrationInvHolds, PTL

\* Two accounts share a nickname only if the second's check could not see the
\* first.
THEOREM DuplicatesOnlyRace == Spec => []OnlyRacingDuplicates
<1>1. RegistrationInv => OnlyRacingDuplicates
  BY DEF RegistrationInv
<1> QED
  BY <1>1, RegistrationInvHolds, PTL

\* What an account's login and password lead to is the account itself, or an
\* older one that its check could not see.
THEOREM LoginsFindTheirOwn == Spec => []LoginFindsOwnAccount
<1>1. RegistrationInv => LoginFindsOwnAccount
  <2> SUFFICES ASSUME RegistrationInv, NEW j \in DOMAIN contact,
                      AuthorizeClient(contact, contact[j].nickname,
                                      contact[j].sha1password) # j
               PROVE  \E i \in 1 .. (j - 1) :
                         /\ contact[i].nickname = contact[j].nickname
                         /\ NotSeenByCheck(i, j)
    BY DEF LoginFindsOwnAccount
  <2> DEFINE found == Matching(contact, contact[j].nickname,
                               contact[j].sha1password)
  <2>1. contact \in Seq(Account) /\ found \subseteq 1 .. Len(contact)
    BY DEF RegistrationInv, TypeOK, Matching
  <2>2. j \in found
    BY DEF Matching
  <2>3. PICK i \in found : i # j /\ i <= j
    BY <2>1, <2>2, FirstAccount
  <2>4. contact[i].nickname = contact[j].nickname
    BY DEF Matching
  <2>5. /\ i \in 1 .. (j - 1) /\ i < j
        /\ i \in DOMAIN contact
    BY <2>1, <2>2, <2>3
  <2> QED
    BY <2>4, <2>5 DEF RegistrationInv, OnlyRacingDuplicates
<1> QED
  BY <1>1, RegistrationInvHolds, PTL

\* A login and password that lead to an account go on leading to it.
THEOREM LoginsAreStable == Spec => LoginIsStable
<1>1. RegistrationInv /\ [Next]_vars =>
        [\A n \in Nicks, h \in Hashes :
            AuthorizeClient(contact, n, h) # 0 =>
               AuthorizeClient(contact', n, h) =
                 AuthorizeClient(contact, n, h)]_vars
  <2> SUFFICES ASSUME RegistrationInv, Next, NEW n \in Nicks, NEW h \in Hashes,
                      AuthorizeClient(contact, n, h) # 0
               PROVE  AuthorizeClient(contact', n, h) =
                        AuthorizeClient(contact, n, h)
    BY DEF vars
  <2>1. CASE contact' = contact
    BY <2>1
  <2>2. ASSUME NEW p \in Programs, InsertContact(p)
        PROVE  \E row \in Account : contact' = Append(contact, row)
    <3>1. nickField[p] \in Nicks /\ passField[p] \in Hashes
      BY <2>2 DEF InsertContact, Serves, RegistrationInv, FormIsReady
    <3> QED
      BY <2>2, <3>1 DEF InsertContact, Account
  <2>3. contact' = contact \/ \E p \in Programs : InsertContact(p)
    BY DEF Next, EditNick, CheckNickIsFree, ReadNickAnswer, TrySignUpNewUser,
           TrySignIn, ReadId, HandleIsNickOccupiedRequest, ReadGeneratedKey,
           SignInClient, InsertMessage, tableVars
  <2>4. contact \in Seq(Account)
    BY DEF RegistrationInv, TypeOK
  <2>5. CASE \E p \in Programs : InsertContact(p)
    <3>1. PICK row \in Account : contact' = Append(contact, row)
      BY <2>2, <2>5
    <3> QED
      BY <2>4, <3>1, FirstAccountStays
  <2> QED
    BY <2>1, <2>3, <2>5
<1> QED
  BY <1>1, RegistrationInvHolds, PTL DEF Spec, LoginIsStable
==============================================================================
