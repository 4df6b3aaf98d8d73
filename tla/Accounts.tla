------------------------------ MODULE Accounts ------------------------------
(***************************************************************************)
(* Who may sign in: the rows of staff users (users.service.ts) and of      *)
(* customers (customers.service.ts), and the Firebase accounts both are    *)
(* found by (firebase.strategy.ts).  A row and its account are written one *)
(* after the other, and nothing undoes the first when the second fails.    *)
(***************************************************************************)
EXTENDS Naturals, FiniteSets

CONSTANTS Staff,           \* users, told apart by their unique email
          Phones,          \* customers, told apart by their unique phone number
          Profiles,        \* what a user row and its account both say of a user
          NoProfile,       \* no account, no row, no profile
          AccountSlots,    \* requests that may run at the same time (bound)
          MaxAccountCalls, \* requests (bound)
          AccountFaults    \* what may fail: a subset of {"firebase", "database", "crash"}

ASSUME AccountsAssumption ==
  /\ IsFiniteSet(Staff) /\ IsFiniteSet(Phones) /\ Staff \cap Phones = {}
  /\ NoProfile \notin Profiles
ASSUME AccountLimitsAssumption ==
  /\ IsFiniteSet(AccountSlots) /\ MaxAccountCalls \in Nat
  /\ AccountFaults \subseteq {"firebase", "database", "crash"}

People == Staff \cup Phones

VARIABLES
  personRow,       \* user or customer row: absent, live, or soft-deleted
  userProfile,     \* the profile in the user's row
  account,         \* the Firebase account: none, enabled, disabled
  accountProfile,  \* the profile in the account
  located,         \* customers with a row in customer_location_log
  accountCalls,    \* requests so far
  updatesOverlap,  \* people of whom an update has overlapped another request
  cutShort,        \* people of whom a request has ended between two writes
  accountRequests  \* the running requests

personRows     == <<personRow, userProfile, account, accountProfile, located>>
accountHistory == <<accountCalls, updatesOverlap, cutShort>>
accountVars    == <<personRows, accountHistory, accountRequests>>

\* A row of user or of customer, which deletion leaves behind; a Firebase account.
UserRow         == {"absent", "live", "deleted"}
CustomerRow     == UserRow
FirebaseAccount == {"none", "enabled", "disabled"}

\* A request: the await it stands at, whom it is about, the profile it writes.
AccountRequest ==
  [at : {"idle", "find", "create_account", "insert", "log", "load", "mirror", "password",
         "save", "load_doomed", "last_location", "delete", "disable"},
   who : People \cup {NoProfile}, profile : Profiles \cup {NoProfile}]

NoAccountRequest == [at |-> "idle", who |-> NoProfile, profile |-> NoProfile]

Updates(q)       == q.at \in {"load", "mirror", "password", "save"}
AccountAt(r, a)  == accountRequests[r].at = a
AccountGo(r, q)  == accountRequests' = [accountRequests EXCEPT ![r] = q]
AccountStep(r, a) == AccountGo(r, [accountRequests[r] EXCEPT !.at = a])
AccountEnd(r)    == AccountGo(r, NoAccountRequest)
\* A request that ends here leaves its first writes alone behind.
CutShort(r) ==
  /\ AccountEnd(r)
  /\ cutShort' = cutShort \cup {accountRequests[r].who}
  /\ UNCHANGED <<personRows, accountCalls, updatesOverlap>>

AccountBegins(r, q) ==
  /\ AccountAt(r, "idle")
  /\ accountCalls < MaxAccountCalls
  /\ accountCalls' = accountCalls + 1
  /\ AccountGo(r, q)
  /\ updatesOverlap' = updatesOverlap \cup
       {accountRequests[k].who : k \in {j \in AccountSlots :
          accountRequests[j].who = q.who /\ (Updates(q) \/ Updates(accountRequests[j]))}}
  /\ UNCHANGED <<personRows, cutShort>>

CreateUser(r) ==
  \E w \in Staff, p \in Profiles : AccountBegins(r, [at |-> "find", who |-> w, profile |-> p])

UpdateUserById(r) ==
  \E w \in Staff, p \in Profiles : AccountBegins(r, [at |-> "load", who |-> w, profile |-> p])

DeleteUser(r) ==
  \E w \in Staff : AccountBegins(r, [NoAccountRequest EXCEPT !.at = "load_doomed", !.who = w])

\* A caller whom validate() takes for a prospective customer has an account already;
\* for anyone else the back office creates one.
CreateCustomer(r) ==
  \E w \in Phones :
    \/ /\ account[w] = "enabled" /\ personRow[w] # "live"
       /\ AccountBegins(r, [NoAccountRequest EXCEPT !.at = "insert", !.who = w])
    \/ AccountBegins(r, [NoAccountRequest EXCEPT !.at = "create_account", !.who = w])

\* updateCustomer and setFCMToken.
UpdateCustomerRow(r) ==
  \E w \in Phones : AccountBegins(r, [NoAccountRequest EXCEPT !.at = "load", !.who = w])

DeleteCustomerById(r) ==
  \E w \in Phones : AccountBegins(r, [NoAccountRequest EXCEPT !.at = "load_doomed", !.who = w])

\* Somebody signs in to Firebase with a phone number.
SignUp ==
  \E w \in Phones :
    /\ account[w] = "none"
    /\ account' = [account EXCEPT ![w] = "enabled"]
    /\ UNCHANGED <<personRow, userProfile, accountProfile, located, accountHistory, accountRequests>>

\* "User already Exist".
FindUser(r) ==
  /\ AccountAt(r, "find")
  /\ IF personRow[accountRequests[r].who] = "live" THEN AccountEnd(r) ELSE AccountStep(r, "create_account")
  /\ UNCHANGED <<personRows, accountHistory>>

\* Firebase refuses a second account for one email or phone number, disabled or not.
CreateAccount(r) ==
  LET q == accountRequests[r] IN
  /\ AccountAt(r, "create_account")
  /\ \/ /\ account[q.who] # "none" \/ "firebase" \in AccountFaults
        /\ AccountEnd(r)
        /\ UNCHANGED <<personRows, accountHistory>>
     \/ /\ account[q.who] = "none"
        /\ account' = [account EXCEPT ![q.who] = "enabled"]
        /\ accountProfile' = [accountProfile EXCEPT ![q.who] = q.profile]
        /\ AccountStep(r, "insert")
        /\ UNCHANGED <<personRow, userProfile, located, accountHistory>>

\* The unique column refuses a row for a person who had one, soft-deleted or not.
InsertPerson(r) ==
  LET q == accountRequests[r] IN
  /\ AccountAt(r, "insert")
  /\ \/ /\ personRow[q.who] # "absent"
        /\ AccountEnd(r)
        /\ UNCHANGED <<personRows, accountHistory>>
     \/ /\ personRow[q.who] = "absent"
        /\ personRow' = [personRow EXCEPT ![q.who] = "live"]
        /\ userProfile' = [userProfile EXCEPT ![q.who] = q.profile]
        /\ IF q.who \in Staff THEN AccountEnd(r) ELSE AccountStep(r, "log")
        /\ UNCHANGED <<account, accountProfile, located, accountHistory>>
     \/ "database" \in AccountFaults /\ CutShort(r)

LogLocation(r) ==
  /\ AccountAt(r, "log")
  /\ \/ /\ located' = located \cup {accountRequests[r].who}
        /\ AccountEnd(r)
        /\ UNCHANGED <<personRow, userProfile, account, accountProfile, accountHistory>>
     \/ "database" \in AccountFaults /\ CutShort(r)

\* "not found", or on to Firebase for a user; a customer may send her location along.
LoadPerson(r) ==
  LET q == accountRequests[r] IN
  /\ AccountAt(r, "load")
  /\ IF personRow[q.who] # "live" THEN AccountEnd(r) /\ UNCHANGED located
     ELSE IF q.who \in Staff THEN AccountStep(r, "mirror") /\ UNCHANGED located
     ELSE AccountStep(r, "save") /\ located' \in {located, located \cup {q.who}}
  /\ UNCHANGED <<personRow, userProfile, account, accountProfile, accountHistory>>

\* Mutant: the account is not told of the new profile.
SkipProfile(r) ==
  /\ AccountAt(r, "mirror")
  /\ AccountStep(r, "save")
  /\ UNCHANGED <<personRows, accountHistory>>

\* The account is told first; an input with a password makes a second call.
MirrorProfile(r) ==
  LET q == accountRequests[r] IN
  /\ AccountAt(r, "mirror")
  /\ \/ /\ accountProfile' = [accountProfile EXCEPT ![q.who] = q.profile]
        /\ AccountStep(r, "password") \/ AccountStep(r, "save")
        /\ UNCHANGED <<personRow, userProfile, account, located, accountHistory>>
     \/ /\ "firebase" \in AccountFaults
        /\ AccountEnd(r)
        /\ UNCHANGED <<personRows, accountHistory>>

SetPassword(r) ==
  /\ AccountAt(r, "password")
  /\ \/ AccountStep(r, "save") /\ UNCHANGED <<personRows, accountHistory>>
     \/ "firebase" \in AccountFaults /\ CutShort(r)

\* save writes the whole row, deletedAt included: a person deleted since is back.
SavePerson(r) ==
  LET q == accountRequests[r] IN
  /\ AccountAt(r, "save")
  /\ \/ /\ personRow' = [personRow EXCEPT ![q.who] = "live"]
        /\ userProfile' = [userProfile EXCEPT ![q.who] = q.profile]
        /\ AccountEnd(r)
        /\ UNCHANGED <<account, accountProfile, located, accountHistory>>
     \/ "database" \in AccountFaults /\ CutShort(r)

LoadDoomedPerson(r) ==
  LET q == accountRequests[r] IN
  /\ AccountAt(r, "load_doomed")
  /\ IF personRow[q.who] # "live" THEN AccountEnd(r)
     ELSE AccountStep(r, IF q.who \in Staff THEN "delete" ELSE "last_location")
  /\ UNCHANGED <<personRows, accountHistory>>

\* getLastLocation reads .location of the last log row: without one it throws.
GetLastLocation(r) ==
  /\ AccountAt(r, "last_location")
  /\ IF accountRequests[r].who \in located THEN AccountStep(r, "delete") ELSE AccountEnd(r)
  /\ UNCHANGED <<personRows, accountHistory>>

\* A customer's account stays enabled: validate() takes her for a prospective one.
SoftDeletePerson(r) ==
  LET q == accountRequests[r] IN
  /\ AccountAt(r, "delete")
  /\ personRow' = [personRow EXCEPT ![q.who] = "deleted"]
  /\ IF q.who \in Staff THEN AccountStep(r, "disable") ELSE AccountEnd(r)
  /\ UNCHANGED <<userProfile, account, accountProfile, located, accountHistory>>

DisableAccount(r) ==
  /\ AccountAt(r, "disable")
  /\ \/ /\ account' = [account EXCEPT ![accountRequests[r].who] = "disabled"]
        /\ AccountEnd(r)
        /\ UNCHANGED <<personRow, userProfile, accountProfile, located, accountHistory>>
     \/ "firebase" \in AccountFaults /\ CutShort(r)

Busy == {accountRequests[r].who : r \in {k \in AccountSlots : ~AccountAt(k, "idle")}}

AccountCrash ==
  /\ "crash" \in AccountFaults
  /\ Busy # {}
  /\ cutShort' = cutShort \cup Busy
  /\ accountRequests' = [r \in AccountSlots |-> NoAccountRequest]
  /\ UNCHANGED <<personRows, accountCalls, updatesOverlap>>

AccountInit ==
  /\ personRow = [w \in People |-> "absent"]
  /\ userProfile = [w \in People |-> NoProfile]
  /\ account = [w \in People |-> "none"]
  /\ accountProfile = [w \in People |-> NoProfile]
  /\ located = {}
  /\ accountCalls = 0
  /\ updatesOverlap = {}
  /\ cutShort = {}
  /\ accountRequests = [r \in AccountSlots |-> NoAccountRequest]

AccountNext ==
  \/ \E r \in AccountSlots :
       \/ CreateUser(r) \/ UpdateUserById(r) \/ DeleteUser(r)
       \/ CreateCustomer(r) \/ UpdateCustomerRow(r) \/ DeleteCustomerById(r)
       \/ FindUser(r) \/ CreateAccount(r) \/ InsertPerson(r) \/ LogLocation(r)
       \/ LoadPerson(r) \/ MirrorProfile(r) \/ SetPassword(r) \/ SavePerson(r)
       \/ LoadDoomedPerson(r) \/ GetLastLocation(r) \/ SoftDeletePerson(r) \/ DisableAccount(r)
  \/ SignUp \/ AccountCrash

AccountSpec == AccountInit /\ [][AccountNext]_accountVars

AccountTypeOK ==
  /\ \A w \in Staff : personRow[w] \in UserRow
  /\ \A w \in Phones : personRow[w] \in CustomerRow
  /\ DOMAIN personRow = People
  /\ userProfile \in [People -> Profiles \cup {NoProfile}]
  /\ account \in [People -> FirebaseAccount]
  /\ accountProfile \in [People -> Profiles \cup {NoProfile}]
  /\ located \subseteq Phones
  /\ accountCalls \in 0..MaxAccountCalls
  /\ updatesOverlap \subseteq People
  /\ cutShort \subseteq People
  /\ accountRequests \in [AccountSlots -> AccountRequest]

\* A live user's account is enabled and says what the row says, a deleted user's is
\* disabled and an unknown one has none; a live customer can sign in and has a
\* location, without which she can be neither read nor deleted.
UserMatches(w) ==
  /\ personRow[w] = "live" => account[w] = "enabled" /\ accountProfile[w] = userProfile[w]
  /\ personRow[w] = "deleted" => account[w] = "disabled"
  /\ personRow[w] = "absent" => account[w] = "none"
CustomerMatches(w) == personRow[w] = "live" => account[w] = "enabled" /\ w \in located

\* The two sides agree about everyone of whom no request is running, none has ended
\* between two writes, and no update has overlapped another request; creations and
\* deletions may overlap as they like (createUser, deleteUser, createCustomer).
SignInMatchesRow ==
  \A w \in People \ (Busy \cup cutShort \cup updatesOverlap) :
    IF w \in Staff THEN UserMatches(w) ELSE CustomerMatches(w)
=============================================================================
