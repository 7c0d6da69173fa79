-------------------------------- MODULE Accounts --------------------------------
(***************************************************************************)
(* Users and their sender numbers.  A sender number is kept in three       *)
(* places: the row of the user, the row of its NCP keys, and one row per   *)
(* number with a memo.  No request changes them in a transaction: each     *)
(* goes through a list of awaited reads and saves and may stop at any.     *)
(*                                                                         *)
(* A user is its email (the column is unique).  Names, keys, tokens and    *)
(* the words of the memos are left out; the money is in Billing.           *)
(***************************************************************************)
EXTENDS Integers, Sequences, FiniteSets

CONSTANTS
    AccUsers,       \* emails
    AccNumbers,     \* sender numbers as clients write them
    AccDigits,      \* AccDigits[n]: n without what is no digit
    AccValid,       \* numbers of 7 to 11 digits and nothing else
    AccRequests,    \* requests in flight together
    AccNone,
    AccMaxHosts     \* bound: numbers in a request

ASSUME AccAssumption ==
    /\ AccDigits \in [AccNumbers -> AccNumbers]
    /\ AccValid \subseteq AccNumbers
    /\ IsFiniteSet(AccRequests) /\ AccMaxHosts \in Nat
    /\ AccNone \notin Seq(AccNumbers)

VARIABLES
    userRow,    \* userRow[u]: User.hostnumber, or AccNone without a user
    ncpRow,     \* ncpRow[u]: UserNcpInfo.hostnumber, or AccNone
    details,    \* HostnumberDetail: [id, user, number]
    acc,        \* acc[q]: the request in slot q
    wrote       \* history: the numbers the last request wrote into the rows of user
                \* and NCP keys (row) and into those with a memo (memos), or AccNone
                \* if there was none or it stopped

accVars == <<userRow, ncpRow, details, acc, wrote>>

\* todo: the steps left; host: the list of numbers of the request, in which one may
\* occur twice; row, ncp: the rows as read; done: entries of host that have a row
\* with a memo; found: rows to remove.
AccRequest(op, u, host, todo) ==
    [op |-> op, user |-> u, host |-> host, todo |-> todo, row |-> AccNone, ncp |-> AccNone,
     done |-> 0, found |-> {}]

AccIdle == [op |-> "idle", todo |-> <<>>, found |-> {}]

AccountsInit ==
    /\ userRow = [u \in AccUsers |-> AccNone]
    /\ ncpRow = [u \in AccUsers |-> AccNone]
    /\ details = {}
    /\ acc = [q \in AccRequests |-> AccIdle]
    /\ wrote = [u \in AccUsers |-> [row |-> AccNone, memos |-> AccNone]]

AccAt(q, step) == acc[q].todo # <<>> /\ Head(acc[q].todo) = step

AccOnward(q, r) == acc' = [acc EXCEPT ![q] = [r EXCEPT !.todo = Tail(@)]]

AccRefused(q) == acc' = [acc EXCEPT ![q] = AccIdle]

-----------------------------------------------------------------------------
(* Requests                                                                *)

Keys == <<"readNcp", "saveNcp">>
Profile == <<"readUser", "saveUser">>

Also(given, steps) == IF given THEN steps ELSE <<>>

\* Variant: the NCP keys keep the numbers they had.
UpdatePlanUserOnly(adv, name, key) == <<"readUser">> \o Profile

\* updateUser: advertiseNumber, the numbers, name or advertisementOpt, keys; each
\* writes all of the request into the row.
UpdatePlan(adv, name, key) ==
    <<"readUser">> \o Also(adv, Keys) \o Profile \o Keys \o Also(name, Profile) \o Also(key, Keys)

\* updateHostnumber, after checkUserInfo
HostnumberPlan == <<"readUser", "readUser", "readNcp", "saveUser", "saveNcp",
                    "find", "remove", "details">>

\* createUser, then saveRefreshToken
SignupPlan == <<"absent", "newUser", "newNcp", "details">> \o Profile

\* UserBodyValidationPipe refuses only if none of the numbers is valid.
PipePasses(host) == host = <<>> \/ \E i \in 1..Len(host) : host[i] \in AccValid

HostLists == UNION {[1..k -> AccNumbers] : k \in 0..AccMaxHosts}

AccReceive(q) ==
    /\ acc[q] = AccIdle
    /\ \E u \in AccUsers, host \in HostLists :
          \/ /\ PipePasses(host)
             /\ acc' = [acc EXCEPT ![q] = AccRequest("signup", u, host, SignupPlan)]
          \/ /\ PipePasses(host)
             /\ \E adv, name, key \in BOOLEAN :
                   acc' = [acc EXCEPT ![q] = AccRequest("update", u, host, UpdatePlan(adv, name, key))]
          \/ acc' = [acc EXCEPT ![q] = AccRequest("hostnumber", u, host, HostnumberPlan)]
          \/ /\ host = <<>>
             /\ \/ acc' = [acc EXCEPT ![q] = AccRequest("login", u, host, Profile)]
                \/ acc' = [acc EXCEPT ![q] = AccRequest("bizservice", u, host, <<"readUser">> \o Keys)]
    /\ UNCHANGED <<userRow, ncpRow, details, wrote>>

-----------------------------------------------------------------------------
(* Steps                                                                   *)

\* 'User already exists'
FindNoUser(q) ==
    /\ AccAt(q, "absent")
    /\ IF userRow[acc[q].user] = AccNone THEN AccOnward(q, acc[q]) ELSE AccRefused(q)
    /\ UNCHANGED <<userRow, ncpRow, details, wrote>>

Digits(host) == [i \in 1..Len(host) |-> AccDigits[host[i]]]

\* The email is unique: the insert rejects for the second of two.
NewUser(q) ==
    /\ AccAt(q, "newUser")
    /\ IF userRow[acc[q].user] = AccNone
       THEN /\ userRow' = [userRow EXCEPT ![acc[q].user] = Digits(acc[q].host)]
            /\ AccOnward(q, acc[q])
       ELSE AccRefused(q) /\ UNCHANGED userRow
    /\ UNCHANGED <<ncpRow, details, wrote>>

\* saveNcpInfo
NewNcp(q) ==
    /\ AccAt(q, "newNcp")
    /\ ncpRow' = [ncpRow EXCEPT ![acc[q].user] = Digits(acc[q].host)]
    /\ AccOnward(q, acc[q])
    /\ UNCHANGED <<userRow, details, wrote>>

\* findOneByEmail, findOneByUserId
ReadUserRow(q) ==
    /\ AccAt(q, "readUser")
    /\ LET row == userRow[acc[q].user] IN
       IF row = AccNone THEN AccRefused(q) ELSE AccOnward(q, [acc[q] EXCEPT !.row = row])
    /\ UNCHANGED <<userRow, ncpRow, details, wrote>>

\* Without NCP keys updateHostnumber and updateBizserviceId throw, and so does
\* updateNcpInfo when it sets a field of null.
ReadNcpRow(q) ==
    /\ AccAt(q, "readNcp")
    /\ LET row == ncpRow[acc[q].user] IN
       IF row = AccNone THEN AccRefused(q) ELSE AccOnward(q, [acc[q] EXCEPT !.ncp = row])
    /\ UNCHANGED <<userRow, ncpRow, details, wrote>>

\* Only these change the numbers; the others write back what they read.
Renumbers(r) == r.op \in {"update", "hostnumber"}

SaveUserRow(q) ==
    /\ AccAt(q, "saveUser")
    /\ userRow' = [userRow EXCEPT ![acc[q].user] = IF Renumbers(acc[q]) THEN acc[q].host ELSE acc[q].row]
    /\ AccOnward(q, acc[q])
    /\ UNCHANGED <<ncpRow, details, wrote>>

SaveNcpRow(q) ==
    /\ AccAt(q, "saveNcp")
    /\ ncpRow' = [ncpRow EXCEPT ![acc[q].user] = IF Renumbers(acc[q]) THEN acc[q].host ELSE acc[q].ncp]
    /\ AccOnward(q, acc[q])
    /\ UNCHANGED <<userRow, details, wrote>>

FindDetails(q) ==
    /\ AccAt(q, "find")
    /\ AccOnward(q, [acc[q] EXCEPT !.found = {d \in details : d.user = acc[q].user}])
    /\ UNCHANGED <<userRow, ncpRow, details, wrote>>

RemoveDetails(q) ==
    /\ AccAt(q, "remove")
    /\ details' = details \ acc[q].found
    /\ AccOnward(q, [acc[q] EXCEPT !.found = {}])
    /\ UNCHANGED <<userRow, ncpRow, wrote>>

\* An id nobody knows
NewId ==
    LET used == {d.id : d \in details \cup UNION {acc[q].found : q \in AccRequests}}
    IN  CHOOSE i \in 1..Cardinality(used) + 1 : i \notin used

\* One row per entry of the list, as the client wrote it
SaveDetail(q) ==
    /\ AccAt(q, "details")
    /\ LET r == acc[q] IN
       IF r.done = Len(r.host)
       THEN AccOnward(q, r) /\ UNCHANGED details
       ELSE /\ details' = details \cup {[id |-> NewId, user |-> r.user, number |-> r.host[r.done + 1]]}
            /\ acc' = [acc EXCEPT ![q].done = @ + 1]
    /\ UNCHANGED <<userRow, ncpRow, wrote>>

Wrote(u, row, memos) == wrote' = [wrote EXCEPT ![u] = [row |-> row, memos |-> memos]]

\* updateUser leaves the rows with memos as they are.
AccEnd(q) ==
    /\ acc[q] # AccIdle /\ acc[q].todo = <<>>
    /\ LET r == acc[q] IN
       CASE r.op = "signup" -> Wrote(r.user, Digits(r.host), r.host)
         [] r.op = "hostnumber" -> Wrote(r.user, r.host, r.host)
         [] r.op = "update" -> Wrote(r.user, r.host, wrote[r.user].memos)
         [] OTHER -> UNCHANGED wrote
    /\ AccRefused(q)
    /\ UNCHANGED <<userRow, ncpRow, details>>

\* A call rejects or the process ends.
AccStop(q) ==
    /\ acc[q].todo # <<>>
    /\ LET r == acc[q] IN
       CASE r.op \in {"signup", "hostnumber"} -> Wrote(r.user, AccNone, AccNone)
         [] r.op = "update" -> Wrote(r.user, AccNone, wrote[r.user].memos)
         [] OTHER -> UNCHANGED wrote
    /\ AccRefused(q)
    /\ UNCHANGED <<userRow, ncpRow, details>>

AccountsNext == \E q \in AccRequests :
    \/ AccReceive(q) \/ FindNoUser(q) \/ NewUser(q) \/ NewNcp(q) \/ ReadUserRow(q)
    \/ ReadNcpRow(q) \/ SaveUserRow(q) \/ SaveNcpRow(q) \/ FindDetails(q)
    \/ RemoveDetails(q) \/ SaveDetail(q) \/ AccEnd(q) \/ AccStop(q)

AccountsSpec == AccountsInit /\ [][AccountsNext]_accVars

-----------------------------------------------------------------------------
(* Properties.                                                             *)

\* How often n is among the first k entries of list, and in rows
Occurs(n, list, k) == Cardinality({i \in 1..k : list[i] = n})
RowsFor(n, rows) == Cardinality({d \in rows : d.number = n})

(***************************************************************************)
(* Whenever no request is being answered, the rows of the user and of the  *)
(* NCP keys hold the numbers of the last request to change them, in its    *)
(* order, and the rows with memos hold each number as often as the last    *)
(* sign-up or change of numbers with memos listed it: wherever earlier     *)
(* requests stopped, and whatever a change of the profile, which leaves    *)
(* the rows with memos as they are, has put into the other two since.  It  *)
(* needs requests that do not overlap.                                     *)
(***************************************************************************)
HostnumbersAgree == \A u \in AccUsers :
    (\A q \in AccRequests : acc[q] = AccIdle) =>
        LET g == wrote[u] IN
        /\ g.row # AccNone => userRow[u] = g.row /\ ncpRow[u] = g.row
        /\ g.memos # AccNone => \A n \in AccNumbers :
              RowsFor(n, {d \in details : d.user = u}) = Occurs(n, g.memos, Len(g.memos))
=============================================================================
