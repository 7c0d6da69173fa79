------------------------------- MODULE Phonebook -------------------------------
(***************************************************************************)
(* The phonebooks of the users.  A phonebook is a row with the ids of its  *)
(* members; the members are contacts, one row per user and number, that    *)
(* all phonebooks of the user share.  Every request reads the row, awaits  *)
(* one query or insert per member, and writes the whole row back.          *)
(*                                                                         *)
(* The order of the members is left out: members is a set.                 *)
(***************************************************************************)
EXTENDS Integers, Sequences, FiniteSets

CONSTANTS
    PbUsers,        \* users
    PbTitles,       \* titles of phonebooks
    PbNumbers,      \* numbers of contacts
    PbRequests,     \* requests in flight together
    PbMaxBooks,     \* bound: phonebooks, deleted ones included
    PbMaxContacts   \* bound: contacts

ASSUME PbBoundsAssumption == PbMaxBooks \in Nat /\ PbMaxContacts \in Nat

VARIABLES
    contacts,   \* contacts[c]: the row with id c, [user, number]
    books,      \* books[b]: the row with id b, [user, title, members, live]
    renumbered, \* history: contacts whose number was changed
    pb          \* pb[q]: the request in slot q

pbVars == <<contacts, books, renumbered, pb>>

Contacts == 1..Len(contacts)
Books == 1..Len(books)

NoBook == [user |-> 0, title |-> 0, members |-> {}, live |-> FALSE]

\* at: where the request is; todo: numbers still to look up; number: the one to
\* insert, or the new number of a contact; list: the members found; copy: the
\* phonebook as read.
PbRequest(at, op, u) ==
    [at |-> at, op |-> op, user |-> u, title |-> 0, book |-> 0, contact |-> 0,
     number |-> 0, todo |-> {}, list |-> {}, copy |-> NoBook]

PbIdle == [at |-> "idle", op |-> "none"]

PhonebookInit ==
    /\ contacts = <<>>
    /\ books = <<>>
    /\ renumbered = {}
    /\ pb = [q \in PbRequests |-> PbIdle]

PbAt(q, s) == pb[q].at = s

PbGo(q, r) == pb' = [pb EXCEPT ![q] = r]

\* The request is answered, or refused.
Answered(q) == PbGo(q, PbIdle)

-----------------------------------------------------------------------------

\* Variant: whose contact it is is not asked.
ContactsWithNumber(u, n) == {c \in Contacts : contacts[c].number = n}

\* Variant: the query never finds a contact.
ContactsForgotten(u, n) == {}

\* findOneByUserIdAndPhoneNumber
ContactsFor(u, n) == {c \in Contacts : contacts[c].user = u /\ contacts[c].number = n}

PbRoom(u, ns) ==
    Len(contacts) + Cardinality({n \in ns : ContactsFor(u, n) = {}}) <= PbMaxContacts

\* The pipes refuse a request that names a number twice.
PbReceive(q) ==
    /\ PbAt(q, "idle")
    /\ \E u \in PbUsers :
        \/ \E t \in PbTitles, ns \in SUBSET PbNumbers :
             /\ PbRoom(u, ns) /\ Len(books) < PbMaxBooks
             /\ PbGo(q, [PbRequest("title", "create", u) EXCEPT !.title = t, !.todo = ns])
        \/ \E b \in Books :
             \/ \E ns \in SUBSET PbNumbers :
                  /\ PbRoom(u, ns)
                  /\ PbGo(q, [PbRequest("book", "add", u) EXCEPT !.book = b, !.todo = ns])
             \/ \E c \in Contacts :
                  PbGo(q, [PbRequest("book", "remove", u) EXCEPT !.book = b, !.contact = c])
             \/ \E t \in PbTitles :
                  PbGo(q, [PbRequest("book", "title", u) EXCEPT !.book = b, !.title = t])
             \/ PbGo(q, [PbRequest("book", "delete", u) EXCEPT !.book = b])
        \/ \E c \in Contacts, n \in PbNumbers :
             PbGo(q, [PbRequest("contact", "renumber", u) EXCEPT !.contact = c, !.number = n])
    /\ UNCHANGED <<contacts, books, renumbered>>

\* createPhonebook: 'Phonebook already exists'
CheckTitle(q) ==
    /\ PbAt(q, "title")
    /\ IF \E b \in Books : books[b].live /\ books[b].user = pb[q].user /\ books[b].title = pb[q].title
       THEN Answered(q)
       ELSE PbGo(q, [pb[q] EXCEPT !.at = "members"])
    /\ UNCHANGED <<contacts, books, renumbered>>

\* findOneByPhonebookIdAndUserId
ReadBook(q) ==
    /\ PbAt(q, "book")
    /\ LET b == pb[q].book IN
       IF books[b].live /\ books[b].user = pb[q].user
       THEN PbGo(q, [pb[q] EXCEPT !.copy = books[b],
                       !.at = CASE pb[q].op = "add" -> "members"
                                [] pb[q].op = "remove" -> "contact"
                                [] pb[q].op = "title" -> "save"
                                [] OTHER -> "delete"])
       ELSE Answered(q)
    /\ UNCHANGED <<contacts, books, renumbered>>

\* A number that has a contact already is a member by that.
LookUp(q) ==
    /\ PbAt(q, "members")
    /\ \E n \in pb[q].todo :
         LET found == ContactsFor(pb[q].user, n) IN
         \/ \E c \in found : PbGo(q, [pb[q] EXCEPT !.todo = @ \ {n}, !.list = @ \cup {c}])
         \/ /\ found = {}
            /\ PbGo(q, [pb[q] EXCEPT !.at = "insert", !.todo = @ \ {n}, !.number = n])
    /\ UNCHANGED <<contacts, books, renumbered>>

InsertContact(q) ==
    /\ PbAt(q, "insert")
    /\ contacts' = Append(contacts, [user |-> pb[q].user, number |-> pb[q].number])
    /\ PbGo(q, [pb[q] EXCEPT !.at = "members", !.list = @ \cup {Len(contacts) + 1}])
    /\ UNCHANGED <<books, renumbered>>

CreateBook(q) ==
    /\ PbAt(q, "members") /\ pb[q].op = "create" /\ pb[q].todo = {}
    /\ books' = Append(books, [user |-> pb[q].user, title |-> pb[q].title,
                               members |-> pb[q].list, live |-> TRUE])
    /\ Answered(q)
    /\ UNCHANGED <<contacts, renumbered>>

\* The contact to remove must exist, whoever's it is; one to change must be the
\* user's.
ReadContact(q) ==
    /\ PbAt(q, "contact")
    /\ IF pb[q].op = "renumber" /\ contacts[pb[q].contact].user # pb[q].user
       THEN Answered(q)
       ELSE PbGo(q, [pb[q] EXCEPT !.at = IF pb[q].op = "renumber" THEN "number" ELSE "save"])
    /\ UNCHANGED <<contacts, books, renumbered>>

\* updatePhonebook: the number of a contact (its name is left out)
SaveNumber(q) ==
    /\ PbAt(q, "number")
    /\ contacts' = [contacts EXCEPT ![pb[q].contact].number = pb[q].number]
    /\ renumbered' = renumbered \cup {pb[q].contact}
    /\ Answered(q)
    /\ UNCHANGED books

\* Variant: the members there were are forgotten.
ChangedAnew(r) ==
    CASE r.op = "add" -> [r.copy EXCEPT !.members = r.list]
      [] r.op = "remove" -> [r.copy EXCEPT !.members = @ \ {r.contact}]
      [] OTHER -> [r.copy EXCEPT !.title = r.title]

\* The row to write: the copy with the members added or removed, or the title.
Changed(r) ==
    CASE r.op = "add" -> [r.copy EXCEPT !.members = @ \cup r.list]
      [] r.op = "remove" -> [r.copy EXCEPT !.members = @ \ {r.contact}]
      [] OTHER -> [r.copy EXCEPT !.title = r.title]

\* save writes the columns that differ by now, and inserts a row that is gone.
SaveBook(q) ==
    /\ \/ PbAt(q, "save")
       \/ PbAt(q, "members") /\ pb[q].op = "add" /\ pb[q].todo = {}
    /\ books' = [books EXCEPT ![pb[q].book] = Changed(pb[q])]
    /\ Answered(q)
    /\ UNCHANGED <<contacts, renumbered>>

DeleteBook(q) ==
    /\ PbAt(q, "delete")
    /\ books' = [books EXCEPT ![pb[q].book].live = FALSE]
    /\ Answered(q)
    /\ UNCHANGED <<contacts, renumbered>>

\* A call rejects or the process ends.
PbStop(q) ==
    /\ pb[q].at # "idle"
    /\ Answered(q)
    /\ UNCHANGED <<contacts, books, renumbered>>

PhonebookNext == \E q \in PbRequests :
    \/ PbReceive(q) \/ CheckTitle(q) \/ ReadBook(q) \/ LookUp(q) \/ InsertContact(q)
    \/ CreateBook(q) \/ ReadContact(q) \/ SaveNumber(q) \/ SaveBook(q) \/ DeleteBook(q)
    \/ PbStop(q)

PhonebookSpec == PhonebookInit /\ [][PhonebookNext]_pbVars

-----------------------------------------------------------------------------
(* Properties.                                                             *)

PhonebookTypeOK ==
    /\ contacts \in Seq([user : PbUsers, number : PbNumbers])
    /\ books \in Seq([user : PbUsers, title : PbTitles, members : SUBSET Contacts, live : BOOLEAN])
    /\ renumbered \subseteq Contacts

(***************************************************************************)
(* Every member of a phonebook is a contact of its owner, so that the page *)
(* of a phonebook (findPhonebookMember, which does not expect a contact to *)
(* be missing) never throws: through requests that overlap and stop, and   *)
(* through phonebooks that are saved again after they were deleted.        *)
(***************************************************************************)
MembersAreOwnContacts ==
    \A b \in Books : \A c \in books[b].members :
        c \in Contacts /\ contacts[c].user = books[b].user

(***************************************************************************)
(* A user has one contact per number, unless the number of a contact was   *)
(* changed, however many phonebooks name it and wherever requests stopped. *)
(* It needs requests that do not overlap (PbRequests has one element).     *)
(***************************************************************************)
OneContactPerNumber ==
    \A c, d \in Contacts \ renumbered : contacts[c] = contacts[d] => c = d

(***************************************************************************)
(* A member leaves a phonebook only by a request that removes it, and a    *)
(* phonebook that was deleted does not come back.  It needs requests that  *)
(* do not overlap: each writes back the row as it was when it started.     *)
(***************************************************************************)
RemovedBy(b, c) ==
    \E q \in PbRequests : pb[q].op = "remove" /\ pb[q].book = b /\ pb[q].contact = c

MembersKept == [][\A b \in Books :
    /\ books'[b].live => books[b].live
    /\ \A c \in books[b].members \ books'[b].members : RemovedBy(b, c)]_pbVars
=============================================================================
