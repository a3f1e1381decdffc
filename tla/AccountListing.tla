--------------------------- MODULE AccountListing ---------------------------
(***************************************************************************)
(* The list of a user's accounts: ListUserConfigs of                       *)
(* internal/config/store.go behind list_email_accounts (server.go) and     *)
(* GET /api/accounts (web.go).  DynamoDB answers a query page by page, in  *)
(* the order of the sort keys, and each page from a replica that need not  *)
(* have the latest writes, which other requests make meanwhile.            *)
(***************************************************************************)
EXTENDS Integers, Sequences, FiniteSets

CONSTANTS
  MaxId,    \* bound: accounts of the user
  Listings  \* requests that list them

Ids == 1..MaxId  \* account ids, in the order of their sort keys

ASSUME MaxIdAssumption == MaxId \in Nat

VARIABLES
  tableKind, \* "memory" or "dynamo"
  kept,      \* the accounts in the table
  lagging,   \* the accounts whose last write some replica has not seen
  listing,   \* listing[q]: where request q is
  startKey,  \* startKey[q]: ExclusiveStartKey, 0 when there is none
  accs,      \* accs[q]: the accounts gathered, or answered
  there,     \* there[q]: history; stored everywhere all the while q ran
  gone       \* gone[q]: history; stored nowhere all the while

listVars == <<listing, startKey, accs>>
listingVars == <<tableKind, kept, lagging, listVars, there, gone>>

ListingTypeOK ==
  /\ tableKind \in {"memory", "dynamo"}
  /\ kept \subseteq Ids /\ lagging \subseteq Ids
  /\ listing \in [Listings -> {"idle", "query", "answered", "failed"}]
  /\ startKey \in [Listings -> 0..MaxId]
  /\ accs \in [Listings -> Seq(Ids)]
  /\ there \in [Listings -> SUBSET Ids] /\ gone \in [Listings -> SUBSET Ids]

ListingInit ==
  /\ tableKind \in {"memory", "dynamo"}
  /\ kept \in SUBSET Ids /\ lagging = {}
  /\ listing = [q \in Listings |-> "idle"]
  /\ startKey = [q \in Listings |-> 0]
  /\ accs = [q \in Listings |-> <<>>]
  /\ there = [q \in Listings |-> {}] /\ gone = [q \in Listings |-> {}]

\* The accounts of S, in order.
Sorted(S) == CHOOSE s \in [1..Cardinality(S) -> S] :
  \A i, j \in DOMAIN s : i < j => s[i] < s[j]

-----------------------------------------------------------------------------
(* Writes of other requests, and the replicas of the table *)

Changes(a) ==
  /\ lagging' = IF tableKind = "dynamo" THEN lagging \cup {a} ELSE {}
  /\ there' = [q \in Listings |-> there[q] \ {a}]
  /\ gone' = [q \in Listings |-> gone[q] \ {a}]
  /\ UNCHANGED <<tableKind, listVars>>

PutAccount(a) == a \notin kept /\ kept' = kept \cup {a} /\ Changes(a)
DeleteAccount(a) == a \in kept /\ kept' = kept \ {a} /\ Changes(a)

CatchUp(a) ==
  /\ a \in lagging
  /\ lagging' = lagging \ {a}
  /\ UNCHANGED <<tableKind, kept, listVars, there, gone>>

-----------------------------------------------------------------------------
(* A list *)

ListUserConfigs(q) ==
  /\ listing[q] = "idle"
  /\ listing' = [listing EXCEPT ![q] = "query"]
  /\ there' = [there EXCEPT ![q] = kept \ lagging]
  /\ gone' = [gone EXCEPT ![q] = Ids \ (kept \cup lagging)]
  /\ UNCHANGED <<tableKind, kept, lagging, startKey, accs>>

\* The map is read under its mutex and the accounts are sorted.
AnswerFromMap(q) ==
  /\ listing[q] = "query" /\ tableKind = "memory"
  /\ accs' = [accs EXCEPT ![q] = Sorted(kept)]
  /\ listing' = [listing EXCEPT ![q] = "answered"]
  /\ UNCHANGED <<tableKind, kept, lagging, startKey, there, gone>>

\* A page ends at key last, or with the last account there is (last = 0).
Page(q, seen, last) ==
  {a \in seen : a > startKey[q] /\ (last = 0 \/ a <= last)}

\* Fault: an answer ends the list, whatever LastEvaluatedKey says.
FirstPageOnly(q, last) ==
  /\ listing' = [listing EXCEPT ![q] = "answered"]
  /\ UNCHANGED startKey
NextPage(q, last) ==
  IF last = 0
  THEN /\ listing' = [listing EXCEPT ![q] = "answered"]
       /\ UNCHANGED startKey
  ELSE /\ startKey' = [startKey EXCEPT ![q] = last]
       /\ UNCHANGED listing

QueryPage(q) ==
  /\ listing[q] = "query" /\ tableKind = "dynamo"
  /\ \E stale \in SUBSET lagging :
       LET seen == (kept \ lagging) \cup stale IN
       \E last \in {0} \cup {a \in seen : a > startKey[q]} :
         /\ accs' = [accs EXCEPT ![q] = @ \o Sorted(Page(q, seen, last))]
         /\ NextPage(q, last)
  /\ UNCHANGED <<tableKind, kept, lagging, there, gone>>

\* An error ends the list with nothing.
Fail(q) ==
  /\ listing' = [listing EXCEPT ![q] = "failed"]
  /\ accs' = [accs EXCEPT ![q] = <<>>]
  /\ UNCHANGED startKey

QueryFails(q) ==
  /\ listing[q] = "query" /\ tableKind = "dynamo"
  /\ Fail(q)
  /\ UNCHANGED <<tableKind, kept, lagging, there, gone>>

ListingNext ==
  \/ \E a \in Ids : PutAccount(a) \/ DeleteAccount(a) \/ CatchUp(a)
  \/ \E q \in Listings :
       ListUserConfigs(q) \/ AnswerFromMap(q) \/ QueryPage(q) \/ QueryFails(q)

ListingSpec == ListingInit /\ [][ListingNext]_listingVars

-----------------------------------------------------------------------------
(* Properties *)

Answered(q) == {accs[q][i] : i \in DOMAIN accs[q]}

(***************************************************************************)
(* A list that is answered has every account that was there all the while  *)
(* and none that was not, whatever is put and deleted between its pages,   *)
(* whichever replicas answer them and wherever they end; and no account    *)
(* twice.  A page that fails fails the list.                               *)
(***************************************************************************)
ListedOnce == \A q \in Listings : listing[q] = "answered" =>
  /\ there[q] \subseteq Answered(q)
  /\ Answered(q) \cap gone[q] = {}
  /\ \A i, j \in DOMAIN accs[q] : i < j => accs[q][i] < accs[q][j]

\* Why: the pages so far have all the accounts up to the start key.
PagesSoFar == \A q \in Listings :
  /\ there[q] \subseteq kept \ lagging
  /\ gone[q] \cap (kept \cup lagging) = {}
  /\ listing[q] = "idle" => there[q] = {} /\ gone[q] = {} /\ startKey[q] = 0 /\ accs[q] = <<>>
  /\ listing[q] = "query" =>
       /\ {a \in there[q] : a <= startKey[q]} \subseteq Answered(q)
       /\ \A a \in Answered(q) : a <= startKey[q] /\ a \notin gone[q]
       /\ \A i, j \in DOMAIN accs[q] : i < j => accs[q][i] < accs[q][j]

ListingIInv == ListingTypeOK /\ PagesSoFar /\ ListedOnce
=============================================================================
