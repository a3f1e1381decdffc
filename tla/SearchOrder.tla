---------------------------- MODULE SearchOrder -----------------------------
(***************************************************************************)
(* One search of a folder (SearchEmails and searchSortedUIDs of            *)
(* internal/imap/pool.go, with internal/imap/sort.go): which of the        *)
(* matching messages are returned, and in which order, when the folder     *)
(* changes between the search and the fetch.                               *)
(*                                                                         *)
(* A message is its UID.  value[u] is what the requested key compares: the *)
(* internal date for arrival, otherwise the date, the address, the subject *)
(* or the size.                                                            *)
(***************************************************************************)
EXTENDS Integers, SequencesExt

CONSTANTS
  Uids,      \* UIDs of the folder's messages, ascending with their receipt
  MaxValue,  \* bound: values of the key
  MaxLimit   \* bound: the limits asked for

ASSUME UidsAssumption == Uids \subseteq Nat \ {0} /\ IsFiniteSet(Uids)
ASSUME SearchBounds == MaxValue \in Nat /\ MaxLimit \in Nat

VARIABLES
  value,   \* value[u]: the message's value of the requested key
  arrival, \* the key is arrival
  reverse, \* the caller's reverse; "default" when it is not given
  natural, \* defaultSortReverse of the key
  limit,   \* the limit; searchEmails makes one of a missing or negative limit
  phase,   \* where the search is
  folder,  \* the matching messages that are in the folder
  matched, \* history; the messages the search found
  sorted,  \* usedServerSort
  uids,    \* uidList
  summaries \* the summaries returned

request == <<value, arrival, reverse, natural, limit>>
searchVars == <<value, arrival, reverse, natural, limit, phase, folder, matched,
                sorted, uids, summaries>>

SearchTypeOK ==
  /\ value \in [Uids -> 1..MaxValue]
  /\ arrival \in BOOLEAN /\ natural \in BOOLEAN /\ sorted \in BOOLEAN
  /\ reverse \in {"default", "true", "false"}
  /\ limit \in 1..MaxLimit
  /\ phase \in {"none", "search", "fetch", "done", "failed"}
  /\ folder \subseteq Uids /\ matched \subseteq Uids
  /\ uids \in Seq(Uids) /\ summaries \in Seq(Uids)

\* Arrival is reversed by default, like the dates and sizes.
SearchInit ==
  /\ value \in [Uids -> 1..MaxValue]
  /\ arrival \in BOOLEAN /\ natural \in BOOLEAN
  /\ arrival => natural
  /\ reverse \in {"default", "true", "false"}
  /\ limit \in 1..MaxLimit
  /\ phase \in {"none", "search"}
  /\ folder \in SUBSET Uids
  /\ matched = {} /\ sorted = FALSE /\ uids = <<>> /\ summaries = <<>>

Reversed == IF reverse = "default" THEN natural ELSE reverse = "true"

-----------------------------------------------------------------------------
\* sort.SliceStable puts a before b.
Less(a, b) == IF Reversed THEN value[a] > value[b] ELSE value[a] < value[b]

\* The elements of S in the order of a relation that decides any two of them.
Arranged(S, Precedes(_, _)) == CHOOSE s \in SetToSeqs(S) : IsSorted(s, Precedes)

Ascending(S) == Arranged(S, LAMBDA a, b : a < b)

\* The elements of s at the positions P, in their order.
Picked(s, P) == LET order == Ascending(P) IN [k \in DOMAIN order |-> s[order[k]]]

\* The position i of s goes before j in a stable sort.
StablyBefore(s, i, j) ==
  \/ Less(s[i], s[j])
  \/ ~Less(s[j], s[i]) /\ i < j

SortSummaries(s) ==
  LET order == Arranged(DOMAIN s, LAMBDA i, j : StablyBefore(s, i, j))
  IN  [k \in DOMAIN order |-> s[order[k]]]

\* Fault: the last message within the limit goes too.
LimitedShort(s) == IF Len(s) >= limit THEN SubSeq(s, 1, limit - 1) ELSE s

Limited(s) == IF limit > 0 /\ Len(s) > limit THEN SubSeq(s, 1, limit) ELSE s

\* Fault: the limit is always applied before the fetch.
LimitAtOnce(serverSort) == TRUE

LimitBeforeFetch(serverSort) == serverSort \/ arrival

\* The order of UIDs that SEARCH and reverseUIDs give.
SearchSequence(S) == IF arrival /\ Reversed THEN Reverse(Ascending(S)) ELSE Ascending(S)

\* Fault: the summaries stay in the order of the FETCH responses.
AsFetched(msgs) == msgs

OrderByUIDs(msgs) == Picked(uids, {i \in DOMAIN uids : Contains(msgs, uids[i])})

-----------------------------------------------------------------------------
\* The messages are found; without any the search is over.
Found(s, serverSort) ==
  /\ phase = "search"
  /\ matched' = folder
  /\ sorted' = serverSort
  /\ uids' = IF LimitBeforeFetch(serverSort) THEN Limited(s) ELSE s
  /\ phase' = IF s = <<>> THEN "done" ELSE "fetch"
  /\ UNCHANGED <<request, folder, summaries>>

\* The server has SORT; how it orders equal messages is its own affair.
ServerSort ==
  \E s \in SetToSeqs(folder) : IsSorted(s, LAMBDA a, b : ~Less(b, a)) /\ Found(s, TRUE)

\* It has not, or SORT failed.
ClientSort == Found(SearchSequence(folder), FALSE)

\* Another client removes a message; before the search it just is not there.
Expunge(u) ==
  /\ phase = "fetch" /\ u \in folder
  /\ folder' = folder \ {u}
  /\ UNCHANGED <<request, phase, matched, sorted, uids, summaries>>

\* FETCH answers for the messages that are left, in any order.
Fetch ==
  /\ phase = "fetch"
  /\ \E msgs \in SetToSeqs(ToSet(uids) \cap folder) :
       summaries' = IF LimitBeforeFetch(sorted) THEN OrderByUIDs(msgs)
                                             ELSE Limited(SortSummaries(msgs))
  /\ phase' = "done"
  /\ UNCHANGED <<request, folder, matched, sorted, uids>>

\* SELECT, SEARCH or FETCH fails.
SearchFails ==
  /\ phase \in {"search", "fetch"}
  /\ phase' = "failed"
  /\ UNCHANGED <<request, folder, matched, sorted, uids, summaries>>

SearchNext ==
  \/ ServerSort \/ ClientSort \/ Fetch \/ SearchFails
  \/ \E u \in Uids : Expunge(u)

SearchSpec == SearchInit /\ [][SearchNext]_searchVars

-----------------------------------------------------------------------------
(***************************************************************************)
(* The order a caller is promised: by the key, except that without the     *)
(* server's SORT the UID stands for the arrival (sort.go:171).             *)
(***************************************************************************)
Before(a, b) ==
  LET rank(u) == IF arrival /\ ~sorted THEN u ELSE value[u]
  IN  IF Reversed THEN rank(a) > rank(b) ELSE rank(a) < rank(b)

(***************************************************************************)
(* The answer is in that order, whatever order FETCH answered in.          *)
(***************************************************************************)
InOrder == phase = "done" => IsSorted(summaries, LAMBDA a, b : ~Before(b, a))

(***************************************************************************)
(* The limit keeps the first ones: a message that was found, is still      *)
(* there and comes before a returned one is returned too, whether the      *)
(* limit was applied before the fetch or after the sort.                   *)
(***************************************************************************)
BestFirst == phase = "done" =>
  \A r \in ToSet(summaries), u \in matched \cap folder :
    Before(u, r) => u \in ToSet(summaries)

\* How many of the messages found are to be returned.
Wanted(found) == IF Cardinality(found) <= limit THEN Cardinality(found) ELSE limit

(***************************************************************************)
(* The limit cuts no deeper than asked: without a removal in between, the  *)
(* answer has as many messages as were found, up to the limit.             *)
(***************************************************************************)
CutToLimit == phase = "done" /\ matched \subseteq folder =>
  /\ Cardinality(ToSet(summaries)) = Len(summaries)
  /\ Len(summaries) = Wanted(matched)

(***************************************************************************)
(* Why: before the fetch, uids are the messages that were found or, where  *)
(* the limit is already applied, the first ones in order.                  *)
(***************************************************************************)
FetchList == phase = "fetch" =>
  /\ folder \subseteq matched
  /\ IsInjective(uids)
  /\ IF LimitBeforeFetch(sorted)
     THEN /\ IsSorted(uids, LAMBDA a, b : ~Before(b, a))
          /\ ToSet(uids) \subseteq matched
          /\ \A r \in ToSet(uids), u \in matched : Before(u, r) => u \in ToSet(uids)
          /\ Len(uids) = Wanted(matched)
     ELSE ToSet(uids) = matched

SearchIInv ==
  /\ SearchTypeOK /\ FetchList
  /\ phase = "search" => summaries = <<>>
  /\ InOrder /\ BestFirst /\ CutToLimit
=============================================================================
