------------------------------ MODULE Listing ------------------------------
(***************************************************************************)
(* Clients that walk through a bucket page by page while objects come and  *)
(* go and the bucket itself may be removed (ListObjects of the three       *)
(* stores, ListOptions, paginate, and the listing handler).                *)
(*                                                                         *)
(* Object keys are numbers in the order of the strings.  The keys with     *)
(* some prefix follow one another in that order, so a prefix is an         *)
(* interval of numbers.                                                    *)
(***************************************************************************)
EXTENDS Buckets, Sequences, FiniteSetsExt

CONSTANTS
    Walks,      \* clients that list the bucket
    Windows,    \* the prefixes they use, as <<first, last>>
    Limit       \* keys per page, ListOptions.limit()

ASSUME ListingAssumption ==
    /\ Windows \subseteq Nat \X Nat
    /\ Limit \in Nat \ {0}

VARIABLES
    wpc,        \* where each walk is
    window,     \* its prefix
    from,       \* the key it started after, 0 for the beginning
    after,      \* ListOptions.After of its next page
    pages,      \* the pages it got, each a set of keys
    steady      \* history: objects present ever since it began

walkVars == <<wpc, window, from, after, pages, steady>>

Listed(w) == UNION {pages[w][i] : i \in DOMAIN pages[w]}

InPrefix(w, k) == window[w][1] <= k /\ k <= window[w][2]

\* Seeded fault: the page starts at After, not behind it.
MatchingInclusive(w) == {k \in objects : InPrefix(w, k) /\ after[w] <= k}

\* The local and memory stores filter every key by prefix and position.  etcd
\* scans a range: from the prefix or from just past After, to the prefix's end.
Matching(w) ==
    IF store = "etcd"
    THEN {k \in objects : /\ (IF after[w] = 0 THEN window[w][1] ELSE after[w] + 1) <= k
                          /\ k <= window[w][2]}
    ELSE {k \in objects : InPrefix(w, k) /\ after[w] < k}

\* The first Limit keys in ascending order.
FirstOf(S) == {k \in S : Cardinality({j \in S : j <= k}) <= Limit}

\* Seeded fault: the key that showed there is more is taken for delivered.
NextAfterExtra(S) == Max({k \in S : Cardinality({j \in S : j <= k}) <= Limit + 1})

\* Where the next page starts, when there is one.
NextAfter(S) == Max(FirstOf(S))

----------------------------------------------------------------------------
WalkBegin(w) ==
    /\ wpc[w] = "idle"
    /\ \E range \in Windows, start \in Keys \union {0} :
          /\ window' = [window EXCEPT ![w] = range]
          /\ from' = [from EXCEPT ![w] = start]
          /\ after' = [after EXCEPT ![w] = start]
    /\ steady' = [steady EXCEPT ![w] = objects]
    /\ wpc' = [wpc EXCEPT ![w] = "walking"]
    /\ UNCHANGED <<vars, pages>>

\* One ListObjects call and paginate.
ListObjects(w) ==
    /\ wpc[w] = "walking" /\ Unlocked
    /\ IF store = "local" THEN dir ELSE record # NoBucket
    /\ LET keys == Matching(w)
           more == FirstOf(keys) # keys
       IN  /\ pages' = [pages EXCEPT ![w] = Append(@, FirstOf(keys))]
           /\ after' = [after EXCEPT ![w] = IF more THEN NextAfter(keys) ELSE @]
           /\ wpc' = [wpc EXCEPT ![w] = IF more THEN "walking" ELSE "done"]
    /\ UNCHANGED <<vars, window, from, steady>>

\* The bucket is not there, or a file, etcd or the client gives up.
ListFails(w) ==
    /\ wpc[w] = "walking" /\ Unlocked
    /\ \/ (IF store = "local" THEN ~dir ELSE record = NoBucket) /\ UNCHANGED faults
       \/ Fault
    /\ wpc' = [wpc EXCEPT ![w] = "failed"]
    /\ UNCHANGED <<store, record, dir, temp, objects, memoryVars, pc>>
    /\ UNCHANGED <<window, from, after, pages, steady>>

----------------------------------------------------------------------------
WalkInit ==
    /\ Init
    /\ wpc = [w \in Walks |-> "idle"]
    /\ window = [w \in Walks |-> <<0, 0>>]
    /\ from = [w \in Walks |-> 0]
    /\ after = [w \in Walks |-> 0]
    /\ pages = [w \in Walks |-> <<>>]
    /\ steady = [w \in Walks |-> {}]

WalkStep(w) == ListObjects(w) \/ ListFails(w)

\* A walk outlives a restart: the client asks the new coordinator.
WalkNext ==
    \/ /\ Next
       /\ steady' = [w \in Walks |-> steady[w] \intersect objects']
       /\ UNCHANGED <<wpc, window, from, after, pages>>
    \/ \E w \in Walks : WalkBegin(w) \/ WalkStep(w)

WalkSpec == WalkInit /\ [][WalkNext]_<<vars, walkVars>>

----------------------------------------------------------------------------
\* "ListObjects returns one page of a bucket's keys, in ascending order"
\* (interface.go), and "Pass the previous page's NextAfter in opts.After to
\* continue" (lilio.go): whatever happens between its pages, a walk misses no
\* object that was there all the time.
ListingComplete ==
    \A w \in Walks : \A k \in steady[w] :
        wpc[w] = "done" /\ InPrefix(w, k) /\ from[w] < k => k \in Listed(w)

\* Pages follow one another: nothing is listed twice or out of order.
PagesAscend ==
    \A w \in Walks : \A i, j \in DOMAIN pages[w] :
        i < j => \A a \in pages[w][i], b \in pages[w][j] : a < b

=============================================================================
