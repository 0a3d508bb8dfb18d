---------------------------- MODULE UploadProofs ----------------------------
(***************************************************************************)
(* Proofs about one upload in detail: it stores the bytes of its body,     *)
(* whatever the reader and the nodes do (Upload), on the nodes the ring    *)
(* names, whatever joined, collided and left (HashRing).                   *)
(***************************************************************************)
EXTENDS Upload, FiniteSetTheorems, SequenceTheorems, TLAPS

----------------------------------------------------------------------------
(* The ring: its three fields agree.                                       *)

RingOK ==
    /\ Members \subseteq Nodes
    /\ ring \subseteq Positions
    /\ nodeToPositions \in [Members -> [1 .. VirtualNodes -> Positions]]
    /\ positionToNode \in [ring -> Members]
    /\ \A n \in Members : \A i \in 1 .. VirtualNodes :
          /\ nodeToPositions[n][i] \in ring /\ positionToNode[nodeToPositions[n][i]] = n
          /\ nodeToPositions[n][i] \in Range(Hash[n][i])
    /\ \A q \in ring : \E i \in 1 .. VirtualNodes : nodeToPositions[positionToNode[q]][i] = q

LEMMA MinOfSet ==
    ASSUME NEW S \in SUBSET Nat, S # {}
    PROVE  Min(S) \in S /\ \A k \in S : Min(S) <= k
<1> DEFINE less == {pair \in Nat \X Nat : pair[1] < pair[2]}
<1>1. IsWellFoundedOn(less, Nat)
  BY NatLessThanWellFounded DEF OpToRel
<1>2. PICK m \in S : \A k \in S : <<k, m>> \notin less
  <2> HIDE DEF less
  <2> QED BY <1>1, WFMin
<1>3. ASSUME NEW k \in S PROVE m <= k
  <2>1. k \in Nat /\ m \in Nat /\ <<k, m>> \notin less
    BY <1>2
  <2>2. ~(k < m)
    BY <2>1
  <2> QED BY <2>1, <2>2
<1>4. \E x \in S : \A y \in S : x <= y
  BY <1>3
<1> QED BY <1>4 DEF Min

LEMMA LeastOfTwo ==
    ASSUME NEW a \in Int, NEW b \in Int
    PROVE  Min({a, b}) = IF a <= b THEN a ELSE b
BY DEF Min

\* A new node gets positions of its own (RetriesSuffice, AddNode).
LEMMA FreshPositions ==
    ASSUME RingOK, RetriesSuffice, NEW node \in Nodes \ Members,
           NEW new \in [1 .. VirtualNodes -> Positions], IsPlacement(new, node)
    PROVE  /\ \A i \in 1 .. VirtualNodes : new[i] \notin ring /\ new[i] \in Range(Hash[node][i])
           /\ \A i, j \in 1 .. VirtualNodes : new[i] = new[j] => i = j
<1> USE RingAssumption
<1> DEFINE virtual == Nodes \X (1 .. VirtualNodes)
           Candidates(v) == Range(Hash[v[1]][v[2]])
           Taken(i) == ring \union {new[j] : j \in 1 .. i - 1}
<1>1. ASSUME NEW n \in Nodes, NEW i \in 1 .. VirtualNodes
      PROVE  /\ Hash[n][i] \in Seq(Positions) /\ Hash[n][i][1] \in Positions
             /\ Hash[n][i][1] \in Range(Hash[n][i])
             /\ DOMAIN Hash[n][i] \in SUBSET Nat /\ Len(Hash[n][i]) \in DOMAIN Hash[n][i]
  <2>1. Hash[n][i] \in Seq(Positions) /\ Hash[n][i] # <<>>
    OBVIOUS
  <2>2. Len(Hash[n][i]) \in Nat \ {0} /\ DOMAIN Hash[n][i] = 1 .. Len(Hash[n][i])
    BY <2>1, EmptySeq, LenProperties
  <2>3. 1 \in DOMAIN Hash[n][i] /\ 1 \in 1 .. Len(Hash[n][i])
    BY <2>2
  <2>4. Hash[n][i][1] \in Positions
    BY <2>1, <2>3, ElementOfSeq
  <2>5. Hash[n][i][1] \in Range(Hash[n][i])
    BY <2>3 DEF Range
  <2>6. DOMAIN Hash[n][i] \in SUBSET Nat /\ Len(Hash[n][i]) \in DOMAIN Hash[n][i]
    BY <2>2
  <2> QED BY <2>1, <2>4, <2>5, <2>6
<1>2. ASSUME NEW i \in 1 .. VirtualNodes
      PROVE  /\ new[i] = FirstFree(Hash[node][i], Taken(i))
             /\ new[i] \in Range(Hash[node][i])
             /\ (\E candidate \in Range(Hash[node][i]) : candidate \notin Taken(i)) => new[i] \notin Taken(i)
  <2> DEFINE candidates == Hash[node][i]
             free == {k \in DOMAIN candidates : candidates[k] \notin Taken(i)}
  <2>1. new[i] = FirstFree(Hash[node][i], Taken(i))
    BY DEF IsPlacement, RingOK
  <2>2. new[i] = candidates[IF free = {} THEN Len(candidates) ELSE Min(free)]
    BY <2>1 DEF FirstFree
  <2>3. free # {} => Min(free) \in free
    <3>1. free \in SUBSET Nat
      BY <1>1
    <3> HIDE DEF free
    <3> QED BY <3>1, MinOfSet
  <2>4. new[i] \in Range(candidates)
    BY <1>1, <2>2, <2>3 DEF Range
  <2>5. ASSUME NEW candidate \in Range(candidates), candidate \notin Taken(i)
        PROVE  new[i] \notin Taken(i)
    <3>1. free # {}
      BY <2>5 DEF Range
    <3> QED BY <2>2, <2>3, <3>1
  <2> QED BY <2>1, <2>4, <2>5
<1>3. ASSUME NEW i \in 1 .. VirtualNodes
      PROVE  \E candidate \in Range(Hash[node][i]) : candidate \notin Taken(i)
  <2> DEFINE held == [v \in virtual |-> IF v[1] = node THEN new[v[2]]
                                        ELSE IF v[1] \in Members THEN nodeToPositions[v[1]][v[2]]
                                        ELSE Hash[v[1]][v[2]][1]]
  <2>1. ASSUME NEW v \in virtual PROVE held[v] \in Positions /\ held[v] \in Candidates(v)
    <3>1. CASE v[1] = node
      BY <1>2, <3>1
    <3>2. CASE v[1] # node /\ v[1] \in Members
      BY <3>2 DEF RingOK
    <3>3. CASE v[1] # node /\ v[1] \notin Members
      BY <1>1, <3>3
    <3> QED BY <3>1, <3>2, <3>3
  <2>2. held \in [virtual -> Positions]
    BY <2>1
  <2>3. <<node, i>> \in virtual /\ Candidates(<<node, i>>) = Range(Hash[node][i])
    OBVIOUS
  <2>4. PICK candidate \in Range(Hash[node][i]) :
            \A other \in virtual \ {<<node, i>>} : held[other] # candidate
    <3> HIDE DEF held
    <3>1. \A v \in virtual : \E candidate \in Candidates(v) :
              \A other \in virtual \ {v} : held[other] # candidate
      BY <2>1, <2>2 DEF RetriesSuffice
    <3> QED BY <2>3, <3>1
  <2>5. ASSUME NEW j \in 1 .. i - 1 PROVE new[j] # candidate
    <3>1. <<node, j>> \in virtual \ {<<node, i>>}
      OBVIOUS
    <3>2. held[<<node, j>>] = new[j]
      BY <3>1
    <3> QED BY <2>4, <3>1, <3>2
  <2>6. ASSUME NEW q \in ring PROVE q # candidate
    <3>1. PICK j \in 1 .. VirtualNodes : nodeToPositions[positionToNode[q]][j] = q
      BY DEF RingOK
    <3>2. positionToNode[q] \in Members /\ positionToNode[q] \in Nodes /\ positionToNode[q] # node
      BY DEF RingOK
    <3>3. <<positionToNode[q], j>> \in virtual \ {<<node, i>>}
      BY <3>2
    <3>4. held[<<positionToNode[q], j>>] = q
      BY <3>1, <3>2, <3>3
    <3> QED BY <2>4, <3>3, <3>4
  <2> QED BY <2>5, <2>6
<1>4. \A i \in 1 .. VirtualNodes : new[i] \notin Taken(i)
  BY <1>2, <1>3
<1>5. ASSUME NEW i \in 1 .. VirtualNodes, NEW j \in 1 .. VirtualNodes, new[i] = new[j], i # j
      PROVE  FALSE
  <2>1. i \in 1 .. j - 1 \/ j \in 1 .. i - 1
    BY <1>5
  <2> QED BY <1>4, <1>5, <2>1
<1> QED BY <1>2, <1>4, <1>5

LEMMA AddNodeKeeps == ASSUME RingOK, RetriesSuffice, NEW node \in Nodes, AddNode(node) PROVE RingOK'
<1>1. CASE node \in Members
  BY <1>1 DEF AddNode, ringVars, RingOK, Members
<1>2. CASE node \notin Members
  <2>1. PICK new \in [1 .. VirtualNodes -> Positions] :
            /\ IsPlacement(new, node)
            /\ positionToNode' = [q \in DOMAIN positionToNode \union Range(new) |->
                                     IF q \in Range(new) THEN node ELSE positionToNode[q]]
            /\ ring' = ring \union Range(new)
            /\ nodeToPositions' = [n \in Members \union {node} |->
                                      IF n = node THEN new ELSE nodeToPositions[n]]
    BY <1>2 DEF AddNode
  <2>2. /\ \A i \in 1 .. VirtualNodes : new[i] \notin ring /\ new[i] \in Range(Hash[node][i])
        /\ Range(new) \subseteq Positions /\ Range(new) \intersect ring = {}
        /\ \A i \in 1 .. VirtualNodes : new[i] \in Range(new)
        /\ \A q \in Range(new) : \E i \in 1 .. VirtualNodes : new[i] = q
    <3>1. node \in Nodes \ Members
      BY <1>2
    <3>2. \A i \in 1 .. VirtualNodes : new[i] \notin ring /\ new[i] \in Range(Hash[node][i])
      BY <2>1, <3>1, FreshPositions
    <3>3. Range(new) = {new[i] : i \in 1 .. VirtualNodes}
      BY DEF Range
    <3> QED BY <3>2, <3>3
  <2>3. Members' = Members \union {node} /\ Members' \subseteq Nodes
    BY <2>1 DEF Members, RingOK
  <2>4. /\ ring' \subseteq Positions
        /\ nodeToPositions' \in [Members' -> [1 .. VirtualNodes -> Positions]]
        /\ positionToNode' \in [ring' -> Members']
    BY <2>1, <2>2, <2>3 DEF RingOK
  <2>5. ASSUME NEW n \in Members', NEW i \in 1 .. VirtualNodes
        PROVE  /\ nodeToPositions'[n][i] \in ring' /\ positionToNode'[nodeToPositions'[n][i]] = n
               /\ nodeToPositions'[n][i] \in Range(Hash[n][i])
    <3>1. CASE n = node
      BY <2>1, <2>2, <3>1 DEF RingOK
    <3>2. CASE n # node
      <4>1. n \in Members /\ nodeToPositions'[n] = nodeToPositions[n]
        BY <2>1, <2>3, <3>2
      <4>2. /\ nodeToPositions[n][i] \in ring /\ nodeToPositions[n][i] \notin Range(new)
            /\ positionToNode[nodeToPositions[n][i]] = n
            /\ nodeToPositions[n][i] \in Range(Hash[n][i])
        BY <2>2, <4>1 DEF RingOK
      <4> QED BY <2>1, <4>1, <4>2 DEF RingOK
    <3> QED BY <3>1, <3>2
  <2>6. ASSUME NEW q \in ring'
        PROVE  \E i \in 1 .. VirtualNodes : nodeToPositions'[positionToNode'[q]][i] = q
    <3>1. CASE q \in Range(new)
      BY <2>1, <2>2, <3>1
    <3>2. CASE q \notin Range(new)
      <4>1. q \in ring /\ positionToNode'[q] = positionToNode[q] /\ positionToNode[q] \in Members
        BY <2>1, <3>2 DEF RingOK
      <4>2. nodeToPositions'[positionToNode[q]] = nodeToPositions[positionToNode[q]]
        BY <1>2, <2>1, <4>1
      <4> QED BY <4>1, <4>2 DEF RingOK
    <3> QED BY <3>1, <3>2
  <2> QED BY <2>3, <2>4, <2>5, <2>6 DEF RingOK
<1> QED BY <1>1, <1>2

LEMMA RemoveNodeKeeps == ASSUME RingOK, NEW node \in Nodes, RemoveNode(node) PROVE RingOK'
<1>1. CASE node \notin Members
  BY <1>1 DEF RemoveNode, ringVars, RingOK, Members
<1>2. CASE node \in Members
  <2> DEFINE old == Range(nodeToPositions[node])
  <2>1. /\ positionToNode' = [q \in ring \ old |-> positionToNode[q]]
        /\ nodeToPositions' = [n \in Members \ {node} |-> nodeToPositions[n]]
        /\ ring' = ring \ old
    BY <1>2 DEF RemoveNode, RingOK
  <2>2. \A q \in ring : q \in old <=> positionToNode[q] = node
    <3>1. old = {nodeToPositions[node][i] : i \in 1 .. VirtualNodes}
      BY <1>2 DEF Range, RingOK
    <3> HIDE DEF old
    <3> QED BY <1>2, <3>1 DEF RingOK
  <2> HIDE DEF old
  <2>3. Members' = Members \ {node} /\ Members' \subseteq Nodes
    BY <2>1 DEF Members, RingOK
  <2>4. /\ ring' \subseteq Positions
        /\ nodeToPositions' \in [Members' -> [1 .. VirtualNodes -> Positions]]
        /\ positionToNode' \in [ring' -> Members']
    BY <2>1, <2>2, <2>3 DEF RingOK
  <2>5. ASSUME NEW n \in Members', NEW i \in 1 .. VirtualNodes
        PROVE  /\ nodeToPositions'[n][i] \in ring' /\ positionToNode'[nodeToPositions'[n][i]] = n
               /\ nodeToPositions'[n][i] \in Range(Hash[n][i])
    <3>1. n \in Members /\ n # node /\ nodeToPositions'[n] = nodeToPositions[n]
      BY <2>1, <2>3
    <3>2. /\ nodeToPositions[n][i] \in ring /\ positionToNode[nodeToPositions[n][i]] = n
          /\ nodeToPositions[n][i] \in Range(Hash[n][i])
      BY <3>1 DEF RingOK
    <3> QED BY <2>1, <2>2, <3>1, <3>2
  <2>6. ASSUME NEW q \in ring'
        PROVE  \E i \in 1 .. VirtualNodes : nodeToPositions'[positionToNode'[q]][i] = q
    <3>1. /\ q \in ring /\ positionToNode[q] # node /\ positionToNode'[q] = positionToNode[q]
          /\ positionToNode[q] \in Members
      BY <2>1, <2>2 DEF RingOK
    <3>2. nodeToPositions'[positionToNode[q]] = nodeToPositions[positionToNode[q]]
      BY <2>1, <3>1
    <3> QED BY <3>1, <3>2 DEF RingOK
  <2> QED BY <2>3, <2>4, <2>5, <2>6 DEF RingOK
<1> QED BY <1>1, <1>2

----------------------------------------------------------------------------
(* The walk round the ring.                                                *)

\* The order in which a walk meets positions is total.
LEMMA AheadIsTotal ==
    ASSUME NEW position \in Nat, NEW q \in Nat, NEW r \in Nat
    PROVE  /\ ~Ahead(position, q, q)
           /\ Ahead(position, q, r) => ~Ahead(position, r, q)
           /\ q # r => Ahead(position, q, r) \/ Ahead(position, r, q)
           /\ \A s \in Nat : Ahead(position, q, r) /\ Ahead(position, r, s) => Ahead(position, q, s)
BY DEF Ahead

\* Of some positions, the walk meets one first.
LEMMA FirstAhead ==
    ASSUME NEW position \in Nat, NEW S \in SUBSET Nat, S # {}
    PROVE  \E q \in S : \A r \in S \ {q} : Ahead(position, q, r)
<1> DEFINE past == {q \in S : q > position}
<1>1. CASE past = {}
  <2>1. Min(S) \in S /\ \A r \in S : Min(S) <= r
    BY MinOfSet
  <2>2. \A r \in S : r \in Nat /\ ~(r > position)
    BY <1>1
  <2>3. ASSUME NEW r \in S, r # Min(S) PROVE Ahead(position, Min(S), r)
    <3>1. r \in Nat /\ Min(S) \in Nat /\ Min(S) <= r /\ ~(r > position) /\ ~(Min(S) > position)
      BY <2>1, <2>2
    <3> QED BY <2>3, <3>1 DEF Ahead
  <2> QED BY <2>1, <2>3
<1>2. CASE past # {}
  <2>1. past \in SUBSET Nat
    OBVIOUS
  <2>2. Min(past) \in past /\ \A r \in past : Min(past) <= r
    <3> HIDE DEF past
    <3> QED BY <1>2, <2>1, MinOfSet
  <2>3. Min(past) \in S /\ Min(past) > position /\ Min(past) \in Nat
    BY <2>2
  <2>4. ASSUME NEW r \in S, r # Min(past) PROVE Ahead(position, Min(past), r)
    <3>1. r \in Nat
      OBVIOUS
    <3>2. r > position => Min(past) <= r
      BY <2>2
    <3> HIDE DEF past
    <3> QED BY <2>3, <2>4, <3>1, <3>2 DEF Ahead
  <2> QED BY <2>3, <2>4
<1> QED BY <1>1, <1>2

\* The walk meets every member for the first time at one position.
LEMMA FirstsAreMembers ==
    ASSUME RingOK, NEW position \in Positions
    PROVE  /\ Firsts(position) \subseteq ring /\ ring \subseteq Nat
           /\ IsFiniteSet(Firsts(position)) /\ Cardinality(Firsts(position)) = Cardinality(Members)
           /\ \A q, r \in Firsts(position) : positionToNode[q] = positionToNode[r] => q = r
           /\ \A n \in Members : \E q \in Firsts(position) : positionToNode[q] = n
<1> USE RingAssumption
<1>1. Firsts(position) \subseteq ring /\ ring \subseteq Nat /\ position \in Nat
  BY DEF Firsts, RingOK
<1>2. \A q, r \in Firsts(position) : positionToNode[q] = positionToNode[r] => q = r
  <2> SUFFICES ASSUME NEW q \in Firsts(position), NEW r \in Firsts(position),
                      positionToNode[q] = positionToNode[r], q # r
               PROVE  FALSE
    OBVIOUS
  <2>1. Ahead(position, q, r) /\ Ahead(position, r, q)
    BY <1>1 DEF Firsts
  <2>2. q \in Nat /\ r \in Nat
    BY <1>1
  <2> QED BY <1>1, <2>1, <2>2, AheadIsTotal
<1>3. ASSUME NEW n \in Members PROVE \E q \in Firsts(position) : positionToNode[q] = n
  <2> DEFINE own == {q \in ring : positionToNode[q] = n}
  <2>1. own \in SUBSET Nat
    BY <1>1
  <2>2. own # {}
    <3>1. 1 \in 1 .. VirtualNodes
      OBVIOUS
    <3>2. nodeToPositions[n][1] \in own
      BY <3>1 DEF RingOK
    <3> QED BY <3>2
  <2>3. PICK q \in own : \A r \in own \ {q} : Ahead(position, q, r)
    <3> HIDE DEF own
    <3> QED BY <1>1, <2>1, <2>2, FirstAhead
  <2>4. q \in Firsts(position)
    BY <2>3 DEF Firsts
  <2> QED BY <2>3, <2>4
<1>4. IsFiniteSet(Firsts(position)) /\ Cardinality(Firsts(position)) = Cardinality(Members)
  <2> DEFINE owner == [q \in Firsts(position) |-> positionToNode[q]]
  <2>1. owner \in Injection(Firsts(position), Members)
    BY <1>1, <1>2 DEF Injection, IsInjective, RingOK
  <2>2. owner \in Surjection(Firsts(position), Members)
    <3>1. owner \in [Firsts(position) -> Members]
      BY <1>1 DEF RingOK
    <3>2. \A n \in Members : \E q \in Firsts(position) : owner[q] = n
      BY <1>3
    <3> QED BY <3>1, <3>2 DEF Surjection
  <2>3. IsFiniteSet(Members)
    BY FS_Subset DEF RingOK
  <2> HIDE DEF owner
  <2> QED BY <2>1, <2>2, <2>3, FS_Injection
<1> QED BY <1>1, <1>2, <1>3, <1>4

\* How many of some positions the walk meets before one.
Rank(position, firsts, q) == Cardinality({r \in firsts : Ahead(position, r, q)})

LEMMA RankGrows ==
    ASSUME NEW position \in Nat, NEW firsts \in SUBSET Nat, IsFiniteSet(firsts),
           NEW q \in firsts, NEW r \in firsts
    PROVE  /\ Rank(position, firsts, q) \in 0 .. Cardinality(firsts) - 1
           /\ Ahead(position, q, r) <=> Rank(position, firsts, q) < Rank(position, firsts, r)
           /\ Rank(position, firsts, q) = Rank(position, firsts, r) => q = r
<1> DEFINE before(x) == {y \in firsts : Ahead(position, y, x)}
<1>1. ASSUME NEW x \in firsts
      PROVE  IsFiniteSet(before(x)) /\ Cardinality(before(x)) \in 0 .. Cardinality(firsts) - 1
  <2>1. before(x) \subseteq firsts \ {x}
    BY AheadIsTotal
  <2>2. IsFiniteSet(firsts \ {x}) /\ Cardinality(firsts \ {x}) = Cardinality(firsts) - 1
    BY FS_RemoveElement
  <2> HIDE DEF before
  <2>3. IsFiniteSet(before(x)) /\ Cardinality(before(x)) <= Cardinality(firsts \ {x})
    BY <2>1, <2>2, FS_Subset
  <2>4. Cardinality(before(x)) \in Nat /\ Cardinality(firsts) \in Nat
    BY <2>3, FS_CardinalityType
  <2> QED BY <2>2, <2>3, <2>4
<1>2. ASSUME NEW x \in firsts, NEW y \in firsts, Ahead(position, x, y)
      PROVE  Cardinality(before(x)) < Cardinality(before(y))
  <2>1. \A z \in firsts : Ahead(position, z, x) => Ahead(position, z, y)
    BY <1>2, AheadIsTotal
  <2>2. before(x) \subseteq before(y) /\ x \in before(y) /\ x \notin before(x)
    BY <1>2, <2>1, AheadIsTotal
  <2>3. IsFiniteSet(before(x)) /\ IsFiniteSet(before(y))
    BY <1>1
  <2> HIDE DEF before
  <2>4. Cardinality(before(x)) <= Cardinality(before(y)) /\ Cardinality(before(x)) # Cardinality(before(y))
    BY <2>2, <2>3, FS_Subset
  <2>5. Cardinality(before(x)) \in Nat /\ Cardinality(before(y)) \in Nat
    BY <2>3, FS_CardinalityType
  <2> QED BY <2>4, <2>5
<1>3. q \in Nat /\ r \in Nat /\ (q # r => Ahead(position, q, r) \/ Ahead(position, r, q))
  BY AheadIsTotal
<1>4. Rank(position, firsts, q) = Cardinality(before(q)) /\ Rank(position, firsts, r) = Cardinality(before(r))
  BY DEF Rank
<1>5. Cardinality(before(q)) \in 0 .. Cardinality(firsts) - 1 /\ Cardinality(before(r)) \in Int
  <2> HIDE DEF before
  <2>1. Cardinality(before(r)) \in 0 .. Cardinality(firsts) - 1
    BY <1>1
  <2> QED BY <1>1, <2>1
<1>6. Ahead(position, q, r) => Cardinality(before(q)) < Cardinality(before(r))
  BY <1>2
<1>7. Ahead(position, r, q) => Cardinality(before(r)) < Cardinality(before(q))
  BY <1>2
<1> HIDE DEF before
<1> QED BY <1>3, <1>4, <1>5, <1>6, <1>7

\* Every place of the walk is taken by one position.
LEMMA EveryRank ==
    ASSUME NEW position \in Nat, NEW firsts \in SUBSET Nat, IsFiniteSet(firsts),
           NEW k \in 1 .. Cardinality(firsts)
    PROVE  \E q \in firsts : Rank(position, firsts, q) = k - 1
<1> DEFINE place == [q \in firsts |-> Rank(position, firsts, q) + 1]
<1>1. Cardinality(firsts) \in Nat
  BY FS_CardinalityType
<1>2. \A q \in firsts : Rank(position, firsts, q) \in 0 .. Cardinality(firsts) - 1
  BY RankGrows
<1>3. place \in [firsts -> 1 .. Cardinality(firsts)]
  BY <1>1, <1>2
<1>4. ASSUME NEW q \in firsts, NEW r \in firsts, place[q] = place[r] PROVE q = r
  <2>1. Rank(position, firsts, q) = Rank(position, firsts, r)
    BY <1>1, <1>2, <1>4
  <2> QED BY <2>1, RankGrows
<1>5. place \in Injection(firsts, 1 .. Cardinality(firsts))
  BY <1>3, <1>4 DEF Injection, IsInjective
<1>6. /\ IsFiniteSet(1 .. Cardinality(firsts))
      /\ Cardinality(1 .. Cardinality(firsts)) = Cardinality(firsts)
  BY <1>1, FS_Interval
<1>7. place \in Surjection(firsts, 1 .. Cardinality(firsts))
  <2> HIDE DEF place
  <2> QED BY <1>5, <1>6, FS_Injection
<1>8. PICK q \in firsts : place[q] = k
  <2> HIDE DEF place
  <2> QED BY <1>7 DEF Surjection
<1> QED BY <1>1, <1>2, <1>8

\* The owner at a place of GetNodes is that of the position with this rank.
At(position, k) ==
    CHOOSE q \in Firsts(position) : Cardinality({r \in Firsts(position) : Ahead(position, r, q)}) = k - 1

LEMMA Walk ==
    ASSUME RingOK, NEW position \in Positions, NEW count \in Nat, count >= 1,
           NEW size, size = Min({count, Cardinality(Members)})
    PROVE  /\ size \in Nat /\ size <= Cardinality(Members)
           /\ GetNodes(position, count) = [k \in 1 .. size |-> positionToNode[At(position, k)]]
           /\ \A k \in 1 .. size : /\ At(position, k) \in Firsts(position)
                                   /\ Rank(position, Firsts(position), At(position, k)) = k - 1
<1> USE RingAssumption
<1>1. Cardinality(Members) \in Nat
  BY FS_Subset, FS_CardinalityType DEF RingOK
<1>2. size = IF count <= Cardinality(Members) THEN count ELSE Cardinality(Members)
  BY <1>1, LeastOfTwo
<1>3. GetNodes(position, count) = [k \in 1 .. size |-> positionToNode[At(position, k)]]
  BY DEF GetNodes, OwnersOf, At
<1>4. ASSUME NEW k \in 1 .. size
      PROVE  /\ At(position, k) \in Firsts(position)
             /\ Rank(position, Firsts(position), At(position, k)) = k - 1
  <2>1. /\ position \in Nat /\ Firsts(position) \in SUBSET Nat /\ IsFiniteSet(Firsts(position))
        /\ k \in 1 .. Cardinality(Firsts(position))
    BY <1>1, <1>2, FirstsAreMembers
  <2>2. \E q \in Firsts(position) : Rank(position, Firsts(position), q) = k - 1
    BY <2>1, EveryRank
  <2> QED BY <2>2 DEF At, Rank
<1>5. size \in Nat /\ size <= Cardinality(Members)
  BY <1>1, <1>2
<1> QED BY <1>3, <1>4, <1>5

LEMMA RingReplicas == RingOK => ReplicasDistinct
<1> SUFFICES ASSUME RingOK, NEW position \in Positions, NEW count \in 1 .. Cardinality(Nodes)
             PROVE  LET replicas == GetNodes(position, count)
                    IN  /\ Len(replicas) = Min({count, Cardinality(Members)})
                        /\ IsInjective(replicas)
                        /\ Range(replicas) \subseteq Members
  BY DEF ReplicasDistinct
<1> DEFINE size == Min({count, Cardinality(Members)})
           replicas == GetNodes(position, count)
<1> USE RingAssumption
<1>1. /\ size \in Nat
      /\ replicas = [k \in 1 .. size |-> positionToNode[At(position, k)]]
      /\ \A k \in 1 .. size : /\ At(position, k) \in Firsts(position)
                              /\ Rank(position, Firsts(position), At(position, k)) = k - 1
  <2>1. count \in Nat /\ count >= 1
    <3>1. Cardinality(Nodes) \in Nat
      BY FS_CardinalityType
    <3> QED BY <3>1
  <2>2. size = Min({count, Cardinality(Members)})
    OBVIOUS
  <2> HIDE DEF size
  <2> QED BY <2>1, <2>2, Walk
<1> HIDE DEF size, replicas
<1>2. replicas \in [1 .. size -> Members]
  BY <1>1, FirstsAreMembers DEF RingOK
<1>3. Len(replicas) = size
  <2>1. replicas \in Seq(Members)
    BY <1>1, <1>2
  <2> QED BY <1>1, <1>2, <2>1, LenProperties
<1>4. ASSUME NEW j \in 1 .. size, NEW k \in 1 .. size, replicas[j] = replicas[k]
      PROVE  j = k
  <2>1. At(position, j) = At(position, k)
    BY <1>1, <1>4, FirstsAreMembers
  <2>2. j - 1 = k - 1
    BY <1>1, <2>1
  <2> QED BY <2>2
<1>5. IsInjective(replicas)
  BY <1>2, <1>4 DEF IsInjective
<1>6. Range(replicas) \subseteq Members
  BY <1>2 DEF Range
<1> QED BY <1>3, <1>5, <1>6 DEF size, replicas

\* GetNode looks at or after the position, GetNodes after it: the same if the key does
\* not fall on a virtual node.
LEMMA RingPrimary == RingOK => PrimaryFirst
<1> SUFFICES ASSUME RingOK, NEW position \in Positions, position \notin ring, Members # {}
             PROVE  GetNode(position) = GetNodes(position, 1)[1]
  BY DEF PrimaryFirst, RingOK
<1> USE RingAssumption
<1> DEFINE past == {q \in ring : q >= position}
           first == IF past = {} THEN Min(ring) ELSE Min(past)
<1>1. position \in Nat /\ ring \in SUBSET Nat /\ ring # {}
  <2>1. PICK n \in Members : TRUE
    OBVIOUS
  <2>2. PICK q \in Firsts(position) : positionToNode[q] = n
    BY FirstsAreMembers
  <2> QED BY <2>2, FirstsAreMembers DEF RingOK
<1>2. /\ first \in ring /\ \A r \in ring : r >= position => first >= position /\ first <= r
      /\ ~(first >= position) => \A r \in ring : first <= r
  <2>1. CASE past = {}
    <3>1. Min(ring) \in ring /\ \A r \in ring : Min(ring) <= r
      BY <1>1, MinOfSet
    <3> QED BY <2>1, <3>1
  <2>2. CASE past # {}
    <3>1. past \in SUBSET Nat
      BY <1>1
    <3>2. Min(past) \in past /\ \A r \in past : Min(past) <= r
      <4> HIDE DEF past
      <4> QED BY <2>2, <3>1, MinOfSet
    <3> QED BY <2>2, <3>2
  <2> QED BY <2>1, <2>2
<1>3. GetNode(position) = positionToNode[first]
  BY DEF GetNode
<1> HIDE DEF past, first
<1>4. ASSUME NEW r \in ring \ {first} PROVE Ahead(position, first, r)
  <2>1. r \in Nat /\ first \in Nat /\ r # first /\ r # position /\ first # position
    BY <1>1, <1>2
  <2>2. CASE r >= position
    BY <1>1, <1>2, <2>1, <2>2 DEF Ahead
  <2>3. CASE ~(r >= position)
    <3>1. CASE first >= position
      BY <1>1, <2>1, <2>3, <3>1 DEF Ahead
    <3>2. CASE ~(first >= position)
      BY <1>1, <1>2, <2>1, <2>3, <3>2 DEF Ahead
    <3> QED BY <3>1, <3>2
  <2> QED BY <2>2, <2>3
<1>5. first \in Firsts(position)
  BY <1>2, <1>4 DEF Firsts
<1>6. Rank(position, Firsts(position), first) = 0
  <2>1. \A r \in Firsts(position) : ~Ahead(position, r, first)
    <3> SUFFICES ASSUME NEW r \in Firsts(position), Ahead(position, r, first)
                 PROVE  FALSE
      OBVIOUS
    <3>1. r \in ring /\ r \in Nat /\ first \in Nat
      BY <1>1, <1>2, FirstsAreMembers
    <3> QED BY <1>1, <1>4, <3>1, AheadIsTotal
  <2>2. {r \in Firsts(position) : Ahead(position, r, first)} = {}
    BY <2>1
  <2> QED BY <2>2, FS_EmptySet DEF Rank
<1>7. /\ GetNodes(position, 1)[1] = positionToNode[At(position, 1)]
      /\ At(position, 1) \in Firsts(position)
      /\ Rank(position, Firsts(position), At(position, 1)) = 0
  <2> DEFINE size == Min({1, Cardinality(Members)})
  <2>1. Cardinality(Members) \in Nat /\ Cardinality(Members) >= 1
    <3>1. IsFiniteSet(Members)
      BY FS_Subset DEF RingOK
    <3>2. Cardinality(Members) \in Nat /\ Cardinality(Members) # 0
      BY <3>1, FS_EmptySet, FS_CardinalityType
    <3> QED BY <3>2
  <2>2. size = 1
    BY <2>1, LeastOfTwo
  <2>3. /\ GetNodes(position, 1) = [k \in 1 .. size |-> positionToNode[At(position, k)]]
        /\ \A k \in 1 .. size : /\ At(position, k) \in Firsts(position)
                                /\ Rank(position, Firsts(position), At(position, k)) = k - 1
    <3>1. size = Min({1, Cardinality(Members)})
      OBVIOUS
    <3> HIDE DEF size
    <3> QED BY <3>1, Walk
  <2> HIDE DEF size
  <2> QED BY <2>2, <2>3
<1>8. At(position, 1) = first
  <2>1. position \in Nat /\ Firsts(position) \in SUBSET Nat /\ IsFiniteSet(Firsts(position))
    BY <1>1, FirstsAreMembers
  <2> QED BY <1>5, <1>6, <1>7, <2>1, RankGrows
<1> QED BY <1>3, <1>7, <1>8

\* Whom the walk meets before whom.
Precedes(position, a, b) ==
    \E q, r \in Firsts(position) :
        positionToNode[q] = a /\ positionToNode[r] = b /\ Ahead(position, q, r)

OrderKnown ==
    \A position \in Positions : \A a, b \in Members :
        InOrder(GetNodes(position, Cardinality(Nodes)), a, b) <=> Precedes(position, a, b)

LEMMA ReplicasInOrder == RingOK => OrderKnown
<1> SUFFICES ASSUME RingOK, NEW position \in Positions, NEW a \in Members, NEW b \in Members
             PROVE  InOrder(GetNodes(position, Cardinality(Nodes)), a, b) <=> Precedes(position, a, b)
  BY DEF OrderKnown
<1> USE RingAssumption
<1> DEFINE replicas == GetNodes(position, Cardinality(Nodes))
           firsts == Firsts(position)
           size == Cardinality(Members)
<1>1. /\ position \in Nat /\ firsts \in SUBSET Nat /\ IsFiniteSet(firsts)
      /\ Cardinality(firsts) = size /\ size \in Nat
  <2>1. IsFiniteSet(Members)
    BY FS_Subset DEF RingOK
  <2> QED BY <2>1, FirstsAreMembers, FS_CardinalityType
<1>2. /\ replicas = [k \in 1 .. size |-> positionToNode[At(position, k)]]
      /\ \A k \in 1 .. size : At(position, k) \in firsts /\ Rank(position, firsts, At(position, k)) = k - 1
  <2>1. Cardinality(Nodes) \in Nat /\ size <= Cardinality(Nodes)
    BY FS_Subset, FS_CardinalityType DEF RingOK
  <2>2. size >= 1
    <3>1. IsFiniteSet(Members)
      BY FS_Subset DEF RingOK
    <3>2. size # 0
      BY <3>1, FS_EmptySet
    <3> QED BY <1>1, <3>2
  <2> DEFINE least == Min({Cardinality(Nodes), size})
  <2>3. least = size
    BY <1>1, <2>1, LeastOfTwo
  <2>4. Cardinality(Nodes) >= 1
    BY <1>1, <2>1, <2>2
  <2>5. /\ replicas = [k \in 1 .. least |-> positionToNode[At(position, k)]]
        /\ \A k \in 1 .. least : At(position, k) \in firsts /\ Rank(position, firsts, At(position, k)) = k - 1
    <3>1. least = Min({Cardinality(Nodes), Cardinality(Members)})
      OBVIOUS
    <3> HIDE DEF least
    <3> QED BY <2>1, <2>4, <3>1, Walk
  <2> HIDE DEF least, replicas, firsts, size
  <2> QED BY <2>3, <2>5
<1>3. ASSUME InOrder(replicas, a, b) PROVE Precedes(position, a, b)
  <2>1. PICK i \in 1 .. size, j \in 1 .. size : i < j /\ replicas[i] = a /\ replicas[j] = b
    <3> HIDE DEF replicas, size
    <3> QED BY <1>2, <1>3 DEF InOrder
  <2> DEFINE q == At(position, i)
             r == At(position, j)
  <2>2. /\ q \in firsts /\ r \in firsts /\ positionToNode[q] = a /\ positionToNode[r] = b
        /\ Rank(position, firsts, q) = i - 1 /\ Rank(position, firsts, r) = j - 1
    <3> HIDE DEF replicas, firsts, size
    <3> QED BY <1>2, <2>1
  <2>3. Rank(position, firsts, q) < Rank(position, firsts, r)
    BY <2>1, <2>2
  <2>4. Ahead(position, q, r)
    <3> HIDE DEF firsts, q, r
    <3> QED BY <1>1, <2>2, <2>3, RankGrows
  <2> QED BY <2>2, <2>4 DEF Precedes
<1>4. ASSUME Precedes(position, a, b) PROVE InOrder(replicas, a, b)
  <2>1. PICK q \in firsts, r \in firsts :
            positionToNode[q] = a /\ positionToNode[r] = b /\ Ahead(position, q, r)
    BY <1>4 DEF Precedes
  <2> DEFINE i == Rank(position, firsts, q) + 1
             j == Rank(position, firsts, r) + 1
  <2>2. i \in 1 .. size /\ j \in 1 .. size /\ i < j
    <3>1. /\ Rank(position, firsts, q) \in 0 .. size - 1 /\ Rank(position, firsts, r) \in 0 .. size - 1
          /\ Rank(position, firsts, q) < Rank(position, firsts, r)
      <4> HIDE DEF firsts, size
      <4> QED BY <1>1, <2>1, RankGrows
    <3> QED BY <1>1, <3>1
  <2>3. At(position, i) = q /\ At(position, j) = r
    <3>1. Rank(position, firsts, At(position, i)) = i - 1 /\ At(position, i) \in firsts
      <4> HIDE DEF i, firsts, size
      <4> QED BY <1>2, <2>2
    <3>2. Rank(position, firsts, At(position, j)) = j - 1 /\ At(position, j) \in firsts
      <4> HIDE DEF j, firsts, size
      <4> QED BY <1>2, <2>2
    <3>3. Rank(position, firsts, q) \in Int /\ Rank(position, firsts, r) \in Int
      <4>1. Rank(position, firsts, q) \in 0 .. size - 1 /\ Rank(position, firsts, r) \in 0 .. size - 1
        <5> HIDE DEF firsts, size
        <5> QED BY <1>1, RankGrows
      <4> QED BY <4>1
    <3>4. i - 1 = Rank(position, firsts, q) /\ j - 1 = Rank(position, firsts, r)
      BY <3>3
    <3> HIDE DEF firsts, i, j
    <3> QED BY <1>1, <3>1, <3>2, <3>4, RankGrows
  <2>4. replicas[i] = a /\ replicas[j] = b /\ DOMAIN replicas = 1 .. size
    <3> HIDE DEF replicas, i, j, size
    <3> QED BY <1>2, <2>1, <2>2, <2>3
  <2> HIDE DEF replicas, i, j
  <2> QED BY <2>2, <2>4 DEF InOrder
<1> QED BY <1>3, <1>4

\* A member that neither comes nor goes keeps its positions.
LEMMA PositionsStay ==
    ASSUME RingOK, RetriesSuffice, NEW node \in Nodes, AddNode(node) \/ RemoveNode(node)
    PROVE  \A a \in Members \intersect Members' : \A q :
               q \in ring /\ positionToNode[q] = a <=> q \in ring' /\ positionToNode'[q] = a
<1> SUFFICES ASSUME NEW a \in Members, a \in Members', NEW q
             PROVE  q \in ring /\ positionToNode[q] = a <=> q \in ring' /\ positionToNode'[q] = a
  OBVIOUS
<1>1. CASE UNCHANGED ringVars
  BY <1>1 DEF ringVars
<1>2. CASE node \notin Members /\ AddNode(node)
  <2>1. PICK new \in [1 .. VirtualNodes -> Positions] :
            /\ IsPlacement(new, node)
            /\ positionToNode' = [x \in DOMAIN positionToNode \union Range(new) |->
                                     IF x \in Range(new) THEN node ELSE positionToNode[x]]
            /\ ring' = ring \union Range(new)
    BY <1>2 DEF AddNode
  <2>2. node \in Nodes \ Members /\ a # node
    BY <1>2
  <2>3. \A i \in 1 .. VirtualNodes : new[i] \notin ring
    BY <2>1, <2>2, FreshPositions
  <2>4. \A x \in Range(new) : x \notin ring
    BY <2>3 DEF Range
  <2>5. DOMAIN positionToNode = ring
    BY DEF RingOK
  <2> QED BY <2>1, <2>2, <2>4, <2>5
<1>3. CASE node \in Members /\ RemoveNode(node)
  <2> DEFINE old == Range(nodeToPositions[node])
  <2>1. /\ positionToNode' = [x \in ring \ old |-> positionToNode[x]]
        /\ ring' = ring \ old
        /\ nodeToPositions' = [n \in Members \ {node} |-> nodeToPositions[n]]
    BY <1>3 DEF RemoveNode, RingOK
  <2>2. old = {nodeToPositions[node][i] : i \in 1 .. VirtualNodes}
    BY <1>3 DEF Range, RingOK
  <2>3. \A x \in old : positionToNode[x] = node
    BY <1>3, <2>2 DEF RingOK
  <2> HIDE DEF old
  <2>4. a # node
    <3>1. Members' = Members \ {node}
      BY <2>1 DEF Members
    <3> QED BY <3>1
  <2> QED BY <2>1, <2>3, <2>4
<1> QED BY <1>1, <1>2, <1>3 DEF AddNode, RemoveNode

\* Members are met in an order that only their own positions decide.
LEMMA OrderStays ==
    ASSUME RingOK, RingOK', OrderKnown, OrderKnown', RetriesSuffice,
           NEW node \in Nodes, AddNode(node) \/ RemoveNode(node)
    PROVE  \A position \in Positions : \A a, b \in Members \intersect Members' :
               InOrder(GetNodes(position, Cardinality(Nodes)), a, b)
                   <=> InOrder(GetNodes(position, Cardinality(Nodes))', a, b)
<1> SUFFICES ASSUME NEW position \in Positions, NEW a \in Members, a \in Members',
                    NEW b \in Members, b \in Members'
             PROVE  InOrder(GetNodes(position, Cardinality(Nodes)), a, b)
                        <=> InOrder(GetNodes(position, Cardinality(Nodes))', a, b)
  OBVIOUS
<1>1. ASSUME NEW n \in Members, n \in Members', NEW q
      PROVE  q \in Firsts(position) /\ positionToNode[q] = n
                 <=> q \in Firsts(position)' /\ positionToNode'[q] = n
  <2>1. \A x : x \in ring /\ positionToNode[x] = n <=> x \in ring' /\ positionToNode'[x] = n
    BY <1>1, PositionsStay
  <2> QED BY <2>1 DEF Firsts, Ahead
<1>2. Precedes(position, a, b) <=> Precedes(position, a, b)'
  BY <1>1 DEF Precedes, Ahead
<1>3. InOrder(GetNodes(position, Cardinality(Nodes)), a, b) <=> Precedes(position, a, b)
  BY DEF OrderKnown
<1>4. InOrder(GetNodes(position, Cardinality(Nodes)), a, b)' <=> Precedes(position, a, b)'
  BY DEF OrderKnown
<1>5. InOrder(GetNodes(position, Cardinality(Nodes)), a, b)'
          <=> InOrder(GetNodes(position, Cardinality(Nodes))', a, b)
  BY DEF InOrder
<1> QED BY <1>2, <1>3, <1>4, <1>5

LEMMA RingStep ==
    ASSUME [Next]_vars
    PROVE  UNCHANGED ringVars \/ \E node \in Nodes : AddNode(node) \/ RemoveNode(node)
BY DEF Next, UploadStep, BeginUpload, Read, ReadFails, NextChunk, StoreChunk, AddBackend,
       RemoveBackend, Probe, HangUp, NodeDown, NodeUp, vars, clusterVars

LEMMA RingKept == RetriesSuffice /\ RingOK /\ [Next]_vars => RingOK'
<1> SUFFICES ASSUME RetriesSuffice, RingOK, [Next]_vars PROVE RingOK'
  OBVIOUS
<1>1. CASE UNCHANGED ringVars
  BY <1>1 DEF ringVars, RingOK, Members
<1> QED BY <1>1, RingStep, AddNodeKeeps, RemoveNodeKeeps

LEMMA RingStart == Init => RingOK
<1> SUFFICES ASSUME Init PROVE RingOK
  OBVIOUS
<1>1. ring = {} /\ positionToNode = <<>> /\ nodeToPositions = <<>>
  BY DEF Init, RingInit
<1>2. DOMAIN nodeToPositions = {} /\ DOMAIN positionToNode = {}
  BY <1>1
<1>3. positionToNode \in [ring -> Members] /\ nodeToPositions \in [Members -> [1 .. VirtualNodes -> Positions]]
  BY <1>1, <1>2 DEF Members
<1> QED BY <1>1, <1>2, <1>3 DEF RingOK, Members

\* Every chunk gets as many different replicas as asked for and as there are nodes, for
\* any nodes, hash function and history of the ring (ReplicasDistinct, GetNodes).
THEOREM DistinctReplicas == ASSUME RetriesSuffice PROVE Spec => []ReplicasDistinct
<1>1. RingOK /\ [Next]_vars => RingOK'
  BY RingKept
<1> QED BY <1>1, RingStart, RingReplicas, PTL DEF Spec

\* GetNode is the first of GetNodes for every key that does not fall on a virtual node
\* (PrimaryFirst).
THEOREM PrimaryIsFirst == ASSUME RetriesSuffice PROVE Spec => []PrimaryFirst
<1>1. RingOK /\ [Next]_vars => RingOK'
  BY RingKept
<1> QED BY <1>1, RingStart, RingPrimary, PTL DEF Spec

\* A node that comes or goes does not disturb the order of the others for any key
\* (OthersStay, AddNode, RemoveNode).
THEOREM MinimalRedistribution == ASSUME RetriesSuffice PROVE Spec => OthersStay
<1> DEFINE Undisturbed ==
        ring' # ring =>
           \A position \in Positions : \A a, b \in Members \intersect Members' :
              InOrder(GetNodes(position, Cardinality(Nodes)), a, b)
                  <=> InOrder(GetNodes(position, Cardinality(Nodes))', a, b)
<1>1. RingOK /\ RingOK' /\ OrderKnown /\ OrderKnown' /\ [Next]_vars => [Undisturbed]_ringVars
  BY RingStep, OrderStays DEF ringVars
<1>2. OthersStay <=> [][Undisturbed]_ringVars
  BY DEF OthersStay
<1>3. RingOK /\ [Next]_vars => RingOK'
  BY RingKept
<1> HIDE DEF Undisturbed
<1> QED BY <1>1, <1>2, <1>3, RingStart, ReplicasInOrder, PTL DEF Spec

----------------------------------------------------------------------------
(* The upload: what is read, what is stored, and where the reader is.      *)

UploadTypeOK ==
    /\ config \in Configs
    /\ body \in Nat /\ consumed \in Nat
    /\ buffer \in Seq(Nat)
    /\ done \in BOOLEAN
    /\ chunks \in Seq(Range(chunks))

\* The chunks and the buffer are what was taken from the reader, in order.  Once a
\* chunk was shorter than the others there is nothing left to take.
CutOK ==
    /\ upc = "starting" => consumed = 0 /\ buffer = <<>> /\ chunks = <<>> /\ ~done
    /\ consumed <= body
    /\ done => consumed = body
    /\ Len(buffer) <= config.chunkSize
    /\ buffer = Bytes(Len(chunks) * config.chunkSize + 1, Len(buffer))
    /\ \/ consumed = Len(chunks) * config.chunkSize + Len(buffer)
       \/ done /\ buffer = <<>> /\ body <= Len(chunks) * config.chunkSize
    /\ upc = "placing" => buffer # <<>> /\ (done \/ Full(buffer))
    /\ upc = "committed" => body <= Len(chunks) * config.chunkSize

UploadInv == UploadTypeOK /\ CutOK /\ \A i \in DOMAIN chunks : ChunkOK(i)

\* The bytes from one number on are a sequence, and those that follow continue it.
LEMMA BytesOf ==
    ASSUME NEW first \in Nat, NEW count \in Nat
    PROVE  Bytes(first, count) \in Seq(Nat) /\ Len(Bytes(first, count)) = count
<1>1. Bytes(first, count) \in [1 .. count -> Nat]
  BY DEF Bytes
<1> QED BY <1>1

LEMMA BytesContinue ==
    ASSUME NEW first \in Nat, NEW count \in Nat, NEW more \in Nat
    PROVE  Bytes(first, count) \o Bytes(first + count, more) = Bytes(first, count + more)
<1> DEFINE a == Bytes(first, count)
           b == Bytes(first + count, more)
           c == Bytes(first, count + more)
<1>1. /\ a \in Seq(Nat) /\ Len(a) = count
      /\ b \in Seq(Nat) /\ Len(b) = more
      /\ c \in Seq(Nat) /\ Len(c) = count + more
  <2>1. first + count \in Nat /\ count + more \in Nat
    OBVIOUS
  <2> QED BY <2>1, BytesOf
<1>2. /\ a \o b \in Seq(Nat) /\ Len(a \o b) = count + more
      /\ \A i \in 1 .. count + more : (a \o b)[i] = IF i <= count THEN a[i] ELSE b[i - count]
  <2> HIDE DEF a, b
  <2>1. /\ a \o b \in Seq(Nat) /\ Len(a \o b) = Len(a) + Len(b)
        /\ \A i \in 1 .. Len(a) + Len(b) :
              (a \o b)[i] = IF i <= Len(a) THEN a[i] ELSE b[i - Len(a)]
    BY <1>1, ConcatProperties, Zenon
  <2> QED BY <1>1, <2>1
<1>3. \A i \in 1 .. count + more : (a \o b)[i] = c[i]
  BY <1>2 DEF Bytes
<1> HIDE DEF a, b, c
<1>4. a \o b = c
  BY <1>1, <1>2, <1>3, SeqEqual
<1> QED BY <1>4 DEF a, b, c

LEMMA ConfigTyped ==
    ASSUME PositiveChunks, UploadTypeOK
    PROVE  config.chunkSize \in Nat /\ config.chunkSize >= 1
BY UploadAssumption DEF PositiveChunks, UploadTypeOK

LEMMA UploadTypeStep == UploadTypeOK /\ PositiveChunks /\ [Next]_vars => UploadTypeOK'
<1> SUFFICES ASSUME UploadTypeOK, PositiveChunks, [Next]_vars
             PROVE  UploadTypeOK'
  OBVIOUS
<1> USE UploadAssumption
<1>1. CASE BeginUpload
  BY <1>1 DEF BeginUpload, clusterVars, UploadTypeOK
<1>2. CASE Read
  <2>1. PICK n \in 0 .. Min({config.chunkSize - Len(buffer), body - consumed}), eof \in BOOLEAN :
            /\ consumed' = consumed + n
            /\ buffer' = buffer \o Bytes(consumed + 1, n)
            /\ done' = eof
    BY <1>2 DEF Read
  <2>2. n \in Nat /\ consumed + 1 \in Nat
    BY DEF UploadTypeOK
  <2>3. Bytes(consumed + 1, n) \in Seq(Nat)
    BY <2>2, BytesOf
  <2>4. buffer' \in Seq(Nat)
    BY <2>1, <2>3, ConcatProperties DEF UploadTypeOK
  <2> QED BY <1>2, <2>1, <2>2, <2>4 DEF Read, clusterVars, UploadTypeOK
<1>3. ASSUME NEW position \in Positions, StoreChunk(position)
      PROVE  UploadTypeOK'
  <2>1. CASE UNCHANGED <<chunks, buffer>>
    BY <1>3, <2>1 DEF StoreChunk, clusterVars, UploadTypeOK
  <2>2. ASSUME NEW chunk, chunks' = Append(chunks, chunk), buffer' = <<>>
        PROVE  UploadTypeOK'
    <3>1. chunks' \in Seq(Range(chunks) \union {chunk})
      <4>1. chunks \in Seq(Range(chunks) \union {chunk})
        BY SeqMonotonic DEF UploadTypeOK
      <4> QED BY <2>2, <4>1, AppendProperties
    <3>2. chunks' \in Seq(Range(chunks'))
      BY <3>1, SeqOfRange
    <3> QED BY <1>3, <2>2, <3>2 DEF StoreChunk, clusterVars, UploadTypeOK
  <2> QED BY <1>3, <2>1, <2>2 DEF StoreChunk
<1>4. CASE ReadFails \/ NextChunk
  BY <1>4 DEF ReadFails, NextChunk, clusterVars, readerVars, UploadTypeOK
<1>5. ASSUME NEW node \in Nodes,
             \/ AddBackend(node) \/ RemoveBackend(node) \/ Probe(node)
             \/ HangUp(node) \/ NodeDown(node) \/ NodeUp(node)
      PROVE  UploadTypeOK'
  BY <1>5 DEF AddBackend, RemoveBackend, Probe, HangUp, NodeDown, NodeUp, clusterVars,
              readerVars, UploadTypeOK
<1>6. CASE UNCHANGED vars
  BY <1>6 DEF vars, clusterVars, readerVars, UploadTypeOK
<1> QED BY <1>1, <1>2, <1>3, <1>4, <1>5, <1>6 DEF Next, UploadStep

LEMMA OneMore ==
    ASSUME NEW n \in Nat, NEW size \in Nat
    PROVE  (n + 1) * size = n * size + size
OBVIOUS

LEMMA CutKept == UploadTypeOK /\ PositiveChunks /\ CutOK /\ [Next]_vars => CutOK'
<1> SUFFICES ASSUME UploadTypeOK, PositiveChunks, CutOK, [Next]_vars
             PROVE  CutOK'
  OBVIOUS
<1> USE UploadAssumption
<1> DEFINE size == config.chunkSize
           taken == Len(chunks) * size
<1>1. /\ size \in Nat /\ size >= 1
      /\ Len(chunks) \in Nat /\ Len(buffer) \in Nat /\ taken \in Nat
      /\ body \in Nat /\ consumed \in Nat
  BY ConfigTyped, LenProperties DEF UploadTypeOK
<1>2. config' = config
  BY DEF Next, UploadStep, BeginUpload, Read, ReadFails, NextChunk, StoreChunk, AddBackend,
         RemoveBackend, Probe, HangUp, NodeDown, NodeUp, vars, clusterVars
<1>3. CASE BeginUpload
  <2>1. consumed = 0 /\ body' \in Nat
    BY <1>3 DEF BeginUpload, CutOK
  <2> QED BY <1>1, <1>2, <1>3, <2>1 DEF BeginUpload, clusterVars, CutOK, Full, Bytes
<1>4. CASE Read
  <2> HIDE DEF size, taken
  <2>1. PICK n \in 0 .. Min({size - Len(buffer), body - consumed}), eof \in BOOLEAN :
            /\ eof => consumed + n = body
            /\ consumed' = consumed + n
            /\ buffer' = buffer \o Bytes(consumed + 1, n)
            /\ done' = eof
    BY <1>4 DEF Read, size
  <2>2. /\ n \in Nat /\ n <= size - Len(buffer) /\ n <= body - consumed
        /\ consumed = taken + Len(buffer)
    <3>1. consumed = taken + Len(buffer)
      BY <1>1, <1>4 DEF Read, CutOK, size, taken
    <3>2. n <= size - Len(buffer) /\ n <= body - consumed
      <4>1. size - Len(buffer) \in Int /\ body - consumed \in Int
        BY <1>1
      <4>2. Len(buffer) <= size /\ consumed <= body
        BY DEF CutOK, size
      <4>3. Min({size - Len(buffer), body - consumed})
                = IF size - Len(buffer) <= body - consumed THEN size - Len(buffer)
                                                           ELSE body - consumed
        BY <4>1, LeastOfTwo, Zenon
      <4>4. n \in 0 .. Min({size - Len(buffer), body - consumed})
        BY <2>1
      <4> QED BY <4>1, <4>3, <4>4
    <3> QED BY <1>1, <2>1, <3>1, <3>2
  <2>3. buffer' = Bytes(taken + 1, Len(buffer) + n) /\ Len(buffer') = Len(buffer) + n
    <3>1. taken + 1 \in Nat /\ consumed + 1 = taken + 1 + Len(buffer)
      BY <1>1, <2>2
    <3>2. buffer = Bytes(taken + 1, Len(buffer))
      BY DEF CutOK, size, taken
    <3>3. Bytes(taken + 1, Len(buffer)) \o Bytes(taken + 1 + Len(buffer), n)
              = Bytes(taken + 1, Len(buffer) + n)
      BY <1>1, <2>2, <3>1, BytesContinue, Zenon
    <3>4. buffer' = Bytes(taken + 1, Len(buffer) + n)
      BY <2>1, <3>1, <3>2, <3>3
    <3> QED BY <1>1, <2>2, <3>1, <3>4, BytesOf
  <2>4. UNCHANGED <<chunks, config, body, upc>> /\ upc = "reading"
    BY <1>4 DEF Read, clusterVars
  <2>5. Len(buffer') <= size /\ consumed' = taken + Len(buffer') /\ consumed' <= body
    <3>1. Len(buffer') = Len(buffer) + n /\ consumed' = consumed + n
      BY <2>1, <2>3
    <3> QED BY <1>1, <2>2, <3>1
  <2>6. done' => consumed' = body'
    BY <2>1, <2>4
  <2> QED BY <2>3, <2>4, <2>5, <2>6 DEF CutOK, size, taken
<1>5. CASE ReadFails
  BY <1>1, <1>5 DEF ReadFails, clusterVars, readerVars, CutOK
<1>6. CASE NextChunk
  <2>1. UNCHANGED <<chunks, config, body, consumed, buffer, done>> /\ upc = "reading"
    BY <1>6 DEF NextChunk, clusterVars, readerVars
  <2>2. CASE buffer = <<>>
    <3>1. upc' = "committed" /\ done
      BY <1>1, <1>6, <2>2 DEF NextChunk, Full
    <3>2. body <= taken
      BY <1>1, <2>2, <3>1 DEF CutOK
    <3> QED BY <2>1, <3>1, <3>2 DEF CutOK
  <2>3. CASE buffer # <<>>
    <3>1. upc' = "placing" /\ (done \/ Full(buffer))
      BY <1>6, <2>3 DEF NextChunk
    <3> QED BY <2>1, <2>3, <3>1 DEF CutOK, Full
  <2> QED BY <2>2, <2>3
<1>7. ASSUME NEW position \in Positions, StoreChunk(position)
      PROVE  CutOK'
  <2>1. UNCHANGED <<config, body, consumed, done>> /\ upc = "placing"
    BY <1>7 DEF StoreChunk, clusterVars
  <2>2. CASE UNCHANGED <<chunks, buffer>> /\ upc' = "failed"
    BY <2>1, <2>2 DEF CutOK
  <2>3. ASSUME NEW chunk, chunks' = Append(chunks, chunk), buffer' = <<>>, upc' = "reading"
        PROVE  CutOK'
    <3>1. Len(chunks') = Len(chunks) + 1
      <4>1. chunks \in Seq(Range(chunks) \union {chunk})
        BY SeqMonotonic DEF UploadTypeOK
      <4> QED BY <2>3, <4>1, AppendProperties
    <3>2. Len(chunks') * size = taken + size
      BY <1>1, <3>1, OneMore
    <3>3. buffer' = Bytes(Len(chunks') * size + 1, 0) /\ Len(buffer') = 0
      BY <2>3 DEF Bytes
    <3>4. \/ consumed = taken + size
          \/ done /\ body <= taken + size
      <4>1. consumed = taken + Len(buffer) /\ Len(buffer) <= size
        BY <2>1 DEF CutOK
      <4>2. CASE Full(buffer)
        BY <1>1, <4>1, <4>2 DEF Full
      <4>3. CASE done
        BY <1>1, <4>1, <4>3 DEF CutOK
      <4> QED BY <2>1, <4>2, <4>3 DEF CutOK
    <3>5. \/ consumed' = Len(chunks') * size + Len(buffer')
          \/ done' /\ buffer' = <<>> /\ body' <= Len(chunks') * size
      BY <1>1, <2>1, <2>3, <3>2, <3>3, <3>4
    <3>6. consumed' <= body' /\ (done' => consumed' = body')
      BY <2>1 DEF CutOK
    <3> QED BY <1>1, <1>2, <2>3, <3>3, <3>5, <3>6 DEF CutOK
  <2> QED BY <1>7, <2>2, <2>3 DEF StoreChunk
<1>8. ASSUME NEW node \in Nodes,
             \/ AddBackend(node) \/ RemoveBackend(node) \/ Probe(node)
             \/ HangUp(node) \/ NodeDown(node) \/ NodeUp(node)
      PROVE  CutOK'
  <2>1. UNCHANGED <<body, consumed, buffer, done, chunks, upc>>
    BY <1>8 DEF AddBackend, RemoveBackend, Probe, HangUp, NodeDown, NodeUp, clusterVars, readerVars
  <2> QED BY <1>2, <2>1 DEF CutOK, Full
<1>9. CASE UNCHANGED vars
  BY <1>9 DEF vars, clusterVars, readerVars, CutOK, Full
<1> QED BY <1>3, <1>4, <1>5, <1>6, <1>7, <1>8, <1>9 DEF Next, UploadStep

LEMMA ChunksKept == UploadInv /\ PositiveChunks /\ [Next]_vars => \A i \in DOMAIN chunks' : ChunkOK(i)'
<1> SUFFICES ASSUME UploadInv, PositiveChunks, [Next]_vars
             PROVE  \A i \in DOMAIN chunks' : ChunkOK(i)'
  OBVIOUS
<1> USE UploadAssumption
<1> DEFINE size == config.chunkSize
           taken == Len(chunks) * size
<1>1. /\ UploadTypeOK /\ CutOK
      /\ size \in Nat /\ size >= 1
      /\ Len(chunks) \in Nat /\ Len(buffer) \in Nat /\ taken \in Nat
      /\ body \in Nat /\ consumed \in Nat
      /\ DOMAIN chunks = 1 .. Len(chunks)
  BY ConfigTyped, LenProperties DEF UploadInv, UploadTypeOK
<1>2. config' = config
  BY DEF Next, UploadStep, BeginUpload, Read, ReadFails, NextChunk, StoreChunk, AddBackend,
         RemoveBackend, Probe, HangUp, NodeDown, NodeUp, vars, clusterVars
<1>3. CASE chunks' = chunks /\ body' = body
  BY <1>2, <1>3 DEF UploadInv, ChunkOK, Quorum
<1>4. CASE BeginUpload
  <2>1. chunks' = chunks /\ chunks = <<>>
    BY <1>1, <1>4 DEF BeginUpload, CutOK
  <2> QED BY <2>1
<1>5. ASSUME NEW position \in Positions, StoreChunk(position)
      PROVE  \A i \in DOMAIN chunks' : ChunkOK(i)'
  <2>1. UNCHANGED <<config, body, consumed, done>> /\ upc = "placing"
    BY <1>5 DEF StoreChunk, clusterVars
  <2>2. ASSUME NEW chunk, chunks' = Append(chunks, chunk),
               chunk.bytes = buffer, chunk.acked \subseteq Range(chunk.intended),
               Quorum(chunk.acked)
        PROVE  \A i \in DOMAIN chunks' : ChunkOK(i)'
    <3>1. chunks \in Seq(Range(chunks) \union {chunk})
      BY <1>1, SeqMonotonic DEF UploadTypeOK
    <3>2. /\ Len(chunks') = Len(chunks) + 1
          /\ \A i \in 1 .. Len(chunks) : chunks'[i] = chunks[i]
          /\ chunks'[Len(chunks) + 1] = chunk
          /\ chunks' \in Seq(Range(chunks) \union {chunk})
      BY <2>2, <3>1, AppendProperties
    <3>3. DOMAIN chunks' = 1 .. Len(chunks) + 1
      BY <3>2, LenProperties
    <3>4. \A i \in 1 .. Len(chunks) : ChunkOK(i)'
      BY <1>1, <1>2, <2>1, <3>2 DEF UploadInv, ChunkOK, Quorum
    <3>5. ASSUME NEW k, k = Len(chunks) + 1
          PROVE  ChunkOK(k)'
      <4>1. (k - 1) * size = taken /\ chunks'[k] = chunk
        BY <1>1, <3>2, <3>5
      <4> HIDE DEF size, taken
      <4>2. /\ consumed = taken + Len(buffer) /\ consumed <= body
            /\ Len(buffer) <= size /\ buffer # <<>> /\ (done => consumed = body)
            /\ done \/ Len(buffer) >= size
            /\ buffer = Bytes(taken + 1, Len(buffer))
        BY <1>1, <2>1 DEF CutOK, Full, size, taken
      <4>3. Len(buffer) > 0
        BY <1>1, <4>2 DEF UploadTypeOK
      <4>4. taken < body
        BY <1>1, <4>2, <4>3
      <4>5. Len(buffer) = Min({size, body - taken})
        <5>1. size \in Int /\ body - taken \in Int
          BY <1>1
        <5>2. Min({size, body - taken}) = IF size <= body - taken THEN size ELSE body - taken
          BY <5>1, LeastOfTwo, Zenon
        <5> QED BY <1>1, <4>2, <5>1, <5>2
      <4>6. chunk.bytes = Bytes(taken + 1, Min({size, body - taken}))
        BY <2>2, <4>2, <4>5
      <4> QED BY <1>2, <2>1, <2>2, <4>1, <4>4, <4>6 DEF ChunkOK, Quorum, size
    <3> QED BY <1>1, <3>3, <3>4, <3>5
  <2>3. CASE chunks' = chunks
    BY <1>3, <2>1, <2>3
  <2>4. CASE chunks' # chunks
    <3>1. PICK acked \in SUBSET (OnlineBackends(GetNodes(position, config.replicationFactor)) \intersect up) :
              /\ Quorum(acked)
              /\ chunks' = Append(chunks, [bytes |-> buffer, acked |-> acked,
                                           intended |-> GetNodes(position, config.replicationFactor)])
      BY <1>5, <2>4 DEF StoreChunk
    <3> DEFINE chunk == [bytes |-> buffer, acked |-> acked,
                         intended |-> GetNodes(position, config.replicationFactor)]
    <3>2. /\ chunks' = Append(chunks, chunk)
          /\ chunk.bytes = buffer /\ chunk.acked = acked
          /\ chunk.intended = GetNodes(position, config.replicationFactor)
      BY <3>1
    <3>3. acked \subseteq Range(chunk.intended)
      BY <3>2 DEF OnlineBackends
    <3> HIDE DEF chunk
    <3> QED BY <2>2, <3>1, <3>2, <3>3
  <2> QED BY <2>3, <2>4
<1>6. CASE Read \/ ReadFails \/ NextChunk
  BY <1>3, <1>6 DEF Read, ReadFails, NextChunk, clusterVars, readerVars
<1>7. ASSUME NEW node \in Nodes,
             \/ AddBackend(node) \/ RemoveBackend(node) \/ Probe(node)
             \/ HangUp(node) \/ NodeDown(node) \/ NodeUp(node)
      PROVE  chunks' = chunks /\ body' = body
  BY <1>7 DEF AddBackend, RemoveBackend, Probe, HangUp, NodeDown, NodeUp, clusterVars, readerVars
<1>8. CASE UNCHANGED vars
  BY <1>3, <1>8 DEF vars, readerVars
<1> QED BY <1>3, <1>4, <1>5, <1>6, <1>7, <1>8 DEF Next, UploadStep

\* Whatever the body's reader returns and however the nodes behave, a committed object
\* is the whole body, in order, with W of its named nodes for every chunk (WholeBody,
\* NextChunk, StoreChunk).  Chunks must have bytes, which the configuration does not
\* make sure of (PositiveChunks): without them NextChunk reports the end at once.
THEOREM UploadedWhole == ASSUME PositiveChunks PROVE Spec => []WholeBody
<1>1. Init => UploadInv
  <2> SUFFICES ASSUME Init PROVE UploadInv
    OBVIOUS
  <2>1. chunks = <<>> /\ DOMAIN chunks = {}
    BY DEF Init
  <2>2. UploadTypeOK
    BY <2>1, EmptySeq DEF Init, UploadTypeOK
  <2>3. Len(buffer) = 0 /\ config.chunkSize \in Nat /\ Len(chunks) = 0
    BY <2>2, ConfigTyped DEF Init
  <2>4. CutOK
    BY <2>1, <2>3 DEF Init, CutOK, Bytes
  <2> QED BY <2>1, <2>2, <2>4 DEF UploadInv
<1>2. UploadInv /\ [Next]_vars => UploadInv'
  BY UploadTypeStep, CutKept, ChunksKept DEF UploadInv
<1>3. UploadInv => WholeBody
  BY DEF UploadInv, CutOK, WholeBody
<1> QED BY <1>1, <1>2, <1>3, PTL DEF Spec

=============================================================================
