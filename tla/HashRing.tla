------------------------------ MODULE HashRing ------------------------------
(***************************************************************************)
(* The consistent-hash ring that decides which nodes hold a chunk          *)
(* (pkg/hashing/consistent.go).  Positions are small numbers instead of    *)
(* the first 32 bits of a SHA-256, so that virtual nodes collide and keys  *)
(* fall on virtual nodes.                                                  *)
(***************************************************************************)
EXTENDS Integers, Sequences, FiniteSetsExt, Functions

CONSTANTS
    Nodes,          \* names of the backends
    Positions,      \* values of hash()
    VirtualNodes,   \* virtualNodes
    Hash            \* per node and virtual node, hash() of its key and of each retry

ASSUME RingAssumption ==
    /\ IsFiniteSet(Nodes)
    /\ Positions \subseteq Nat
    /\ VirtualNodes \in Nat \ {0}
    /\ Hash \in [Nodes -> [1 .. VirtualNodes -> Seq(Positions) \ {<<>>}]]

VARIABLES
    ring,               \* the positions; the order of the slice is that of the numbers
    positionToNode,
    nodeToPositions

ringVars == <<ring, positionToNode, nodeToPositions>>

Members == DOMAIN nodeToPositions

RingInit == ring = {} /\ positionToNode = <<>> /\ nodeToPositions = <<>>

\* The first candidate nobody holds, or the last retry.
FirstFree(candidates, taken) ==
    LET free == {j \in DOMAIN candidates : candidates[j] \notin taken}
    IN  candidates[IF free = {} THEN Len(candidates) ELSE Min(free)]

\* The positions of a new node, chosen one after the other.
IsPlacement(new, node) ==
    \A i \in 1 .. VirtualNodes :
        new[i] = FirstFree(Hash[node][i],
                           DOMAIN positionToNode \union {new[j] : j \in 1 .. i - 1})

AddNode(node) ==
    IF node \in Members THEN UNCHANGED ringVars
    ELSE \E new \in [1 .. VirtualNodes -> Positions] :
            /\ IsPlacement(new, node)
            /\ positionToNode' = [q \in DOMAIN positionToNode \union Range(new) |->
                                     IF q \in Range(new) THEN node ELSE positionToNode[q]]
            /\ ring' = ring \union Range(new)
            /\ nodeToPositions' = [n \in Members \union {node} |->
                                      IF n = node THEN new ELSE nodeToPositions[n]]

RemoveNode(node) ==
    IF node \notin Members THEN UNCHANGED ringVars
    ELSE LET old == Range(nodeToPositions[node])
         IN  /\ positionToNode' = [q \in DOMAIN positionToNode \ old |-> positionToNode[q]]
             /\ nodeToPositions' = [n \in Members \ {node} |-> nodeToPositions[n]]
             /\ ring' = ring \ old

\* Seeded fault: past the end of the ring comes its last position again.
GetNodeNoWrap(position) ==
    LET past == {q \in ring : q >= position}
    IN  positionToNode[IF past = {} THEN Max(ring) ELSE Min(past)]

\* GetNode: the owner of the first position at or after the key's.
GetNode(position) ==
    LET past == {q \in ring : q >= position}
    IN  positionToNode[IF past = {} THEN Min(ring) ELSE Min(past)]

\* Seeded fault: the walk starts at the key's hash modulo the length of the slice.
AheadByIndex(position, q, r) ==
    LET late(p) == Cardinality({x \in ring : x < p}) >= position % Cardinality(ring)
    IN  IF late(q) = late(r) THEN q < r ELSE late(q)

\* A walk round the ring that starts after a key's position meets q before r: it
\* begins with the positions after the key's and goes on with those up to it.
Ahead(position, q, r) ==
    IF (q > position) = (r > position) THEN q < r ELSE q > position

\* Where the walk meets an owner that it has not seen.
Firsts(position) ==
    {q \in ring : \A r \in ring \ {q} : positionToNode[r] = positionToNode[q] => Ahead(position, q, r)}

\* The first count owners of positions in a walk.
OwnersOf(position, firsts, count) ==
    [k \in 1 .. count |->
        positionToNode[CHOOSE q \in firsts : Cardinality({r \in firsts : Ahead(position, r, q)}) = k - 1]]

\* Seeded fault: the walk gives up at the end of the ring instead of wrapping.
GetNodesNoWrap(position, count) ==
    LET reached == {q \in Firsts(position) : q > position}
    IN  OwnersOf(position, reached, Min({count, Cardinality(reached)}))

\* GetNodes: the first count owners on a walk from the key's position, each once.  The
\* code goes on until it has as many as there are nodes, so one turn is enough.
GetNodes(position, count) ==
    OwnersOf(position, Firsts(position), Min({count, Cardinality(Members)}))

----------------------------------------------------------------------------
\* Whichever of their candidates the others hold, a virtual node has one left.  A
\* hundred retries of a hash of 32 bits make this all but certain, and nothing else
\* does: AddNode would take the position of another node.
RetriesSuffice ==
    LET virtual == Nodes \X (1 .. VirtualNodes)
        Candidates(v) == Range(Hash[v[1]][v[2]])
    IN  \A held \in [virtual -> Positions] :
           (\A v \in virtual : held[v] \in Candidates(v)) =>
               \A v \in virtual : \E candidate \in Candidates(v) :
                  \A other \in virtual \ {v} : held[other] # candidate

\* A chunk has as many different replicas as asked for and as there are nodes,
\* wherever its key falls, whatever collided and whoever left (GetNodes).
ReplicasDistinct ==
    \A position \in Positions, count \in 1 .. Cardinality(Nodes) :
        LET replicas == GetNodes(position, count)
        IN  /\ Len(replicas) = Min({count, Cardinality(Members)})
            /\ IsInjective(replicas)
            /\ Range(replicas) \subseteq Members

InOrder(replicas, a, b) ==
    \E i, j \in DOMAIN replicas : i < j /\ replicas[i] = a /\ replicas[j] = b

\* A node that comes or goes takes only its own replicas with it: the other nodes
\* stay in the order they had for every key (TestMinimalRedistribution).
OthersStay ==
    [][ring' # ring =>
       \A position \in Positions : \A a, b \in Members \intersect Members' :
          InOrder(GetNodes(position, Cardinality(Nodes)), a, b)
              <=> InOrder(GetNodes(position, Cardinality(Nodes))', a, b)]_ringVars

\* "GetNode and GetNodes[0] return same result" (TestGetNodeVsGetNodesConsistency),
\* for every key that does not fall on a virtual node.
PrimaryFirst ==
    \A position \in Positions \ DOMAIN positionToNode :
        Members # {} => GetNode(position) = GetNodes(position, 1)[1]

=============================================================================
