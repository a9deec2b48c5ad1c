----------------------- MODULE KBiAssociativeContainer -----------------------
(***************************************************************************)
(* KBiAssociativeContainer (kbihash_p.h) under any sequence of its         *)
(* operations.  unite and fromHash insert the pairs of another hash one by *)
(* one in the hash's own order, so each is a loop whose steps take the     *)
(* remaining pairs in any order; the other operations are single steps.    *)
(***************************************************************************)
EXTENDS KBiHash

CONSTANTS
    Left, Right,    \* the values of the two sides
    CheckedKeys     \* do callers only remove keys that are held, and only
                    \* update a key to a value that is free?

ASSUME ContainerAssumption ==
    /\ CheckedKeys \in BOOLEAN
    /\ DefaultRight \in Right
    /\ DefaultLeft \notin Left

VARIABLES
    hash,           \* the container: [l2r, r2l]
    loop,           \* the operation whose loop is running: "none", "unite", "fromHash"
    todo            \* the pairs of the other hash that the loop has not reached

vars == <<hash, loop, todo>>

\* The hashes another container, or a QHash passed to fromHash, may hold.
Hashes == UNION {[S -> Right] : S \in SUBSET Left}

PairsOf(h) == {<<t, h[t]>> : t \in DOMAIN h}

\* Two left keys never share a right one: the content of another container.
IsOneToOne(h) == \A s, t \in DOMAIN h : h[s] = h[t] => s = t

TypeOK ==
    /\ hash.l2r \in Hashes
    /\ hash.r2l \in UNION {[S -> Left] : S \in SUBSET Right}
    /\ hash = [l2r |-> hash.l2r, r2l |-> hash.r2l]
    /\ loop \in {"none", "unite", "fromHash"}
    /\ todo \subseteq Left \X Right

Init ==
    /\ hash = EmptyContainer
    /\ loop = "none"
    /\ todo = {}

----------------------------------------------------------------------------
(* Single-step operations.                                                 *)

Idle == loop = "none" /\ UNCHANGED <<loop, todo>>

Insert(t, u) == Idle /\ hash' = insert(hash, t, u)

RemoveLeft(t) ==
    /\ Idle
    /\ CheckedKeys => leftContains(hash, t)
    /\ hash' = removeLeft(hash, t)

RemoveRight(u) ==
    /\ Idle
    /\ CheckedKeys => rightContains(hash, u)
    /\ hash' = removeRight(hash, u)

EraseLeft(t) ==
    /\ Idle
    /\ leftContains(hash, t)
    /\ hash' = eraseLeft(hash, t)

EraseRight(u) ==
    /\ Idle
    /\ rightContains(hash, u)
    /\ hash' = eraseRight(hash, u)

UpdateRight(t, u) ==
    /\ Idle
    /\ leftContains(hash, t)
    /\ CheckedKeys => ~rightContains(hash, u)
    /\ hash' = updateRight(hash, t, u)

UpdateLeft(u, t) ==
    /\ Idle
    /\ rightContains(hash, u)
    /\ CheckedKeys => ~leftContains(hash, t)
    /\ hash' = updateLeft(hash, u, t)

Clear == Idle /\ hash' = EmptyContainer

Intersect(other) == Idle /\ hash' = intersect(hash, other)

Subtract(other) == Idle /\ hash' = subtract(hash, other)

----------------------------------------------------------------------------
(* Loops.                                                                  *)

StartUnite(h) ==
    /\ loop = "none"
    /\ IsOneToOne(h)
    /\ loop' = "unite"
    /\ todo' = PairsOf(h)
    /\ UNCHANGED hash

StartFromHash(h) ==
    /\ loop = "none"
    /\ hash' = EmptyContainer
    /\ loop' = "fromHash"
    /\ todo' = PairsOf(h)

\* unite skips the left keys it already holds; fromHash inserts every pair.
LoopStep(p) ==
    /\ loop # "none"
    /\ p \in todo
    /\ todo' = todo \ {p}
    /\ hash' = IF loop = "unite" /\ leftContains(hash, p[1])
               THEN hash
               ELSE insert(hash, p[1], p[2])
    /\ UNCHANGED loop

LoopEnd ==
    /\ loop # "none"
    /\ todo = {}
    /\ loop' = "none"
    /\ UNCHANGED <<hash, todo>>

Next ==
    \/ \E t \in Left, u \in Right :
          Insert(t, u) \/ UpdateRight(t, u) \/ UpdateLeft(u, t) \/ LoopStep(<<t, u>>)
    \/ \E t \in Left : RemoveLeft(t) \/ EraseLeft(t)
    \/ \E u \in Right : RemoveRight(u) \/ EraseRight(u)
    \/ \E keys \in SUBSET Left :
          LET other == [EmptyContainer EXCEPT !.l2r = [t \in keys |-> DefaultRight]]
          IN  Intersect(other) \/ Subtract(other)
    \/ \E h \in Hashes : StartUnite(h) \/ StartFromHash(h)
    \/ Clear
    \/ LoopEnd

Spec == Init /\ [][Next]_vars

----------------------------------------------------------------------------
\* The two hashes stay inverse of each other: no operation leaves an entry of
\* one without its partner in the other ("would be dangling", insert()).
MutuallyInverse == Bijective(hash)

\* The container implements the bidirectional map, whatever the hash order.
Abs == INSTANCE BiMap WITH pairs <- Pairs(hash)
ImplementsBiMap == Abs!Spec
============================================================================
