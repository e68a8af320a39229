----------------------------- MODULE AbstractHeap -----------------------------
(***************************************************************************)
(* What the callers of malloc(), free(), realloc() and memalign() rely on: *)
(* each pointer they hold owns a stretch of the pool that nobody else      *)
(* owns, what they stored in it stays until they free it, and reallocation *)
(* carries it along.  Nothing here knows of headers, lists or flags.       *)
(***************************************************************************)
EXTENDS Integers

CONSTANTS First, Limit    \* addresses of the pool: First .. Limit - 1

VARIABLE owned            \* from pointers to the size and the words owned

(* A word in front of the pointer belongs to the stretch. *)
Stretches == [size : Nat, data : UNION {[0 .. k - 1 -> Nat] : k \in Nat}]
Inside(p, o) == First <= p - 4 /\ p + o[p].size <= Limit
Apart(p, q, o) == p + o[p].size <= q - 4 \/ q + o[q].size <= p - 4

Sound(o) == /\ \A p \in DOMAIN o : Inside(p, o)
            /\ \A p, q \in DOMAIN o : p # q => Apart(p, q, o)

(* The words kept when a stretch of k words is made one of m words. *)
KeepsData(old, new) ==
  \A i \in DOMAIN old \cap DOMAIN new : new[i] = old[i]

Without(p) == [q \in DOMAIN owned \ {p} |-> owned[q]]

Init == owned = [p \in {} |-> 0]

(* Nothing that was owned moves or changes. *)
Allocate ==
  \E p \in DOMAIN owned' \ DOMAIN owned :
    /\ DOMAIN owned' = DOMAIN owned \cup {p}
    /\ \A q \in DOMAIN owned : owned'[q] = owned[q]
    /\ Sound(owned')

Release == \E p \in DOMAIN owned : owned' = Without(p)

(* The stretch at p becomes one at r, which may be p. *)
Resize ==
  \E p \in DOMAIN owned : \E r \in DOMAIN owned' :
    /\ DOMAIN owned' = (DOMAIN owned \ {p}) \cup {r}
    /\ \A q \in DOMAIN owned \ {p} : owned'[q] = owned[q]
    /\ KeepsData(owned[p].data, owned'[r].data)
    /\ Sound(owned')

Next == Allocate \/ Release \/ Resize

Spec == Init /\ [][Next]_owned
=============================================================================
