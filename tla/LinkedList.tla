------------------------------ MODULE LinkedList ------------------------------
(***************************************************************************)
(* The lists of include/linux/list.h: rings of next and prev pointers with *)
(* a head, and the hash lists whose nodes point back to the pointer that   *)
(* points at them.  The firmware keeps its modes and its line history in   *)
(* rings.  One step per operation, the writes in the order of the code; an *)
(* entry is added only when it is in no list.                              *)
(***************************************************************************)
EXTENDS Integers, Sequences, FiniteSets, SequencesExt

CONSTANTS RingHeads, HashHeads,   \* heads
          Entries                 \* numbers, which list_add_sort() compares

ASSUME ListNodes == /\ Entries \subseteq Nat /\ IsFiniteSet(Entries)
                    /\ RingHeads \cap HashHeads = {}
                    /\ (RingHeads \cup HashHeads) \cap Entries = {}

VARIABLES ring,    \* next and prev of heads and entries
          hash,    \* first of heads, next and pprev of entries
          state,   \* what the caller knows of each node
          op       \* the last operation and its arguments

listVars == <<ring, hash, state, op>>

Nodes == RingHeads \cup Entries
Poison == -1
Nil == -2
Rings == [next : [Nodes -> Nodes \cup {Poison}], prev : [Nodes -> Nodes \cup {Poison}]]

(* Nodes in a ring: heads in use, entries in a list or initialised. *)
LiveNodes == {x \in Nodes : state[x] \in {"head", "in", "init"}}
Out(e) == state[e] \in {"init", "out"}

-----------------------------------------------------------------------------
(* The static functions, on a pair of pointer maps. *)

InitList(r, x) == [next |-> [r.next EXCEPT ![x] = x], prev |-> [r.prev EXCEPT ![x] = x]]

LinkBetweenBug(r, new, prev, next) ==
  [prev |-> [r.prev EXCEPT ![new] = prev], next |-> [r.next EXCEPT ![new] = next, ![prev] = new]]

LinkBetween(r, new, prev, next) ==   \* __list_add()
  [prev |-> [r.prev EXCEPT ![next] = new, ![new] = prev],
   next |-> [r.next EXCEPT ![new] = next, ![prev] = new]]

Unlink(r, x) ==                      \* __list_del(x->prev, x->next)
  [prev |-> [r.prev EXCEPT ![r.next[x]] = r.prev[x]],
   next |-> [r.next EXCEPT ![r.prev[x]] = r.next[x]]]

Poisoned(r, x) == [next |-> [r.next EXCEPT ![x] = Poison], prev |-> [r.prev EXCEPT ![x] = Poison]]

ListAdd(r, new, head) == LinkBetween(r, new, head, r.next[head])
ListAddTail(r, new, head) == LinkBetween(r, new, r.prev[head], head)
ListDel(r, x) == Poisoned(Unlink(r, x), x)

(* Each pointer is read after the writes before it: old may be alone. *)
ListReplace(r, old, new) ==
  LET n1 == [r.next EXCEPT ![new] = r.next[old]]
      p1 == [r.prev EXCEPT ![n1[new]] = new]
      p2 == [p1 EXCEPT ![new] = p1[old]]
      n2 == [n1 EXCEPT ![p2[new]] = new]
  IN [next |-> n2, prev |-> p2]

ListEmpty(r, head) == r.next[head] = head

ListSplice(r, list, head) ==
  IF ListEmpty(r, list) THEN r
  ELSE [prev |-> [r.prev EXCEPT ![r.next[list]] = head, ![r.next[head]] = r.prev[list]],
        next |-> [r.next EXCEPT ![head] = r.next[list], ![r.prev[list]] = r.next[head]]]

EntryCount == Cardinality(Entries)

(* What is met from head on, one pointer after the other; or what a step *)
(* repeated makes of a value.                                            *)
Met(next, head) ==
  LET met[k \in Nat] == IF k = 0 THEN head ELSE next[met[k - 1]]
  IN met

(* list_for_each(): the entries in order, up to the head.  A ring that     *)
(* does not come back would not end.                                       *)
Round(next, head) ==
  LET met == Met(next, head)
      ends == {k \in 0 .. EntryCount :
                 met[k + 1] = head /\ \A j \in 1 .. k : met[j] # head}
  IN [k \in 1 .. CHOOSE n \in ends : TRUE |-> met[k]]

InOrder(r, head) == Round(r.next, head)
InReverse(r, head) == Round(r.prev, head)   \* list_for_each_prev()

(* list_for_each_safe() around list_del(): the next entry is read before.  *)
DeleteWalking(r, head) ==
  LET turn == [x \in [ring : Rings, pos : Nodes \cup {Poison}] |->
                 IF x.pos = head THEN x
                 ELSE [ring |-> ListDel(x.ring, x.pos), pos |-> x.ring.next[x.pos]]]
  IN Met(turn, [ring |-> r, pos |-> r.next[head]])[EntryCount].ring

(* list_add_sort(): before the first entry that compares not below. *)
FirstIn(r, head, S) ==
  LET order == InOrder(r, head)
      places == {k \in 1 .. Len(order) : order[k] \in S /\ \A j \in 1 .. k - 1 : order[j] \notin S}
  IN IF places = {} THEN head ELSE order[CHOOSE k \in places : TRUE]

InsertPlaceBug(r, new, head) == FirstIn(r, head, {e \in Entries : e <= new})
InsertPlace(r, new, head) == FirstIn(r, head, {e \in Entries : e >= new})

-----------------------------------------------------------------------------

ListsInit ==
  /\ ring = [next |-> [x \in Nodes |-> IF x \in RingHeads THEN x ELSE Poison],
             prev |-> [x \in Nodes |-> IF x \in RingHeads THEN x ELSE Poison]]
  /\ hash = [first |-> [h \in HashHeads |-> Nil], next |-> [e \in Entries |-> Nil],
             pprev |-> [e \in Entries |-> Nil]]
  /\ state = [x \in Nodes |-> IF x \in RingHeads THEN "head" ELSE "out"]
  /\ op = <<"init">>

(* Nobody reads the pointers of a node that is in no list, poisoned by     *)
(* list_del() or left stale by list_replace() and list_splice().           *)
Forget(r, s) ==
  LET kept(f) == [x \in Nodes |-> IF s[x] \in {"head", "in", "init"} THEN f[x] ELSE Poison]
  IN [next |-> kept(r.next), prev |-> kept(r.prev)]

Ring(name, a, b, r, s) ==
  op' = <<name, a, b>> /\ ring' = Forget(r, s) /\ state' = s /\ hash' = hash

RingAdd(e, h) ==
  LET s == [state EXCEPT ![e] = "in"] IN
  /\ Out(e) /\ state[h] = "head"
  /\ \/ Ring("add", e, h, ListAdd(ring, e, h), s)
     \/ Ring("add_tail", e, h, ListAddTail(ring, e, h), s)
     \/ Ring("add_sort", e, h, ListAddTail(ring, e, InsertPlace(ring, e, h)), s)

(* list_del_init() may be called for an entry that is in no list, but was  *)
(* initialised.                                                            *)
RingDel(e) ==
  \/ state[e] = "in" /\ Ring("del", e, e, ListDel(ring, e), [state EXCEPT ![e] = "out"])
  \/ /\ state[e] \in {"in", "init"}
     /\ Ring("del_init", e, e, InitList(Unlink(ring, e), e), [state EXCEPT ![e] = "init"])

(* list_replace() leaves the old entry's pointers as they were. *)
RingReplace(old, new) ==
  LET r == ListReplace(ring, old, new) IN
  /\ state[old] \in {"in", "init"} /\ Out(new) /\ old # new
  /\ \/ Ring("replace", old, new, r, [state EXCEPT ![new] = state[old], ![old] = "out"])
     \/ Ring("replace_init", old, new, InitList(r, old),
             [state EXCEPT ![new] = state[old], ![old] = "init"])

RingMove(e, h) ==
  LET r == Unlink(ring, e) IN
  /\ state[e] = "in" /\ state[h] = "head"
  /\ \/ Ring("move", e, h, ListAdd(r, e, h), state)
     \/ Ring("move_tail", e, h, ListAddTail(r, e, h), state)

(* After list_splice() the emptied head still points into the list. *)
RingSplice(g, h) ==
  LET r == ListSplice(ring, g, h) IN
  /\ g # h /\ state[g] = "head" /\ state[h] = "head"
  /\ \/ Ring("splice", g, h, r, [state EXCEPT ![g] = IF ListEmpty(ring, g) THEN @ ELSE "idle"])
     \/ Ring("splice_init", g, h, IF ListEmpty(ring, g) THEN r ELSE InitList(r, g), state)

RingInit(h) == /\ state[h] = "idle"
               /\ Ring("init_head", h, h, InitList(ring, h), [state EXCEPT ![h] = "head"])

RingClear(h) ==
  /\ state[h] = "head"
  /\ Ring("clear", h, h, DeleteWalking(ring, h),
          [x \in Nodes |-> IF x \in ToSet(InOrder(ring, h)) THEN "out" ELSE state[x]])

-----------------------------------------------------------------------------
(* Hash lists: a pointer to a pointer is <<"first", head>> or              *)
(* <<"next", entry>>.                                                      *)

First(h) == <<"first", h>>
NextOf(e) == <<"next", e>>
Deref(y, p) == IF p[1] = "first" THEN y.first[p[2]] ELSE y.next[p[2]]
Assign(y, p, e) ==
  IF p[1] = "first" THEN [y EXCEPT !.first[p[2]] = e] ELSE [y EXCEPT !.next[p[2]] = e]
Back(y, e, p) == IF e = Nil THEN y ELSE [y EXCEPT !.pprev[e] = p]

HashDelete(y, e) == Back(Assign(y, y.pprev[e], y.next[e]), y.next[e], y.pprev[e])

Hash(name, a, b, y, s) ==
  op' = <<name, a, b>> /\ hash' = y /\ state' = s /\ ring' = ring

HashAddHead(e, h) ==
  LET y == Back([hash EXCEPT !.next[e] = hash.first[h]], hash.first[h], NextOf(e))
      z == [first |-> [y.first EXCEPT ![h] = e], next |-> y.next,
            pprev |-> [y.pprev EXCEPT ![e] = First(h)]]
  IN Out(e) /\ Hash("add", e, h, z, [state EXCEPT ![e] = "hashed"])

HashAddBefore(e, x) ==
  LET y == [first |-> hash.first, next |-> [hash.next EXCEPT ![e] = x],
            pprev |-> [hash.pprev EXCEPT ![e] = hash.pprev[x], ![x] = NextOf(e)]]
  IN /\ Out(e) /\ state[x] = "hashed"
     /\ Hash("add_before", e, x, Assign(y, y.pprev[e], e), [state EXCEPT ![e] = "hashed"])

HashAddAfter(e, x) ==
  LET y == [first |-> hash.first, next |-> [hash.next EXCEPT ![e] = hash.next[x], ![x] = e],
            pprev |-> [hash.pprev EXCEPT ![e] = NextOf(x)]]
  IN /\ Out(e) /\ state[x] = "hashed"
     /\ Hash("add_after", e, x, Back(y, y.next[e], NextOf(e)), [state EXCEPT ![e] = "hashed"])

(* hlist_del() poisons the pointers that hlist_del_init() clears: here too *)
(* they are forgotten.                                                     *)
HashDel(e) ==
  LET y == HashDelete(hash, e)
      z == [first |-> y.first, next |-> [y.next EXCEPT ![e] = Nil],
            pprev |-> [y.pprev EXCEPT ![e] = Nil]]
  IN /\ state[e] = "hashed"
     /\ \E name \in {"del", "del_init"} : Hash(name, e, e, z, [state EXCEPT ![e] = "out"])

(* hlist_del_init() of a node that was initialised and is in no list.      *)
HashDelUnhashed(e) ==
  Out(e) /\ hash.pprev[e] = Nil /\ Hash("del_init", e, e, hash, state)

(* hlist_for_each() *)
HashWalk(y, h) ==
  LET met == Met([e \in Entries \cup {Nil} |-> IF e = Nil THEN Nil ELSE y.next[e]], y.first[h])
      ends == {k \in 0 .. EntryCount : met[k] = Nil /\ \A j \in 0 .. k - 1 : met[j] # Nil}
  IN [k \in 1 .. CHOOSE n \in ends : TRUE |-> met[k - 1]]

ListsNext ==
  \/ \E e \in Entries, h \in RingHeads : RingAdd(e, h) \/ RingMove(e, h)
  \/ \E e \in Entries : RingDel(e) \/ HashDel(e) \/ HashDelUnhashed(e)
  \/ \E e, x \in Entries : RingReplace(e, x) \/ HashAddBefore(e, x) \/ HashAddAfter(e, x)
  \/ \E g, h \in RingHeads : RingSplice(g, h)
  \/ \E h \in RingHeads : RingInit(h) \/ RingClear(h)
  \/ \E e \in Entries, h \in HashHeads : HashAddHead(e, h)

ListsSpec == ListsInit /\ [][ListsNext]_listVars

-----------------------------------------------------------------------------

(* Every pointer of a node in use is answered by the opposite one, so that *)
(* a walk in either direction meets the same entries and a removal never   *)
(* writes into a node that is in no list; the same of the back pointers of *)
(* the hash lists.                                                         *)
RingsMirror ==
  /\ \A x \in LiveNodes : /\ ring.next[x] \in LiveNodes /\ ring.prev[x] \in LiveNodes
                          /\ ring.prev[ring.next[x]] = x /\ ring.next[ring.prev[x]] = x
  /\ \A h \in RingHeads : state[h] = "head" => InReverse(ring, h) = Reverse(InOrder(ring, h))

BackPointers ==
  /\ \A e \in Entries : state[e] = "hashed" =>
       /\ Deref(hash, hash.pprev[e]) = e
       /\ hash.next[e] # Nil => hash.pprev[hash.next[e]] = NextOf(e)
  /\ \A h \in HashHeads : hash.first[h] # Nil => hash.pprev[hash.first[h]] = First(h)

ListsMirror == RingsMirror /\ BackPointers

(* What the walks show; an idle head is not walked.                        *)
Walked == [h \in RingHeads \cup HashHeads |->
            IF h \in HashHeads THEN HashWalk(hash, h)
            ELSE IF state[h] = "idle" THEN <<>> ELSE InOrder(ring, h)]

(* Each operation does to the sequences of entries what its comment says,  *)
(* list_del() of a middle entry, list_replace() of a lone one, list_move() *)
(* of an entry to its own list and list_splice() of a list in use          *)
(* included.                                                               *)
Abstract == INSTANCE AbstractLists WITH Heads <- RingHeads \cup HashHeads, lists <- Walked
KeepsLists == Abstract!AbsSpec
=============================================================================
