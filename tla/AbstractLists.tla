----------------------------- MODULE AbstractLists ----------------------------
(***************************************************************************)
(* What the lists of list.h promise: heads with sequences of entries, and  *)
(* what each operation does to them.  op names the last operation and its  *)
(* arguments, so that an implementation can neither do one operation for   *)
(* another nor change a list without one.  A head is idle when its entries *)
(* were given away by list_splice() and it was not initialised again.      *)
(***************************************************************************)
EXTENDS Integers, Sequences, SequencesExt

CONSTANTS Heads, Entries

VARIABLES lists, op

Entered == UNION {ToSet(lists[h]) : h \in Heads}
Place(s, e) == CHOOSE k \in 1 .. Len(s) : s[k] = e
Without(s, e) == IF e \in ToSet(s) THEN RemoveAt(s, Place(s, e)) ELSE s

AbsInit == lists = [h \in Heads |-> <<>>] /\ op = <<"init">>

Does(name, a, b) == op' = <<name, a, b>>

Add(e, h) == /\ Does("add", e, h) /\ e \notin Entered
             /\ lists' = [lists EXCEPT ![h] = <<e>> \o @]
AddTail(e, h) == /\ Does("add_tail", e, h) /\ e \notin Entered
                 /\ lists' = [lists EXCEPT ![h] = Append(@, e)]
(* Before the first entry that is not smaller. *)
AddSort(e, h) ==
  LET larger == {k \in 1 .. Len(lists[h]) : lists[h][k] >= e}
      k == IF larger = {} THEN Len(lists[h]) + 1
           ELSE CHOOSE j \in larger : \A i \in larger : j <= i
  IN /\ Does("add_sort", e, h) /\ e \notin Entered
     /\ lists' = [lists EXCEPT ![h] = InsertAt(@, k, e)]
AddAt(name, e, x, off) ==
  /\ Does(name, e, x) /\ e \notin Entered
  /\ \E h \in Heads : /\ x \in ToSet(lists[h])
                      /\ lists' = [lists EXCEPT ![h] = InsertAt(@, Place(@, x) + off, e)]

Removed(e) == [h \in Heads |-> Without(lists[h], e)]
Del(e) == (Does("del", e, e) \/ Does("del_init", e, e)) /\ lists' = Removed(e)
Replace(old, new) ==
  /\ Does("replace", old, new) \/ Does("replace_init", old, new)
  /\ new \notin Entered
  /\ lists' = [h \in Heads |-> [k \in DOMAIN lists[h] |-> IF lists[h][k] = old THEN new
                                                          ELSE lists[h][k]]]
Move(e, h) == Does("move", e, h) /\ e \in Entered
              /\ lists' = [Removed(e) EXCEPT ![h] = <<e>> \o @]
MoveTail(e, h) == Does("move_tail", e, h) /\ e \in Entered
                  /\ lists' = [Removed(e) EXCEPT ![h] = Append(@, e)]
Splice(g, h) == /\ g # h
                /\ Does("splice", g, h) \/ Does("splice_init", g, h)
                /\ lists' = [lists EXCEPT ![h] = lists[g] \o @, ![g] = <<>>]
(* Entries taken off one after the other while the list is walked. *)
Clear(h) == Does("clear", h, h) /\ lists' = [lists EXCEPT ![h] = <<>>]
InitHead(h) == Does("init_head", h, h) /\ lists[h] = <<>> /\ lists' = lists

AbsNext ==
  \/ \E e \in Entries, h \in Heads :
       Add(e, h) \/ AddTail(e, h) \/ AddSort(e, h) \/ Move(e, h) \/ MoveTail(e, h)
  \/ \E e, x \in Entries : \/ Replace(e, x)
                           \/ AddAt("add_before", e, x, 0) \/ AddAt("add_after", e, x, 1)
  \/ \E e \in Entries : Del(e)
  \/ \E g, h \in Heads : Splice(g, h)
  \/ \E h \in Heads : Clear(h) \/ InitHead(h)

AbsSpec == AbsInit /\ [][AbsNext]_<<lists, op>>
=============================================================================
