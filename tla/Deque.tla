-------------------------------- MODULE Deque -------------------------------
(***************************************************************************)
(* What include/linked_list.h promises of a list: a sequence of objects    *)
(* that can be extended and shortened at both ends, shortened in the       *)
(* middle, and looked at; and what find does for a null pointer, which is  *)
(* not what the header promises.  answer is the object of the node that the*)
(* last call gave back, if it gave back one.                               *)
(***************************************************************************)
EXTENDS Integers, Sequences

CONSTANTS
  Data,        \* the objects that are put into the list
  NoData       \* a null pointer in place of an object

VARIABLES items, answer

Init == items = <<>> /\ answer = <<>>

PushRight(d) == items' = Append(items, d) /\ answer' = <<>>
PushLeft(d)  == items' = <<d>> \o items /\ answer' = <<>>

Pop ==
  /\ items # <<>>
  /\ items' = SubSeq(items, 1, Len(items) - 1)
  /\ answer' = <<items[Len(items)]>>

PopLeft ==
  /\ items # <<>>
  /\ items' = Tail(items)
  /\ answer' = <<Head(items)>>

RemoveAt(i) ==
  /\ items' = SubSeq(items, 1, i - 1) \o SubSeq(items, i + 1, Len(items))
  /\ answer' = <<>>

Clear == items' = <<>> /\ answer' = <<>>

First == items # <<>> /\ answer' = <<Head(items)>> /\ UNCHANGED items
Last  == items # <<>> /\ answer' = <<items[Len(items)]>> /\ UNCHANGED items

Find(d) ==
  /\ answer' = IF \E i \in 1..Len(items) : items[i] = d THEN <<d>> ELSE <<>>
  /\ UNCHANGED items

(* The header promises "NULL if not found" (include/linked_list.h:104); the*)
(* code gives back a node that is no member and holds a null pointer, the  *)
(* tail sentinel, unless the list is empty.                                *)
FindNull ==
  /\ answer' = IF items = <<>> THEN <<>> ELSE <<NoData>>
  /\ UNCHANGED items

(* A call that finds nothing, or fails for want of memory.                 *)
Nothing == answer' = <<>> /\ UNCHANGED items

Next ==
  \/ \E d \in Data : PushRight(d) \/ PushLeft(d) \/ Find(d)
  \/ \E i \in 1..Len(items) : RemoveAt(i)
  \/ Pop \/ PopLeft \/ Clear \/ First \/ Last \/ FindNull \/ Nothing

Spec == Init /\ [][Next]_<<items, answer>>
=============================================================================
