----------------------------- MODULE LinkedList -----------------------------
(***************************************************************************)
(* The doubly linked list of src/linked_list.c, pointer by pointer.  The   *)
(* list has two sentinel nodes, head and tail, and counts its members.     *)
(* Nodes come from malloc, which may fail; a node that pop gives back      *)
(* belongs to the caller, who reads it and frees it later (held).          *)
(*                                                                         *)
(* The callers of src/ guard a list by a mutex, so a call is one step.     *)
(* They pass to list_remove nodes that are in the list, or NULL.           *)
(***************************************************************************)
EXTENDS Integers, Sequences, FiniteSets

CONSTANTS
  Nodes,       \* the memory that malloc can give out
  Data,        \* the objects the list holds
  NoData       \* a null data pointer

HeadNode == "head"
TailNode == "tail"
NULL  == "NULL"

Sentinels == {HeadNode, TailNode}

ASSUME NodesAssumption ==
  /\ IsFiniteSet(Nodes)
  /\ Nodes \intersect (Sentinels \union {NULL}) = {}

ASSUME DataAssumption == NoData \notin Data

VARIABLES
  list,        \* the links of every node, and members_count
  data,        \* the object of every node
  heap,        \* the nodes given out by malloc and not yet freed
  held,        \* those of them that a caller has popped
  ret          \* the node the last call returned, or NULL

listVars == <<list, data, heap, held, ret>>

Places == Nodes \union Sentinels

Lists == [next : [Places -> Places \union {NULL}],
          prev : [Places -> Places \union {NULL}],
          members_count : Int]

ListTypeOK ==
  /\ list \in Lists
  /\ data \in [Places -> Data \union {NoData}]
  /\ held \subseteq heap /\ heap \subseteq Nodes
  /\ ret \in Places \union {NULL}

(* list_init; the fields of a node that malloc has not given out are never *)
(* read.                                                                   *)
ListInit ==
  /\ list = [next |-> [n \in Places |-> IF n = HeadNode THEN TailNode ELSE NULL],
             prev |-> [n \in Places |-> IF n = TailNode THEN HeadNode ELSE NULL],
             members_count |-> 0]
  /\ data = [n \in Places |-> NoData]
  /\ heap = {} /\ held = {} /\ ret = NULL

IsEmpty == list.members_count = 0

-----------------------------------------------------------------------------
(* The links after each operation, in the order of its assignments.        *)

(* Mutant of Appended: the last member is not linked to the new one.       *)
AppendedBackwardOnly(l, n) ==
  [l EXCEPT !.next[n] = TailNode, !.prev[n] = l.prev[TailNode],
            !.prev[TailNode] = n, !.members_count = @ + 1]

Appended(l, n) ==
  [l EXCEPT !.next[n] = TailNode, !.prev[n] = l.prev[TailNode],
            !.next[l.prev[TailNode]] = n, !.prev[TailNode] = n,
            !.members_count = @ + 1]

AppendedLeft(l, n) ==
  [l EXCEPT !.next[n] = l.next[HeadNode], !.prev[n] = HeadNode,
            !.prev[l.next[HeadNode]] = n, !.next[HeadNode] = n,
            !.members_count = @ + 1]

Popped(l) ==
  LET last == l.prev[TailNode]
  IN  [l EXCEPT !.next[l.prev[last]] = TailNode, !.prev[TailNode] = l.prev[last],
                !.members_count = @ - 1]

PoppedLeft(l) ==
  LET first == l.next[HeadNode]
  IN  [l EXCEPT !.prev[l.next[first]] = HeadNode, !.next[HeadNode] = l.next[first],
                !.members_count = @ - 1]

(* Mutant of Removed: the successor keeps its link to the removed node.    *)
RemovedForwardOnly(l, n) ==
  [l EXCEPT !.next[l.prev[n]] = l.next[n], !.members_count = @ - 1]

Removed(l, n) ==
  [l EXCEPT !.next[l.prev[n]] = l.next[n], !.prev[l.next[n]] = l.prev[n],
            !.members_count = @ - 1]

(* list_clear pops from the left while the count says there are members.   *)
Cleared(l) ==
  LET after[k \in 0..l.members_count] ==
        IF k = 0 THEN l ELSE PoppedLeft(after[k - 1])
  IN  after[l.members_count]

(* The first k+1 nodes that head.next leads to.                            *)
Chain(l, k) ==
  LET at[i \in 0..k] == l.next[IF i = 0 THEN HeadNode ELSE at[i - 1]]
  IN  [i \in 1..k+1 |-> at[i - 1]]

Members == heap \ held

-----------------------------------------------------------------------------
(* The calls.                                                              *)

ListAppend(d) ==
  \E n \in Nodes \ heap :
    /\ list' = Appended(list, n)
    /\ data' = [data EXCEPT ![n] = d]
    /\ heap' = heap \union {n}
    /\ ret' = NULL
    /\ UNCHANGED held

ListAppendLeft(d) ==
  \E n \in Nodes \ heap :
    /\ list' = AppendedLeft(list, n)
    /\ data' = [data EXCEPT ![n] = d]
    /\ heap' = heap \union {n}
    /\ ret' = NULL
    /\ UNCHANGED held

ListPop ==
  /\ ~IsEmpty
  /\ ret' = list.prev[TailNode]
  /\ held' = held \union {list.prev[TailNode]}
  /\ list' = Popped(list)
  /\ UNCHANGED <<data, heap>>

ListPopLeft ==
  /\ ~IsEmpty
  /\ ret' = list.next[HeadNode]
  /\ held' = held \union {list.next[HeadNode]}
  /\ list' = PoppedLeft(list)
  /\ UNCHANGED <<data, heap>>

ListRemove(n) ==
  /\ ~IsEmpty
  /\ list' = Removed(list, n)
  /\ heap' = heap \ {n}
  /\ ret' = NULL
  /\ UNCHANGED <<data, held>>

ListClear ==
  /\ list' = Cleared(list)
  /\ heap' = held
  /\ ret' = NULL
  /\ UNCHANGED <<data, held>>

(* malloc fails, pop finds no member, remove gets NULL.                    *)
ListUnchanged == ret' = NULL /\ UNCHANGED <<list, data, heap, held>>

ListFirst ==
  /\ ret' = IF IsEmpty THEN NULL ELSE list.next[HeadNode]
  /\ UNCHANGED <<list, data, heap, held>>

ListLast ==
  /\ ret' = IF IsEmpty THEN NULL ELSE list.prev[TailNode]
  /\ UNCHANGED <<list, data, heap, held>>

(* The walk ends at NULL, which follows the tail sentinel: the sentinel is *)
(* compared as well, and its data is a null pointer.                       *)
ListFind(d) ==
  LET walk  == IF IsEmpty THEN <<>> ELSE Chain(list, list.members_count)
      found == {i \in DOMAIN walk : data[walk[i]] = d}
  IN  /\ ret' = IF found = {} THEN NULL
                ELSE walk[CHOOSE i \in found : \A j \in found : i <= j]
      /\ UNCHANGED <<list, data, heap, held>>

(* The caller frees a node it has popped.                                  *)
Free(n) ==
  /\ held' = held \ {n}
  /\ heap' = heap \ {n}
  /\ ret' = NULL
  /\ UNCHANGED <<list, data>>
=============================================================================
