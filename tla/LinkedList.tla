------------------------------ MODULE LinkedList ------------------------------
(***************************************************************************)
(* The doubly linked list of utils_list.c, pointer by pointer.  The list is *)
(* not locked by itself: its users hold a mutex for every operation, so the *)
(* operations follow each other.  Those that run along the chain take one   *)
(* step for each node.                                                      *)
(***************************************************************************)
EXTENDS Integers, Sequences, FiniteSets

CONSTANTS
  Nodes,   \* the addresses malloc may return for a ListNode
  Vals,    \* the values stored
  NULL

ASSUME LinkedListAssumption == NULL \notin Nodes

Pointers == Nodes \union {NULL}

\* The positions asked for: from beyond one end to beyond the other.
Indices == -Cardinality(Nodes) - 1 .. Cardinality(Nodes)

VARIABLES
  head, tail, len,  \* the fields of the List
  prev, next, val,  \* the fields of the nodes
  mem,              \* mem[n]: "free", "own" (made or popped, not listed) or "listed"
  pc,               \* the operation that runs along the chain
  it, arg, count,   \* the iterator's next field; value or index asked for; nodes to go
  backwards,        \* the iterator's direction is LIST_TAIL
  last              \* the last operation, if it was a pop or a lookup, and its answer

fields == <<head, tail, len, prev, next>>
iterator == <<it, arg, count, backwards>>
vars == <<fields, val, mem, pc, iterator, last>>

TypeOK ==
  /\ head \in Pointers /\ tail \in Pointers /\ len \in Nat
  /\ prev \in [Nodes -> Pointers] /\ next \in [Nodes -> Pointers]
  /\ val \in [Nodes -> Vals]
  /\ mem \in [Nodes -> {"free", "own", "listed"}]
  /\ pc \in {"idle", "find", "at", "destroy", "gone"}
  /\ it \in Pointers /\ arg \in Vals \union Indices \union {NULL}
  /\ count \in Nat
  /\ backwards \in BOOLEAN
  /\ last \in [op : {"none", "rpop", "lpop", "find", "at", "no_memory"},
               arg : Vals \union Indices \union {NULL}, node : Pointers]

Nothing == [op |-> "none", arg |-> NULL, node |-> NULL]

\* _list_new.  What fresh memory holds does not matter.
Init ==
  /\ head = NULL /\ tail = NULL /\ len = 0
  /\ prev = [n \in Nodes |-> NULL] /\ next = [n \in Nodes |-> NULL]
  /\ val \in [Nodes -> Vals]
  /\ mem = [n \in Nodes |-> "free"]
  /\ pc = "idle"
  /\ it = NULL /\ arg = NULL /\ count = 0 /\ backwards = FALSE
  /\ last = Nothing

-----------------------------------------------------------------------------
(* Operations of one step.                                                 *)

\* _list_node_new.
NodeNew(n, v) ==
  /\ pc = "idle"
  /\ mem[n] = "free"
  /\ mem' = [mem EXCEPT ![n] = "own"]
  /\ prev' = [prev EXCEPT ![n] = NULL]
  /\ next' = [next EXCEPT ![n] = NULL]
  /\ val' = [val EXCEPT ![n] = v]
  /\ last' = Nothing
  /\ UNCHANGED <<head, tail, len, pc, iterator>>

\* The user frees a node it made or popped.
NodeFree(n) ==
  /\ mem[n] = "own"
  /\ mem' = [mem EXCEPT ![n] = "free"]
  /\ UNCHANGED <<fields, val, pc, iterator, last>>

RPush(n) ==
  /\ pc = "idle"
  /\ mem[n] = "own"
  /\ mem' = [mem EXCEPT ![n] = "listed"]
  /\ IF len > 0
     THEN /\ prev' = [prev EXCEPT ![n] = tail]
          /\ next' = [next EXCEPT ![n] = NULL, ![tail] = n]
          /\ UNCHANGED head
     ELSE /\ head' = n
          /\ prev' = [prev EXCEPT ![n] = NULL]
          /\ next' = [next EXCEPT ![n] = NULL]
  /\ tail' = n
  /\ len' = len + 1
  /\ last' = Nothing
  /\ UNCHANGED <<val, pc, iterator>>

LPush(n) ==
  /\ pc = "idle"
  /\ mem[n] = "own"
  /\ mem' = [mem EXCEPT ![n] = "listed"]
  /\ IF len > 0
     THEN /\ next' = [next EXCEPT ![n] = head]
          /\ prev' = [prev EXCEPT ![n] = NULL, ![head] = n]
          /\ UNCHANGED tail
     ELSE /\ tail' = n
          /\ prev' = [prev EXCEPT ![n] = NULL]
          /\ next' = [next EXCEPT ![n] = NULL]
  /\ head' = n
  /\ len' = len + 1
  /\ last' = Nothing
  /\ UNCHANGED <<val, pc, iterator>>

RPop ==
  /\ pc = "idle"
  /\ len > 0
  /\ len' = len - 1
  /\ mem' = [mem EXCEPT ![tail] = "own"]
  /\ IF len > 1
     THEN /\ tail' = prev[tail]
          /\ next' = [next EXCEPT ![prev[tail]] = NULL, ![tail] = NULL]
          /\ UNCHANGED head
     ELSE /\ tail' = NULL /\ head' = NULL
          /\ next' = [next EXCEPT ![tail] = NULL]
  /\ prev' = [prev EXCEPT ![tail] = NULL]
  /\ last' = [op |-> "rpop", arg |-> NULL, node |-> tail]
  /\ UNCHANGED <<val, pc, iterator>>

LPop ==
  /\ pc = "idle"
  /\ len > 0
  /\ len' = len - 1
  /\ mem' = [mem EXCEPT ![head] = "own"]
  /\ IF len > 1
     THEN /\ head' = next[head]
          /\ prev' = [prev EXCEPT ![next[head]] = NULL, ![head] = NULL]
          /\ UNCHANGED tail
     ELSE /\ tail' = NULL /\ head' = NULL
          /\ prev' = [prev EXCEPT ![head] = NULL]
  /\ next' = [next EXCEPT ![head] = NULL]
  /\ last' = [op |-> "lpop", arg |-> NULL, node |-> head]
  /\ UNCHANGED <<val, pc, iterator>>

\* A pop of an empty list returns NULL.
PopNothing(op) ==
  /\ pc = "idle"
  /\ len = 0
  /\ last' = [op |-> op, arg |-> NULL, node |-> NULL]
  /\ UNCHANGED <<fields, val, mem, pc, iterator>>

\* Mutant: the back pointer of the node that follows is forgotten.
RemoveForwardOnly(n) ==
  /\ pc = "idle"
  /\ mem[n] = "listed"
  /\ mem' = [mem EXCEPT ![n] = "free"]
  /\ IF prev[n] # NULL
     THEN next' = [next EXCEPT ![prev[n]] = next[n]] /\ UNCHANGED head
     ELSE head' = next[n] /\ UNCHANGED next
  /\ tail' = IF next[n] # NULL THEN tail ELSE prev[n]
  /\ len' = len - 1
  /\ last' = Nothing
  /\ UNCHANGED <<prev, val, pc, iterator>>

\* _list_remove of a node of the list.
Remove(n) ==
  /\ pc = "idle"
  /\ mem[n] = "listed"
  /\ mem' = [mem EXCEPT ![n] = "free"]
  /\ IF prev[n] # NULL
     THEN next' = [next EXCEPT ![prev[n]] = next[n]] /\ UNCHANGED head
     ELSE head' = next[n] /\ UNCHANGED next
  /\ IF next[n] # NULL
     THEN prev' = [prev EXCEPT ![next[n]] = prev[n]] /\ UNCHANGED tail
     ELSE tail' = prev[n] /\ UNCHANGED prev
  /\ len' = len - 1
  /\ last' = Nothing
  /\ UNCHANGED <<val, pc, iterator>>

-----------------------------------------------------------------------------
(* Operations that run along the chain with an iterator.                   *)

\* _list_iterator_next: the node the iterator is at; it moves on.
Moves(b) == it' = IF it = NULL THEN NULL ELSE IF b THEN prev[it] ELSE next[it]

Answers(op, a, n) ==
  /\ pc' = "idle"
  /\ last' = [op |-> op, arg |-> a, node |-> n]

\* No memory for the iterator: a lookup returns NULL whatever the list holds.
NoIterator ==
  /\ pc = "idle"
  /\ last' = [op |-> "no_memory", arg |-> NULL, node |-> NULL]
  /\ UNCHANGED <<fields, val, mem, pc, iterator>>

FindStart(v) ==
  /\ pc = "idle"
  /\ pc' = "find" /\ arg' = v
  /\ it' = head /\ backwards' = FALSE
  /\ UNCHANGED <<fields, val, mem, count, last>>

FindStep ==
  /\ pc = "find"
  /\ Moves(backwards)
  /\ IF it = NULL \/ val[it] = arg
     THEN Answers("find", arg, it) /\ arg' = NULL
     ELSE UNCHANGED <<pc, arg, last>>
  /\ UNCHANGED <<fields, val, mem, count, backwards>>

\* Mutant: a negative index is negated.
ComplementNegates(k) == -k

\* Mutant: off by one.
ComplementOneLess(k) == -k - 2

\* ~index, in two's complement.
Complement(k) == -k - 1

AtStart(k) ==
  LET index == IF k < 0 THEN Complement(k) ELSE k IN
    /\ pc = "idle"
    /\ IF index < len
       THEN /\ pc' = "at" /\ count' = index
            /\ backwards' = (k < 0)
            /\ it' = IF k < 0 THEN tail ELSE head
            /\ arg' = k
            /\ UNCHANGED last
       ELSE Answers("at", k, NULL) /\ UNCHANGED iterator
    /\ UNCHANGED <<fields, val, mem>>

AtStep ==
  /\ pc = "at"
  /\ Moves(backwards)
  /\ IF count = 0
     THEN Answers("at", arg, it) /\ arg' = NULL /\ UNCHANGED count
     ELSE count' = count - 1 /\ UNCHANGED <<pc, arg, last>>
  /\ UNCHANGED <<fields, val, mem, backwards>>

\* _list_destroy frees as many nodes as len says, then the List itself.
DestroyStart ==
  /\ pc = "idle"
  /\ pc' = "destroy" /\ it' = head /\ count' = len
  /\ UNCHANGED <<fields, val, mem, arg, backwards, last>>

\* Mutant: while (--len).
DestroyOneTooFew ==
  /\ pc = "destroy"
  /\ IF count > 1
     THEN /\ mem' = [mem EXCEPT ![it] = "free"]
          /\ it' = next[it]
          /\ count' = count - 1
          /\ UNCHANGED pc
     ELSE pc' = "gone" /\ UNCHANGED <<mem, it, count>>
  /\ UNCHANGED <<fields, val, arg, backwards, last>>

DestroyStep ==
  /\ pc = "destroy"
  /\ IF count > 0
     THEN /\ mem' = [mem EXCEPT ![it] = "free"]
          /\ it' = next[it]
          /\ count' = count - 1
          /\ UNCHANGED pc
     ELSE pc' = "gone" /\ UNCHANGED <<mem, it, count>>
  /\ UNCHANGED <<fields, val, arg, backwards, last>>

Next ==
  \/ \E n \in Nodes, v \in Vals : NodeNew(n, v)
  \/ \E n \in Nodes : NodeFree(n) \/ RPush(n) \/ LPush(n) \/ Remove(n)
  \/ RPop \/ LPop \/ \E op \in {"rpop", "lpop"} : PopNothing(op)
  \/ NoIterator
  \/ \E v \in Vals : FindStart(v)
  \/ \E k \in Indices : AtStart(k)
  \/ FindStep \/ AtStep \/ DestroyStart \/ DestroyStep

Spec == Init /\ [][Next]_vars

-----------------------------------------------------------------------------
(* Properties.                                                             *)

\* s is the chain the pointers describe, in both directions, len included.
IsChain(s) ==
  /\ head = IF len = 0 THEN NULL ELSE s[1]
  /\ tail = IF len = 0 THEN NULL ELSE s[len]
  /\ \A i \in 1 .. len :
       /\ next[s[i]] = IF i = len THEN NULL ELSE s[i + 1]
       /\ prev[s[i]] = IF i = 1 THEN NULL ELSE s[i - 1]
  /\ \A i, j \in 1 .. len : s[i] = s[j] => i = j
  /\ \A n \in Nodes : mem[n] = "listed" <=> \E i \in 1 .. len : n = s[i]

\* As long as the list exists the chain along next is the chain along prev
\* backwards, from head to tail, as long as len says and without repetition, so
\* that whoever follows it comes to its end; it holds exactly the nodes pushed
\* and not yet taken away, whatever the pushes, pops and removals before.
TwoWayChain ==
  pc \notin {"destroy", "gone"} => \E s \in [1 .. len -> Nodes] : IsChain(s)

\* An iterator never stands on a node that was freed, and _list_destroy follows
\* exactly as many nodes as there are.
IteratorIsLive ==
  /\ pc \in {"find", "at", "destroy"} => (it = NULL \/ mem[it] = "listed")
  /\ pc = "at" => it # NULL
  /\ pc = "destroy" => (count = 0 <=> it = NULL)
  /\ pc = "gone" => \A n \in Nodes : mem[n] # "listed"

\* The nodes met from head along next, as many as len says.
Forward ==
  LET at[i \in 1 .. len] == IF i = 1 THEN head
                            ELSE IF at[i - 1] = NULL THEN NULL ELSE next[at[i - 1]]
  IN  [i \in 1 .. len |-> at[i]]

Abstract == INSTANCE NodeSequence WITH
  contents <- IF pc \in {"destroy", "gone"} THEN <<>> ELSE Forward,
  value <- val,
  answer <- last

\* The list is a sequence: pushes, pops, removals and lookups, by value or by
\* position from either end, do to the chain of pointers what NodeSequence says.
IsSequence == Abstract!Spec

=============================================================================
