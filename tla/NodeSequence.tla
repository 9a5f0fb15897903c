----------------------------- MODULE NodeSequence -----------------------------
(***************************************************************************)
(* What the list of utils_list.c is to its users: a sequence of nodes, each *)
(* with the value it was made for.  SyncCall and SubdevSession use their    *)
(* lists in this form.                                                      *)
(***************************************************************************)
EXTENDS Integers, FiniteSets, Sequences, SequencesExt, FiniteSetsExt

CONSTANTS Nodes, Vals, NULL

VARIABLES
  contents,  \* the nodes of the list, in order
  value,     \* value[n]: the value of node n
  answer     \* the last operation, if it was a pop or a lookup, and its answer

vars == <<contents, value, answer>>

Answer(op, arg, n) == [op |-> op, arg |-> arg, node |-> n]

Nothing == Answer("none", NULL, NULL)

Init ==
  /\ contents = <<>>
  /\ value \in [Nodes -> Vals]
  /\ answer = Nothing

MakeNode(n, v) ==
  /\ n \notin ToSet(contents)
  /\ value' = [value EXCEPT ![n] = v]
  /\ answer' = Nothing
  /\ UNCHANGED contents

PushRight(n) ==
  /\ n \notin ToSet(contents)
  /\ contents' = Append(contents, n)
  /\ answer' = Nothing
  /\ UNCHANGED value

PushLeft(n) ==
  /\ n \notin ToSet(contents)
  /\ contents' = <<n>> \o contents
  /\ answer' = Nothing
  /\ UNCHANGED value

PopRight ==
  /\ contents # <<>>
  /\ contents' = Front(contents)
  /\ answer' = Answer("rpop", NULL, Last(contents))
  /\ UNCHANGED value

PopLeft ==
  /\ contents # <<>>
  /\ contents' = Tail(contents)
  /\ answer' = Answer("lpop", NULL, Head(contents))
  /\ UNCHANGED value

PopNothing(op) ==
  /\ contents = <<>>
  /\ answer' = Answer(op, NULL, NULL)
  /\ UNCHANGED <<contents, value>>

\* A node is taken away wherever it is.
Take(i) ==
  /\ contents' = RemoveAt(contents, i)
  /\ answer' = Nothing
  /\ UNCHANGED value

\* A lookup that found no memory; its caller cannot tell it from a vain one.
LookupFails ==
  /\ answer' = Answer("no_memory", NULL, NULL)
  /\ UNCHANGED <<contents, value>>

\* The first node with value v, if there is one.
Find(v) ==
  LET holders == {i \in DOMAIN contents : value[contents[i]] = v} IN
    /\ answer' = Answer("find", v, IF holders = {} THEN NULL ELSE contents[Min(holders)])
    /\ UNCHANGED <<contents, value>>

\* The node at a position, counted from 0, or from the end with -1.
At(k) ==
  LET i == IF k < 0 THEN Len(contents) + k + 1 ELSE k + 1 IN
    /\ answer' = Answer("at", k, IF i \in DOMAIN contents THEN contents[i] ELSE NULL)
    /\ UNCHANGED <<contents, value>>

Destroy ==
  /\ contents' = <<>>
  /\ UNCHANGED <<value, answer>>

Next ==
  \/ \E n \in Nodes, v \in Vals : MakeNode(n, v)
  \/ \E n \in Nodes : PushRight(n) \/ PushLeft(n)
  \/ PopRight \/ PopLeft \/ \E op \in {"rpop", "lpop"} : PopNothing(op)
  \/ LookupFails
  \/ \E i \in DOMAIN contents : Take(i)
  \/ \E v \in Vals : Find(v)
  \/ \E k \in -Cardinality(Nodes) - 1 .. Cardinality(Nodes) : At(k)
  \/ Destroy

Spec == Init /\ [][Next]_vars

=============================================================================
