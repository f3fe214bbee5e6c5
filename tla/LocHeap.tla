------------------------------ MODULE LocHeap ------------------------------
(***************************************************************************)
(* gps/utils/LocHeap.cpp: a binary tree in which every node outranks the   *)
(* nodes below it.  The code moves the data from node to node and never the *)
(* nodes themselves, so a node is known here by its place: 1 is the top,   *)
(* 2n and 2n + 1 are mLeft and mRight of n.  A tree is a function from the *)
(* places in use to nodes.  Where the code calls itself for a child, it    *)
(* walks down the tree, and the places of its calls are its way.           *)
(***************************************************************************)
EXTENDS Integers

\* timers are ranked by their time, the sooner the higher (LocTimerDelegate)
outRanks(a, b) == a.mFutureTime < b.mFutureTime

Left(n) == 2 * n
Right(n) == 2 * n + 1
Children(t, n) == {Left(n), Right(n)} \cap DOMAIN t

\* no place is in use
Empty == [n \in {} |-> n]
peek(t) == t[1].mData
Contents(t) == {t[n].mData : n \in DOMAIN t}

\* m is on the way down from n that enters the places in steps: who climbs up
\* from m through such places comes to n
OnWay(n, steps, m) ==
  LET climb[k \in Nat] == IF k > n /\ k \in steps THEN climb[k \div 2] ELSE k
  IN climb[m] = n
Above(n, m) == OnWay(n, Nat, m)

Size(t, n) == IF n \in DOMAIN t THEN t[n].mSize ELSE 0

\* the smaller subtree
Lighter(t, n) ==
  IF \/ Left(n) \notin DOMAIN t
     \/ Right(n) \in DOMAIN t /\ t[Left(n)].mSize =< t[Right(n)].mSize
  THEN Left(n) ELSE Right(n)

\* the data that comes down to a place: what its parent did not keep
Carried(t, datum) ==
  LET carried[n \in Nat] ==
        IF n =< 1 THEN datum
        ELSE LET top == t[n \div 2].mData
             IN IF outRanks(carried[n \div 2], top) THEN top ELSE carried[n \div 2]
  IN carried

\* the new node goes down into the smaller subtrees and becomes a leaf; whoever
\* ranks lower is carried down with it
push(t, datum) ==
  LET steps == {n \in Nat : n \div 2 \in DOMAIN t /\ n = Lighter(t, n \div 2)}
      leaf == {n \in ({1} \cup {Lighter(t, m) : m \in DOMAIN t}) \ DOMAIN t : OnWay(1, steps, n)}
      carried == Carried(t, datum)
  IN [n \in DOMAIN t \cup leaf |->
        IF OnWay(1, steps, n)
        THEN [mData |-> IF n \in DOMAIN t /\ ~outRanks(carried[n], t[n].mData)
                        THEN t[n].mData ELSE carried[n],
              mSize |-> Size(t, n) + 1]
        ELSE t[n]]

\* the child that takes the place of n, the higher ranking one
Heir(t, n) ==
  IF /\ Left(n) \in DOMAIN t
     /\ Right(n) \notin DOMAIN t \/ outRanks(t[Left(n)].mData, t[Right(n)].mData)
  THEN Left(n) ELSE Right(n)

\* the data of place n is swapped down to a leaf, and the leaf is popped out
pop(t, n) ==
  LET steps == {m \in DOMAIN t : m \div 2 \in DOMAIN t /\ m = Heir(t, m \div 2)}
      leaf == {m \in DOMAIN t : Children(t, m) = {} /\ OnWay(n, steps, m)}
  IN [m \in DOMAIN t \ leaf |->
        IF OnWay(n, steps, m)
        THEN [mData |-> t[Heir(t, m)].mData, mSize |-> t[m].mSize - 1]
        ELSE t[m]]

\* a linear search that skips what the data outranks; data are in a tree once
PlacesOf(t, datum) ==
  {n \in DOMAIN t : /\ t[n].mData = datum
                    /\ \A m \in DOMAIN t : Above(m, n) => ~outRanks(datum, t[m].mData)}

\* Mutant: the nodes above the one that is popped do not lose it.
removeMiscounts(t, datum) ==
  IF PlacesOf(t, datum) = {} THEN t ELSE pop(t, CHOOSE n \in PlacesOf(t, datum) : TRUE)

\* the nodes above lose the popped one as well
remove(t, datum) ==
  LET n == CHOOSE m \in PlacesOf(t, datum) : TRUE
      popped == pop(t, n)
  IN IF PlacesOf(t, datum) = {} THEN t
     ELSE [m \in DOMAIN popped |->
             IF m # n /\ Above(m, n)
             THEN [mData |-> popped[m].mData, mSize |-> popped[m].mSize - 1]
             ELSE popped[m]]

\* the order of the tree and the sizes it is balanced by
checkTree(t) ==
  \A n \in DOMAIN t :
    /\ n = 1 \/ n \div 2 \in DOMAIN t
    /\ \A c \in Children(t, n) : ~outRanks(t[c].mData, t[n].mData)
    /\ t[n].mSize - Size(t, Left(n)) - Size(t, Right(n)) = 1
=============================================================================
