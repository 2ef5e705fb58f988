------------------------------ MODULE MinHeap ------------------------------
(***************************************************************************)
(* The array behind AckMessageManage (MinHeap in                            *)
(* comit/manage/ackmessage.go) under Go's container/heap, with the index    *)
(* that Swap, Push and Pop keep in each message, since Delete trusts it.    *)
(* AckManage has the goroutine that calls these operations, and the heap as *)
(* a set; OpsWork says that the set is what the array amounts to.           *)
(***************************************************************************)
EXTENDS Integers, SequencesExt

CONSTANTS
    Msgs,
    Times       \* the values of Timeout

(* The array, where Go's element i is arr[i + 1], and the messages' fields; *)
(* the index of a message outside is -1.                                    *)
Heaps == [arr : Seq(Msgs), index : [Msgs -> Int], timeout : [Msgs -> Times]]

(* The methods that container/heap calls. *)
At(h, i) == h.arr[i + 1]

Less(h, i, j) == h.timeout[At(h, i)] <= h.timeout[At(h, j)]

Swap(h, i, j) ==
    [h EXCEPT !.arr[i + 1] = At(h, j), !.arr[j + 1] = At(h, i),
              !.index[At(h, j)] = i, !.index[At(h, i)] = j]

PopLast(h) == [h EXCEPT !.arr = Front(@), !.index[Last(h.arr)] = -1]

(* heap.up and heap.down: the element at i moves until its order is right. *)
Up(h0, i0) ==
    LET up[i \in 0 .. i0] == [h \in Heaps |->
            LET parent == (i - 1) \div 2
            IN  IF i = 0 \/ ~ Less(h, i, parent) THEN h
                ELSE up[parent][Swap(h, parent, i)]]
    IN  up[i0][h0]

(* The child of i that comes first. *)
Child(h, i, n) ==
    LET left == 2 * i + 1
    IN  IF left + 1 < n /\ Less(h, left + 1, left) THEN left + 1 ELSE left

Down(h0, i0, n) ==
    LET down[i \in i0 .. n] == [h \in Heaps |->
            LET child == Child(h, i, n)
            IN  IF 2 * i + 1 >= n \/ ~ Less(h, child, i) THEN h
                ELSE down[child][Swap(h, i, child)]]
    IN  down[i0][h0]

(* Mutant: heap.Remove and heap.Fix without the step up. *)
MoveDown(h, i, n) == Down(h, i, n)

Move(h, i, n) == LET d == Down(h, i, n) IN IF d # h THEN d ELSE Up(h, i)

(* push: Timeout is set, then heap.Push.                                    *)
Push(h, m, t) ==
    LET n == Len(h.arr)
    IN  Up([h EXCEPT !.arr = Append(@, m), !.index[m] = n, !.timeout[m] = t], n)

(* heap.Pop gives out element 0.                                            *)
Pop(h) == LET n == Len(h.arr) - 1 IN PopLast(Down(Swap(h, 0, n), 0, n))

(* MinHeap.Delete: heap.Remove at the index the message has.                *)
Delete(h, m) ==
    LET n == Len(h.arr) - 1
        i == h.index[m]
    IN  IF i = -1 THEN h
        ELSE PopLast(IF i = n THEN h ELSE Move(Swap(h, i, n), i, n))

(* MinHeap.Update: heap.Fix after the Timeout has changed.                  *)
Update(h, m, t) ==
    Move([h EXCEPT !.timeout[m] = t], h.index[m], Len(h.arr))

-----------------------------------------------------------------------------
(* What the array stands for: the messages that wait and their times.       *)
Due(h) == [m \in Range(h.arr) |-> h.timeout[m]]

(* The index of a message is its place in the array, and -1 outside of it;  *)
(* no message waits below a later one.                                      *)
IsHeap(h) ==
    /\ \A i \in 0 .. Len(h.arr) - 1 :
          /\ h.index[At(h, i)] = i
          /\ i > 0 => h.timeout[At(h, (i - 1) \div 2)] <= h.timeout[At(h, i)]
    /\ \A m \in Msgs \ Range(h.arr) : h.index[m] = -1

(* Every heap over Msgs = 1 .. k, up to the names of the messages.          *)
HeapsUpToNames ==
    {h \in {[arr |-> [i \in 1 .. n |-> i],
             index |-> [m \in Msgs |-> IF m <= n THEN m - 1 ELSE -1],
             timeout |-> f] : n \in 0 .. Cardinality(Msgs), f \in [Msgs -> Times]} :
     IsHeap(h)}

(***************************************************************************)
(* From any heap each operation yields a heap again (so that TimeLoop, which *)
(* stops at the first element not yet due, overlooks none that is), and      *)
(* changes the messages that wait as it should: Pop takes one whose time     *)
(* comes first, Delete its own message and no other (ackmessage.go:82-150).  *)
(***************************************************************************)
OpsWork(h) ==
    /\ h.arr # <<>> =>
          /\ IsHeap(Pop(h))
          /\ Due(Pop(h)) = Restrict(Due(h), DOMAIN Due(h) \ {At(h, 0)})
          /\ \A m \in Range(h.arr) : h.timeout[At(h, 0)] <= h.timeout[m]
    /\ \A m \in Msgs :
          /\ IsHeap(Delete(h, m))
          /\ Due(Delete(h, m)) = Restrict(Due(h), DOMAIN Due(h) \ {m})
          /\ \A t \in Times :
                LET g == IF m \in Range(h.arr) THEN Update(h, m, t)
                         ELSE Push(h, m, t)
                IN  /\ IsHeap(g)
                    /\ Due(g) = [k \in Range(h.arr) \cup {m} |->
                                   IF k = m THEN t ELSE h.timeout[k]]

HeapSpec == \A h \in HeapsUpToNames : OpsWork(h)
=============================================================================
