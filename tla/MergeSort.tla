----------------------------- MODULE MergeSort -----------------------------
(***************************************************************************)
(* alloc_merge_sort and merge of client/sort.c: the recursion with its     *)
(* stack of calls, the loop that merges two sorted arrays item by item,    *)
(* and the arrays that are allocated and freed on the way.                 *)
(*                                                                         *)
(* An item is known by its position in the array to be sorted, so an item  *)
(* that is lost or copied twice shows; its value is array[position].       *)
(***************************************************************************)
EXTENDS Naturals, Sequences

CONSTANTS
  BigArrayItem,   \* values of items (uint32_t)
  MaxLen          \* bound: length of the array to be sorted

VARIABLES
  array,          \* unsorted array, not changed
  stack,          \* calls of alloc_merge_sort that have not returned, last on top
  sorted,         \* what the first call returned, or NotYet
  allocated       \* items in arrays that malloc returned and nobody freed

vars == <<array, stack, sorted, allocated>>

ASSUME ItemAssumption == BigArrayItem \subseteq Nat
ASSUME MaxLenAssumption == MaxLen \in Nat

Arrays == UNION {[1..n -> BigArrayItem] : n \in 0..MaxLen}

NotYet == <<0>>

(* A call is for the len items behind the first offset ones. left, right   *)
(* and result hold positions; left and right shrink from the front, as     *)
(* larray and rarray advance.                                              *)
Stages == {"left", "right", "merge"}

Call(offset, len) ==
  [offset |-> offset, len |-> len, stage |-> "left",
   left |-> <<>>, right |-> <<>>, result |-> <<>>]

Middle(f) == f.len \div 2

Top == stack[Len(stack)]
Callers == SubSeq(stack, 1, Len(stack) - 1)
SetTop(f) == Append(Callers, f)

\* The items offset + 1 .. offset + len, in the order they come in.
AllocCopyArray(offset, len) == [i \in 1..len |-> offset + i]

-----------------------------------------------------------------------------
(* What a frame does with the array that one of its two calls returns.     *)

Receive(f, result) ==
  IF f.stage = "left"
    THEN [f EXCEPT !.left = result, !.stage = "right"]
    ELSE [f EXCEPT !.right = result, !.stage = "merge"]

\* The array that merge allocates for its result, when the second call returns.
MergeAlloc(f) == IF f.stage = "right" THEN f.len ELSE 0

Init ==
  /\ array \in Arrays
  /\ IF Len(array) <= 1
       THEN stack = <<>> /\ sorted = AllocCopyArray(0, Len(array))
       ELSE stack = <<Call(0, Len(array))>> /\ sorted = NotYet
  /\ allocated = IF Len(array) <= 1 THEN Len(array) ELSE 0

\* The half of the array that the next call of the top frame is for.
HalfOffset(f) == IF f.stage = "left" THEN f.offset ELSE f.offset + Middle(f)
HalfLen(f) == IF f.stage = "left" THEN Middle(f) ELSE f.len - Middle(f)

\* A call for at most one item returns a copy at once.
CallShort ==
  /\ stack # <<>>
  /\ Top.stage \in {"left", "right"}
  /\ HalfLen(Top) <= 1
  /\ stack' = SetTop(Receive(Top, AllocCopyArray(HalfOffset(Top), HalfLen(Top))))
  /\ allocated' = allocated + HalfLen(Top) + MergeAlloc(Top)
  /\ UNCHANGED <<array, sorted>>

\* Any other call begins with its own left half.
CallLong ==
  /\ stack # <<>>
  /\ Top.stage \in {"left", "right"}
  /\ HalfLen(Top) > 1
  /\ stack' = Append(stack, Call(HalfOffset(Top), HalfLen(Top)))
  /\ UNCHANGED <<array, sorted, allocated>>

-----------------------------------------------------------------------------
Merging == stack # <<>> /\ Top.stage = "merge"

\* larray[0] <= rarray[0]
LeftFirst(f) == array[Head(f.left)] <= array[Head(f.right)]

TakeLeft ==
  /\ Merging
  /\ Top.left # <<>> /\ Top.right # <<>>
  /\ LeftFirst(Top)
  /\ stack' = SetTop([Top EXCEPT !.result = Append(@, Head(Top.left)), !.left = Tail(@)])
  /\ UNCHANGED <<array, sorted, allocated>>

TakeRight ==
  /\ Merging
  /\ Top.left # <<>> /\ Top.right # <<>>
  /\ ~LeftFirst(Top)
  /\ stack' = SetTop([Top EXCEPT !.result = Append(@, Head(Top.right)), !.right = Tail(@)])
  /\ UNCHANGED <<array, sorted, allocated>>

\* Seeded fault of MergedWithRest: the rest of the right array is forgotten.
MergedWithLeftRest(f) == f.result \o f.left

\* copy_array of what is left in one of the two arrays.
MergedWithRest(f) == (f.result \o f.left) \o f.right

\* Seeded fault of Freed: free(right) is missing.
FreedLeft(f) == Middle(f)

\* free(left) and free(right), after the merge.
Freed(f) == f.len

\* The top call returns: to the call below it, or to the caller of the sort.
Return ==
  /\ Merging
  /\ Top.left = <<>> \/ Top.right = <<>>
  /\ IF Len(stack) = 1
       THEN /\ stack' = <<>>
            /\ sorted' = MergedWithRest(Top)
            /\ allocated' = allocated - Freed(Top)
       ELSE LET caller == stack[Len(stack) - 1] IN
            /\ stack' = Append(SubSeq(stack, 1, Len(stack) - 2),
                               Receive(caller, MergedWithRest(Top)))
            /\ sorted' = sorted
            /\ allocated' = (allocated - Freed(Top)) + MergeAlloc(caller)
  /\ UNCHANGED array

Next == CallShort \/ CallLong \/ TakeLeft \/ TakeRight \/ Return

Spec == Init /\ [][Next]_vars

-----------------------------------------------------------------------------
Frame == [offset : Nat, len : Nat, stage : Stages,
          left : Seq(Nat), right : Seq(Nat), result : Seq(Nat)]

PositionsOf(s) == {s[i] : i \in 1..Len(s)}

NonDecreasing(s) == \A i, j \in 1..Len(s) : i < j => array[s[i]] <= array[s[j]]

Done == stack = <<>>

(* The sort returns every item of the array exactly once and in order,     *)
(* whatever the two halves of every call of alloc_merge_sort look like.    *)
SortsEveryItemOnce ==
  Done => /\ Len(sorted) = Len(array)
          /\ PositionsOf(sorted) = 1..Len(array)
          /\ NonDecreasing(sorted)

(* While it merges, a call still has every item of its part of the array,  *)
(* in its result or in what is left of its two arrays, and no other.       *)
MergeKeepsItems ==
  \A d \in 1..Len(stack) :
    LET f == stack[d] IN
      f.stage = "merge" =>
        PositionsOf(MergedWithRest(f)) = (f.offset + 1) .. (f.offset + f.len)

(* Every array that the recursion allocates is freed by the call it was    *)
(* returned to, so that only the result outlives the sort; and the sort    *)
(* never holds more than twice the items of the array: the calls below the *)
(* top one hold at most a left half each.                                  *)
MemoryIsBounded ==
  /\ Done => allocated = Len(array)
  /\ allocated <= 2 * Len(array)

=============================================================================
