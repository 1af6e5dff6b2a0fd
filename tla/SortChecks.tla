----------------------------- MODULE SortChecks -----------------------------
(***************************************************************************)
(* array_crc, test_sort_result and run_sort of client/sort.c, on top of    *)
(* the merge sort: what the nodes use to check what they sort, and send to *)
(* each other to be checked.                                               *)
(***************************************************************************)
EXTENDS MergeSort, SequencesExt

CONSTANTS
  CrcAtom,        \* CRC_ATOM
  Width           \* 2^32, the values of a uint32_t

ASSUME CrcAssumption == CrcAtom \in Nat \ {0} /\ Width \in Nat /\ 2 * CrcAtom <= Width
ASSUME WidthAssumption == \A v \in BigArrayItem : v < Width

VARIABLE
  verdict         \* what run_sort returns, or NoVerdict

NoVerdict == 2

\* Seeded fault of AddToCrc: the item is added before it is reduced.
AddToCrcUnreduced(crc, v) == ((crc + v) % Width) % CrcAtom

\* (crc + v % CRC_ATOM) % CRC_ATOM, in the arithmetic of uint32_t
AddToCrc(crc, v) == ((crc + (v % CrcAtom)) % Width) % CrcAtom

\* The sum that test_sort_result and array_crc both compute.
CrcOf(s) == FoldLeft(AddToCrc, 0, s)

\* array_crc: an empty array has 1.
ArrayCrc(s) == IF s = <<>> THEN 1 ELSE CrcOf(s)

\* Seeded fault of InOrder: initial keeps the first item.
InOrderBehindFirst(s) == \A i \in 2..Len(s) : s[1] <= s[i]

\* The loop of test_sort_result: initial is the item before.
InOrder(s) == \A i \in 2..Len(s) : s[i - 1] <= s[i]

TestSortResult(u, s) ==
  IF s = <<>> \/ (InOrder(s) /\ CrcOf(u) = CrcOf(s)) THEN 1 ELSE 0

-----------------------------------------------------------------------------
Values(s) == [i \in 1..Len(s) |-> array[s[i]]]

checkVars == <<array, stack, sorted, allocated, verdict>>

\* alloc_array_fill_random may leave any array.
RunInit == Init /\ verdict = NoVerdict

RunSort ==
  /\ Done
  /\ verdict = NoVerdict
  /\ verdict' = TestSortResult(array, Values(sorted))
  /\ UNCHANGED vars

RunNext ==
  \/ Next /\ UNCHANGED verdict
  \/ RunSort
  \/ verdict # NoVerdict /\ UNCHANGED checkVars   \* run_sort has returned

RunSpec == RunInit /\ [][RunNext]_checkVars

-----------------------------------------------------------------------------
(* The test of run_sort accepts every result of the merge sort, and no     *)
(* array that is out of order, nor one in which a single item was          *)
(* replaced, unless by one with the same remainder.                        *)
TestFindsDamage ==
  /\ verdict # 0
  /\ verdict = 1 =>
       \A s \in [1..Len(array) -> BigArrayItem] :
         TestSortResult(array, s) = 1 =>
           /\ \A i, j \in 1..Len(s) : i < j => s[i] <= s[j]
           /\ \A k \in 1..Len(s) :
                (\A i \in (1..Len(s)) \ {k} : s[i] = Values(sorted)[i])
                  => s[k] % CrcAtom = Values(sorted)[k] % CrcAtom

(* The crcs of the parts of an array add up to the crc of the array,       *)
(* wherever it is cut and in whatever order its items are. The manager's   *)
(* test of the sources' crcs against the destinations' rests on this. It   *)
(* is true of parts that have items only.                                  *)
CrcAddsUp ==
  Done =>
    \A k \in 1..(Len(array) - 1) :
      (ArrayCrc(SubSeq(array, 1, k)) + ArrayCrc(SubSeq(array, k + 1, Len(array)))) % CrcAtom
        = ArrayCrc(Values(sorted))

=============================================================================
