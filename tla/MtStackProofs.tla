---------------------------- MODULE MtStackProofs ----------------------------
(***************************************************************************)
(* The arithmetic of stack sizes, for every page and word size.            *)
(***************************************************************************)
EXTENDS MtStack, TLAPS

\* Division with remainder.
LEMMA Remainder ==
    ASSUME NEW a \in Nat, NEW n \in Nat, n > 0
    PROVE  /\ a \div n \in Nat /\ a % n \in Nat /\ a % n < n
           /\ a = n * (a \div n) + (a % n)
  OBVIOUS

\* A multiple of n leaves no remainder.
LEMMA Multiple ==
    ASSUME NEW k \in Nat, NEW n \in Nat, n > 0
    PROVE  (n * k) % n = 0
  OBVIOUS

\* A size that fits into a word is kept as it is.
LEMMA Fits ==
    ASSUME NEW a \in Nat, a <= SizeMax
    PROVE  Wrapped(a) = a
  BY StackAssumption DEF Wrapped

\* A stack has at least the size that mt_create_task_internal asked for, in whole
\* pages and with less than a page to spare, and its mapping holds the guard page
\* and all of it: unless the size is within two pages of SIZE_MAX, where
\* mt_round_up and the sum wrap around.
THEOREM StackHoldsRequest ==
    ASSUME NEW size \in Size, size + 2 * Page <= SizeMax, size = 0 \/ size >= MinSize
    PROVE  LET s == mt_stack_alloc(size) IN
             /\ s.rc = "OK"
             /\ s.usable_size >= Requested(size) /\ s.usable_size < Requested(size) + Page
             /\ s.usable_size % Page = 0
             /\ s.mapping_size = s.guard_size + s.usable_size
  <1> DEFINE v == Requested(size)
             q == v \div Page
             rem == v % Page
             usable == mt_round_up(v)
  <1>1. SizeMax \in Nat /\ Page \in Nat /\ Page > 0 /\ v \in Nat /\ v >= MinSize /\ MinSize \in Nat
        /\ v + 2 * Page <= SizeMax
    BY StackAssumption DEF Size, Requested
  <1> HIDE DEF v
  <1>2. q \in Nat /\ rem \in Nat /\ rem < Page /\ v = Page * q + rem
    BY <1>1, Remainder
  <1>3. usable = IF rem = 0 THEN v ELSE v + (Page - rem)
    <2>1. v + (Page - rem) \in Nat /\ v + (Page - rem) <= SizeMax
      <3> HIDE DEF rem
      <3> QED BY <1>1, <1>2
    <2>2. Wrapped(v + (Page - rem)) = v + (Page - rem)
      <3> HIDE DEF rem
      <3> QED BY <2>1, Fits
    <2> QED BY <2>2 DEF mt_round_up
  <1> HIDE DEF q, rem, usable
  <1>4. usable \in Nat /\ usable >= v /\ usable < v + Page
    BY <1>1, <1>2, <1>3
  <1>5. usable % Page = 0
    <2>1. CASE rem = 0
      BY <1>3, <2>1 DEF rem
    <2>2. CASE rem # 0
      <3>1. Page * (q + 1) = Page * q + Page /\ Page * q \in Nat
        BY <1>1, <1>2
      <3>2. usable = Page * (q + 1)
        BY <1>1, <1>2, <1>3, <2>2, <3>1
      <3>3. q + 1 \in Nat
        BY <1>2
      <3> QED BY <1>1, <3>2, <3>3, Multiple
    <2> QED BY <2>1, <2>2
  <1>6. Wrapped(usable + Page) = usable + Page
    BY <1>1, <1>4, Fits
  <1>7. mt_stack_alloc(size) = [rc |-> "OK", usable_size |-> usable, guard_size |-> Page,
                                mapping_size |-> usable + Page]
    BY <1>1, <1>6 DEF mt_stack_alloc, v, usable
  <1> QED BY <1>1, <1>4, <1>5, <1>7 DEF v
=============================================================================
