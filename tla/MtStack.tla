------------------------------- MODULE MtStack -------------------------------
(***************************************************************************)
(* The sizes of a task's stack, in machine words: 0 .. SizeMax stands for  *)
(* size_t.  The build with guard pages.                                    *)
(***************************************************************************)
EXTENDS Integers

CONSTANTS
    SizeMax,        \* SIZE_MAX
    Page,           \* mt_page_size()
    MinSize,        \* MT_MIN_STACK_SIZE
    DefaultSize     \* MT_DEFAULT_STACK_SIZE

ASSUME StackAssumption ==
    /\ SizeMax \in Nat /\ Page \in Nat /\ MinSize \in Nat /\ DefaultSize \in Nat
    /\ 0 < Page /\ 0 < MinSize /\ MinSize <= DefaultSize
    /\ DefaultSize + 2 * Page <= SizeMax

Size == 0 .. SizeMax
Wrapped(n) == n % (SizeMax + 1)

mt_round_up(value) ==
    LET rem == value % Page IN IF rem = 0 THEN value ELSE Wrapped(value + (Page - rem))

\* What is asked for, and what is mapped for it: the guard page below, the usable
\* part above.  A size below the least one is refused.
Requested(size) == IF size = 0 THEN DefaultSize ELSE size
mt_stack_alloc(size) ==
    LET usable == mt_round_up(Requested(size)) IN
    IF Requested(size) < MinSize THEN [rc |-> "INVALID"]
    ELSE [rc |-> "OK", usable_size |-> usable, guard_size |-> Page,
          mapping_size |-> Wrapped(usable + Page)]
=============================================================================
