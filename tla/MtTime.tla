------------------------------- MODULE MtTime -------------------------------
(***************************************************************************)
(* Deadlines, in machine words: 0 .. WordMax stands for uint64_t.          *)
(***************************************************************************)
EXTENDS Integers

CONSTANTS
    WordMax,    \* UINT64_MAX
    NsPerMs     \* MT_NS_PER_MS

ASSUME TimeAssumption == WordMax \in Nat /\ NsPerMs \in Nat /\ 0 < NsPerMs /\ NsPerMs <= WordMax

Word == 0 .. WordMax

\* The deadline of mt_sleep_ms, of a select and of a descriptor wait.
mt_deadline_from_timeout(now, ms) ==
    LET ns == IF ms > WordMax \div NsPerMs THEN WordMax ELSE ms * NsPerMs IN
    IF WordMax - now < ns THEN WordMax ELSE now + ns

\* What is left of it, rounded up.
mt_timeout_left_ms(deadline, now) ==
    IF deadline <= now THEN 0
    ELSE (((deadline - now) + NsPerMs - 1) % (WordMax + 1)) \div NsPerMs
=============================================================================
