---------------------------- MODULE MtTimeProofs ----------------------------
(***************************************************************************)
(* The arithmetic of deadlines, for every size of the machine word.        *)
(***************************************************************************)
EXTENDS MtTime, TLAPS

\* The quotient of two machine words.
LEMMA Quotient ==
    ASSUME NEW a \in Nat, NEW n \in Nat, n > 0
    PROVE  a \div n \in Nat /\ n * (a \div n) <= a /\ a < n * (a \div n) + n
  OBVIOUS

\* A product with a smaller factor is smaller.
LEMMA Product ==
    ASSUME NEW n \in Nat, NEW a \in Nat, NEW b \in Nat, a <= b
    PROVE  n * a <= n * b
  OBVIOUS

\* The deadline of mt_sleep_ms, of a select and of a descriptor wait is the sum
\* asked for, or the end of time if that does not fit into a word: it never
\* wraps around, which would make the call return at once.
THEOREM DeadlineExact ==
    ASSUME NEW now \in Word, NEW ms \in Word
    PROVE  mt_deadline_from_timeout(now, ms) =
             IF now + ms * NsPerMs > WordMax THEN WordMax ELSE now + ms * NsPerMs
  <1> DEFINE q == WordMax \div NsPerMs
  <1>1. WordMax \in Nat /\ NsPerMs \in Nat /\ now \in Nat /\ ms \in Nat /\ now <= WordMax
    BY TimeAssumption DEF Word
  <1>2. q \in Nat /\ NsPerMs * q <= WordMax /\ WordMax < NsPerMs * q + NsPerMs
    BY <1>1, Quotient, TimeAssumption
  <1>3. ms * NsPerMs \in Nat
    BY <1>1
  <1> HIDE DEF q
  <1>4. CASE ms > q
    <2>1. NsPerMs * (q + 1) <= NsPerMs * ms
      BY <1>1, <1>2, <1>4, Product
    <2>2. ms * NsPerMs > WordMax
      BY <1>1, <1>2, <2>1
    <2> QED BY <1>1, <1>3, <1>4, <2>2 DEF mt_deadline_from_timeout, q
  <1>5. CASE ~(ms > q)
    BY <1>1, <1>3, <1>5 DEF mt_deadline_from_timeout, q
  <1> QED BY <1>4, <1>5

\* What a loop of mt_fd_read, mt_fd_write or mt_net_accept passes on to its next
\* wait is at least what is left until its deadline, and less than 1 ms more,
\* once the clock has run for 1 ms: the loop does not give up early.
THEOREM TimeoutLeft ==
    ASSUME NEW now \in Word, NEW deadline \in Word,
           now < deadline, now >= NsPerMs - 1
    PROVE  LET left == mt_timeout_left_ms(deadline, now) IN
             /\ left \in Nat /\ left > 0
             /\ NsPerMs * left >= deadline - now
             /\ NsPerMs * left < deadline - now + NsPerMs
  <1> DEFINE a == (deadline - now) + NsPerMs - 1
             left == a \div NsPerMs
  <1>1. WordMax \in Nat /\ NsPerMs \in Nat /\ NsPerMs > 0 /\ now \in Nat /\ deadline \in Nat
        /\ deadline <= WordMax
    BY TimeAssumption DEF Word
  <1>2. a \in Nat /\ a < WordMax + 1
    BY <1>1
  <1>3. a % (WordMax + 1) = a
    <2> HIDE DEF a
    <2> QED BY <1>1, <1>2
  <1>4. mt_timeout_left_ms(deadline, now) = left
    BY <1>1, <1>3 DEF mt_timeout_left_ms
  <1>5. left \in Nat /\ NsPerMs * left <= a /\ a < NsPerMs * left + NsPerMs
    <2> HIDE DEF a
    <2> QED BY <1>1, <1>2, Quotient
  <1> HIDE DEF left
  <1>6. NsPerMs * left \in Nat
    BY <1>1, <1>5
  <1>7. NsPerMs * left >= deadline - now /\ NsPerMs * left < deadline - now + NsPerMs
    BY <1>1, <1>5, <1>6
  <1>8. left > 0
    BY <1>1, <1>5, <1>7
  <1> QED BY <1>4, <1>5, <1>7, <1>8
=============================================================================
