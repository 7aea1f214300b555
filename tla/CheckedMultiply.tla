-------------------------- MODULE CheckedMultiply --------------------------
(***************************************************************************)
(* checked_multiply_u32 (src/ee/runtime/heap.c), which calloc uses: the    *)
(* product of two words by shifting and adding, or a refusal when it does  *)
(* not fit.  One step is one pass of its loop.                             *)
(***************************************************************************)
EXTENDS Integers, TLAPS

CONSTANT Half \* half the number of words, 2^31

Words == 2 * Half
Word  == 0 .. Words - 1

VARIABLES left, right, result, \* the parameters and the local of that name
          pc,                  \* "loop", "done" (returned 0), "refused" (returned -1)
          x, y                 \* modelling state: the factors

vars == <<left, right, result, pc, x, y>>

Init == /\ x \in Word /\ y \in Word
        /\ left = x /\ right = y /\ result = 0
        /\ pc = "loop"

\* The lowest bit of right is set: left is added, if the sum is a word.
Add == /\ right % 2 = 1
       /\ result <= Words - 1 - left
       /\ result' = result + left

\* The other bits wait for a left twice as large, if that is a word.
Shift == /\ right' = right \div 2
         /\ IF right' = 0 THEN left' = left
            ELSE left <= Half - 1 /\ left' = 2 * left

Pass == /\ pc = "loop" /\ right # 0
        /\ Add \/ (right % 2 = 0 /\ result' = result)
        /\ Shift
        /\ UNCHANGED <<pc, x, y>>

Refuse == /\ pc = "loop" /\ right # 0
          /\ \/ right % 2 = 1 /\ result > Words - 1 - left
             \/ right \div 2 # 0 /\ left > Half - 1
          /\ pc' = "refused"
          /\ UNCHANGED <<left, right, result, x, y>>

Finish == /\ pc = "loop" /\ right = 0
          /\ pc' = "done"
          /\ UNCHANGED <<left, right, result, x, y>>

Next == Pass \/ Refuse \/ Finish

Spec == Init /\ [][Next]_vars
-----------------------------------------------------------------------------
\* The locals stay words: no addition or shift of the loop overflows.
TypeOK == /\ left \in Word /\ right \in Word /\ result \in Word
          /\ pc \in {"loop", "done", "refused"}
          /\ x \in Word /\ y \in Word

\* The multiplication is exact: it returns the product of any two words whose
\* product is a word, and refuses all others.
Exact == /\ pc = "done" => result = x * y
         /\ pc = "refused" => x * y >= Words
-----------------------------------------------------------------------------
\* What is still to be added is one left for each unit of right.
Partial == /\ pc = "loop" => result + left * right = x * y
           /\ pc = "done" => result = x * y
           /\ pc = "refused" => x * y >= Words

\* Halving a word.
LEMMA Halves ==
  ASSUME NEW n \in Nat
  PROVE  /\ n \div 2 \in Nat /\ n % 2 \in {0, 1} /\ n = 2 * (n \div 2) + (n % 2)
  OBVIOUS

\* A factor of at least one does not make a product smaller.
LEMMA Grows ==
  ASSUME NEW a \in Nat, NEW n \in Nat, n >= 1
  PROVE  a * n \in Nat /\ a * n >= a
  <1>1. PICK k \in Nat : n = k + 1
    <2>1. n - 1 \in Nat /\ n = (n - 1) + 1
      OBVIOUS
    <2> QED BY <2>1
  <1>2. a * n = a * k + a /\ a * k \in Nat
    BY <1>1
  <1> QED BY <1>2

\* The parts of one pass.
LEMMA PassParts ==
  ASSUME NEW a \in Nat, NEW n \in Nat
  PROVE  /\ n % 2 = 1 => a * n = a + 2 * a * (n \div 2)
         /\ n % 2 = 0 => a * n = 2 * a * (n \div 2)
         /\ n = 1 => a * n = a
  <1> DEFINE k == n \div 2
  <1>1. k \in Nat /\ n = 2 * k + (n % 2)
    BY Halves
  <1> HIDE DEF k
  <1>2. n % 2 = 1 => a * n = a + 2 * a * k
    BY <1>1
  <1>3. n % 2 = 0 => a * n = 2 * a * k
    BY <1>1
  <1> QED BY <1>2, <1>3 DEF k

\* calloc's overflow check is exact for every word size (heap.c,
\* checked_multiply_u32).
THEOREM MultiplyExact ==
  ASSUME Half \in Nat \ {0}
  PROVE  Spec => []Exact
  <1> DEFINE Inv == TypeOK /\ Partial
  <1> USE DEF TypeOK, Word, Words
  <1>1. Init => Inv
    BY DEF Init, Partial
  <1>2. Inv /\ [Next]_vars => Inv'
    <2> SUFFICES ASSUME Inv, Next PROVE Inv'
      BY DEF vars, Partial
    <2> DEFINE k == right \div 2
    <2>1. k \in Nat /\ right % 2 \in {0, 1} /\ right = 2 * k + (right % 2)
      BY Halves
    <2>2. /\ right % 2 = 1 => left * right = left + 2 * left * k
          /\ right % 2 = 0 => left * right = 2 * left * k
      BY PassParts
    <2>3. x * y \in Nat /\ left * k \in Nat
      BY <2>1
    <2>4. CASE Pass
      <3>1. result' \in Word /\ result' + 2 * left * k = x * y
        BY <2>1, <2>2, <2>3, <2>4 DEF Pass, Add, Partial
      <3>2. right' = k /\ k \in Word /\ left' \in Word /\ left' * k = 2 * left * k
        BY <2>1, <2>4 DEF Pass, Shift
      <3> HIDE DEF k
      <3> QED BY <2>4, <3>1, <3>2 DEF Pass, Partial
    <2>5. CASE Refuse
      <3>1. result + left * right = x * y
        BY <2>5 DEF Refuse, Partial
      <3>2. right >= 1 /\ left * right >= left /\ left * right \in Nat
        BY <2>5, Grows DEF Refuse
      <3>3. CASE right % 2 = 1 /\ result > Words - 1 - left
        BY <2>5, <3>1, <3>2, <3>3 DEF Refuse, Partial
      <3>4. CASE k # 0 /\ left > Half - 1
        <4>1. left * right \in Nat /\ left * right >= 2 * left
          <5>1. left * k >= left
            BY <2>1, <3>4, Grows
          <5>2. 2 * left * k >= 2 * left
            BY <2>1, <2>3, <5>1
          <5> QED BY <2>1, <2>2, <2>3, <5>2, <3>2
        <4> QED BY <2>5, <3>1, <3>4, <4>1 DEF Refuse, Partial
      <3> QED BY <2>5, <3>3, <3>4 DEF Refuse
    <2>6. CASE Finish
      BY <2>6 DEF Finish, Partial
    <2> QED BY <2>4, <2>5, <2>6 DEF Next
  <1>3. Inv => Exact
    BY DEF Partial, Exact
  <1> QED BY <1>1, <1>2, <1>3, PTL DEF Spec
=============================================================================
