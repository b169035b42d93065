----------------------------- MODULE FoldSteps -----------------------------
(***************************************************************************)
(* What FoldLeft does, turn by turn.  The library defines it by a function *)
(* of the sets of places still to be folded; that there is such a function *)
(* has to be proved before anything can be said of its value.              *)
(*                                                                         *)
(* There is an instance for each loop, so the module extends no more than  *)
(* it must: FoldLeft is written out in Loop, and the induction over the    *)
(* natural numbers is a hypothesis, which is a theorem of the library.     *)
(***************************************************************************)
EXTENDS Integers

CONSTANTS
    Turn(_, _, _),         \* a turn: what the loop is about, what it has got to, an element
    Holds(_, _, _, _, _)   \* what is claimed: what it is about, where it starts, the sequence,
                           \* the number of turns and what it has got to

\* FoldLeft(LAMBDA done, x : Turn(of, done, x), start, seq), as the library has it
Last(S) == CHOOSE x \in S : \A y \in S : x >= y
Loop(of, start, seq) ==
    LET iter[S \in SUBSET DOMAIN seq] ==
            IF S = {} THEN start
            ELSE LET x == Last(S) IN Turn(of, iter[S \ {x}], seq[x])
    IN  iter[DOMAIN seq]

-----------------------------------------------------------------------------
LEMMA GreatestIsLast ==
  ASSUME NEW n \in Nat, NEW S \in SUBSET (1 .. n), n \in S
  PROVE  Last(S) = n
<1>1. \A y \in S : n >= y
  OBVIOUS
<1>2. Last(S) \in S /\ \A y \in S : Last(S) >= y
  BY <1>1 DEF Last
<1>3. n >= Last(S) /\ Last(S) >= n
  BY <1>1, <1>2
<1>4. \A y \in S : y \in Int
  OBVIOUS
<1>5. Last(S) \in Int
  BY <1>2, <1>4
<1> QED
  BY <1>3, <1>5

\* the library's function, of the sets of places in 1 .. n
Folded(of, start, seq, n, upto) ==
    upto = [S \in SUBSET (1 .. n) |->
               IF S = {} THEN start ELSE Turn(of, upto[S \ {Last(S)}], seq[Last(S)])]

LEMMA OneMore ==
  ASSUME NEW of, NEW start, NEW seq, NEW n \in Nat, n # 0, NEW less, Folded(of, start, seq, n - 1, less)
  PROVE  \E upto : Folded(of, start, seq, n, upto)
<1> DEFINE upto == [S \in SUBSET (1 .. n) |->
                       IF n \in S THEN Turn(of, less[S \ {n}], seq[n]) ELSE less[S]]
           Value(S) == IF S = {} THEN start ELSE Turn(of, upto[S \ {Last(S)}], seq[Last(S)])
<1>1. ASSUME NEW S \in SUBSET (1 .. n), n \in S
      PROVE  upto[S] = Value(S)
  <2>1. Last(S) = n
    BY <1>1, GreatestIsLast
  <2>2. S \ {n} \in SUBSET (1 .. n) /\ n \notin S \ {n}
    OBVIOUS
  <2>3. upto[S \ {n}] = less[S \ {n}]
    BY <2>2
  <2>4. upto[S] = Turn(of, less[S \ {n}], seq[n])
    BY <1>1
  <2> HIDE DEF upto
  <2> QED
    BY <1>1, <2>1, <2>3, <2>4
<1>2. ASSUME NEW S \in SUBSET (1 .. n), n \notin S
      PROVE  upto[S] = Value(S)
  <2>1. \A T \in SUBSET S : T \in SUBSET (1 .. n - 1)
    BY <1>2
  <2>2. \A T \in SUBSET S : upto[T] = less[T]
    BY <1>2
  <2>3. S \ {Last(S)} \in SUBSET S /\ S \in SUBSET S
    OBVIOUS
  <2>4. less[S] = IF S = {} THEN start ELSE Turn(of, less[S \ {Last(S)}], seq[Last(S)])
    BY <2>1, <2>3 DEF Folded
  <2>5. upto[S] = less[S] /\ upto[S \ {Last(S)}] = less[S \ {Last(S)}]
    BY <2>2, <2>3
  <2> HIDE DEF upto
  <2> QED
    BY <2>4, <2>5
<1>3. upto = [S \in SUBSET (1 .. n) |-> Value(S)]
  <2>1. \A S \in SUBSET (1 .. n) : upto[S] = Value(S)
    BY <1>1, <1>2
  <2>2. upto = [S \in SUBSET (1 .. n) |-> upto[S]]
    OBVIOUS
  <2> HIDE DEF upto
  <2> QED
    BY <2>1, <2>2
<1>4. Folded(of, start, seq, n, upto)
  <2> HIDE DEF upto
  <2> QED
    BY <1>3 DEF Folded
<1> QED
  BY <1>4

LEMMA FoldedExists ==
  ASSUME NEW of, NEW start, NEW seq, NEW n \in Nat,
         \A S : S \subseteq Nat /\ S # {} => \E k \in S : \A j \in S : k <= j
  PROVE  \E upto : Folded(of, start, seq, n, upto)
<1> DEFINE Never == {k \in Nat : ~ \E upto : Folded(of, start, seq, k, upto)}
<1> SUFFICES ASSUME Never # {} PROVE FALSE
  OBVIOUS
<1>1. PICK k \in Never : \A j \in Never : k <= j
  OBVIOUS
<1>2. CASE k = 0
  <2> DEFINE none == [S \in SUBSET (1 .. 0) |-> start]
  <2>1. \A S \in SUBSET (1 .. 0) : S = {}
    OBVIOUS
  <2>2. none = [S \in SUBSET (1 .. 0) |-> IF S = {} THEN start ELSE Turn(of, none[S \ {Last(S)}], seq[Last(S)])]
    BY <2>1
  <2>3. Folded(of, start, seq, 0, none)
    <3> HIDE DEF none
    <3> QED
      BY <2>2 DEF Folded
  <2> QED
    BY <1>2, <2>3
<1>3. CASE k # 0
  <2>1. k - 1 \in Nat /\ k - 1 < k
    BY <1>3
  <2>3. k - 1 \notin Never
    BY <1>1, <2>1
  <2>4. PICK less : Folded(of, start, seq, k - 1, less)
    BY <2>1, <2>3
  <2>5. \E upto : Folded(of, start, seq, k, upto)
    BY <1>3, <2>4, OneMore
  <2> QED
    BY <2>5
<1> QED
  BY <1>2, <1>3

Turns(of, start, seq, n, upto) ==
    /\ upto[0] = start
    /\ \A i \in 1 .. n : upto[i] = Turn(of, upto[i - 1], seq[i])

(***************************************************************************)
(* A loop has a value for each number of turns: the start, then a turn     *)
(* with each element; its own value is the last.                           *)
(***************************************************************************)
LEMMA LoopTurns ==
  ASSUME NEW of, NEW start, NEW seq, NEW n \in Nat, DOMAIN seq = 1 .. n,
         \A S : S \subseteq Nat /\ S # {} => \E k \in S : \A j \in S : k <= j
  PROVE  \E upto : Turns(of, start, seq, n, upto) /\ Loop(of, start, seq) = upto[n]
<1> DEFINE Whole == CHOOSE upto : Folded(of, start, seq, n, upto)
           turns == [i \in 0 .. n |-> Whole[1 .. i]]
<1>1. Folded(of, start, seq, n, Whole)
  BY FoldedExists
<1>2. Loop(of, start, seq) = Whole[1 .. n]
  BY DEF Loop, Folded
<1> HIDE DEF Whole
<1>3. turns[0] = start
  <2>1. 1 .. 0 = {} /\ {} \in SUBSET (1 .. n)
    OBVIOUS
  <2> QED
    BY <1>1, <2>1 DEF Folded
<1>4. ASSUME NEW i \in 1 .. n
      PROVE  turns[i] = Turn(of, turns[i - 1], seq[i])
  <2>1. 1 .. i \in SUBSET (1 .. n) /\ i \in 1 .. i /\ i \in Nat
    OBVIOUS
  <2>5. (1 .. i) \ {i} = 1 .. i - 1
    BY <2>1
  <2>2. Last(1 .. i) = i
    BY <2>1, GreatestIsLast
  <2>6. 1 .. i # {}
    BY <2>1
  <2>3. Whole[1 .. i] = Turn(of, Whole[1 .. i - 1], seq[i])
    BY <1>1, <2>1, <2>2, <2>5, <2>6 DEF Folded
  <2> QED
    BY <2>3
<1>5. Loop(of, start, seq) = turns[n]
  BY <1>2
<1> HIDE DEF turns
<1> QED
  BY <1>3, <1>4, <1>5 DEF Turns

(***************************************************************************)
(* What holds at the start and is kept by each turn holds after the loop.  *)
(***************************************************************************)
LEMMA LoopKeeps ==
  ASSUME NEW of, NEW start, NEW seq, NEW n \in Nat, DOMAIN seq = 1 .. n,
         \A S : S \subseteq Nat /\ S # {} => \E k \in S : \A j \in S : k <= j,
         Holds(of, start, seq, 0, start),
         \A i \in 1 .. n : \A done :
            Holds(of, start, seq, i - 1, done) => Holds(of, start, seq, i, Turn(of, done, seq[i]))
  PROVE  Holds(of, start, seq, n, Loop(of, start, seq))
<1>1. PICK upto : Turns(of, start, seq, n, upto) /\ Loop(of, start, seq) = upto[n]
  BY LoopTurns
<1> DEFINE Never == {k \in Nat : k \in 0 .. n /\ ~Holds(of, start, seq, k, upto[k])}
<1>2. Never = {}
  <2> SUFFICES ASSUME Never # {} PROVE FALSE
    OBVIOUS
  <2>1. PICK k \in Never : \A j \in Never : k <= j
    OBVIOUS
  <2>2. k # 0
    BY <1>1 DEF Turns
  <2>3. k - 1 \in 0 .. n /\ k - 1 < k /\ k \in 1 .. n /\ k - 1 \in Nat
    BY <2>2
  <2>5. Holds(of, start, seq, k - 1, upto[k - 1])
    BY <2>1, <2>3
  <2>6. Holds(of, start, seq, k, Turn(of, upto[k - 1], seq[k]))
    BY <2>3, <2>5
  <2>7. Holds(of, start, seq, k, upto[k])
    BY <1>1, <2>3, <2>6 DEF Turns
  <2> QED
    BY <2>7
<1> QED
  BY <1>1, <1>2
=============================================================================
