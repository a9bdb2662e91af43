--------------------------- MODULE TaskManagerProofs ---------------------------
(***************************************************************************)
(* Proofs about TaskManager, for every number of tasks and queue levels,    *)
(* every boost interval and every size of the keyboard buffer.              *)
(*                                                                         *)
(* The invariants of the runs are proved together, as consequences of one   *)
(* inductive invariant, IInv: which queue a task is in depends on who owns  *)
(* the CPU (a running task is in none), which tasks can be killed depends   *)
(* on the child lists, and the types of the lists depend on their having    *)
(* no repetition.                                                           *)
(***************************************************************************)
EXTENDS TaskManager, SequenceTheorems, WellFoundedInduction, TLAPS

-----------------------------------------------------------------------------
(* Facts about sequences without repetition, which model the kernel's       *)
(* linked lists: what appending, removing, reversing and cutting do to the  *)
(* set of elements, and where a search for an element stops.                *)

\* No element stands twice in s.
Distinct(s) == \A i, j \in DOMAIN s : s[i] = s[j] => i = j

\* The two ways to say that e stands in s.
LEMMA ContainsIsMember ==
    ASSUME NEW S, NEW s \in Seq(S), NEW e
    PROVE  Contains(s, e) <=> e \in ToSet(s)
BY LenProperties DEF Contains, ToSet

LEMMA EmptyList == Distinct(<<>>) /\ ToSet(<<>>) = {}
BY DEF Distinct, ToSet

LEMMA ToSetType ==
    ASSUME NEW S, NEW s \in Seq(S)
    PROVE  ToSet(s) \subseteq S
BY LenProperties DEF ToSet

\* Appending an element.
LEMMA AppendList ==
    ASSUME NEW S, NEW s \in Seq(S), NEW e \in S
    PROVE  /\ Append(s, e) \in Seq(S)
           /\ ToSet(Append(s, e)) = ToSet(s) \cup {e}
           /\ Distinct(s) /\ e \notin ToSet(s) => Distinct(Append(s, e))
<1> DEFINE a == Append(s, e)
<1>1. /\ a \in Seq(S)
      /\ Len(a) = Len(s) + 1
      /\ \A i \in 1 .. Len(s) : a[i] = s[i]
      /\ a[Len(s) + 1] = e
  BY AppendProperties
<1>2. /\ Len(s) \in Nat
      /\ DOMAIN s = 1 .. Len(s)
      /\ DOMAIN a = 1 .. Len(s) + 1
  BY <1>1, LenProperties
<1> HIDE DEF a
<1>3. ToSet(a) = ToSet(s) \cup {e}
  <2>1. ToSet(a) \subseteq ToSet(s) \cup {e}
    BY <1>1, <1>2 DEF ToSet
  <2>2. \A i \in DOMAIN s : s[i] \in ToSet(a)
    BY <1>1, <1>2 DEF ToSet
  <2>3. e \in ToSet(a)
    BY <1>1, <1>2 DEF ToSet
  <2> QED
    BY <2>1, <2>2, <2>3 DEF ToSet
<1>4. Distinct(s) /\ e \notin ToSet(s) => Distinct(a)
  BY <1>1, <1>2 DEF Distinct, ToSet
<1> QED
  BY <1>1, <1>3, <1>4 DEF a

\* Taking the head.
LEMMA TailList ==
    ASSUME NEW S, NEW s \in Seq(S), s # <<>>
    PROVE  /\ Head(s) \in S /\ Head(s) \in ToSet(s)
           /\ Tail(s) \in Seq(S)
           /\ Distinct(s) => Distinct(Tail(s)) /\ ToSet(Tail(s)) = ToSet(s) \ {Head(s)}
<1> DEFINE t == Tail(s)
<1>1. /\ Head(s) \in S
      /\ t \in Seq(S)
      /\ Len(t) = Len(s) - 1
      /\ \A i \in 1 .. Len(t) : t[i] = s[i + 1]
  BY HeadTailProperties
<1>2. /\ Len(s) \in Nat \ {0}
      /\ DOMAIN s = 1 .. Len(s)
      /\ DOMAIN t = 1 .. Len(s) - 1
  BY <1>1, LenProperties, EmptySeq
<1>3. Head(s) = s[1]
  OBVIOUS
<1> HIDE DEF t
<1>4. Head(s) \in ToSet(s)
  BY <1>2, <1>3 DEF ToSet
<1>5. ASSUME Distinct(s)
      PROVE  Distinct(t) /\ ToSet(t) = ToSet(s) \ {Head(s)}
  <2>1. Distinct(t)
    <3> SUFFICES ASSUME NEW i \in DOMAIN t, NEW j \in DOMAIN t, t[i] = t[j]
                 PROVE  i = j
      BY DEF Distinct
    <3>1. i + 1 \in DOMAIN s /\ j + 1 \in DOMAIN s /\ s[i + 1] = s[j + 1]
      BY <1>1, <1>2
    <3>2. i + 1 = j + 1
      BY <1>5, <3>1 DEF Distinct
    <3> QED
      BY <1>2, <3>2
  <2>2. \A i \in DOMAIN t : t[i] \in ToSet(s) \ {Head(s)}
    BY <1>1, <1>2, <1>3, <1>5 DEF Distinct, ToSet
  <2>3. ASSUME NEW i \in DOMAIN s, s[i] # s[1]
        PROVE  s[i] \in ToSet(t)
    <3>1. i - 1 \in DOMAIN t /\ t[i - 1] = s[i]
      BY <1>1, <1>2, <2>3
    <3> QED
      BY <3>1 DEF ToSet
  <2> QED
    BY <1>3, <2>1, <2>2, <2>3 DEF ToSet
<1> QED
  BY <1>1, <1>4, <1>5 DEF t

\* Cutting off the first n elements.
LEMMA SuffixList ==
    ASSUME NEW S, NEW s \in Seq(S), NEW n \in 0 .. Len(s), Distinct(s)
    PROVE  /\ SubSeq(s, n + 1, Len(s)) \in Seq(S)
           /\ Distinct(SubSeq(s, n + 1, Len(s)))
           /\ ToSet(SubSeq(s, n + 1, Len(s))) = {s[i] : i \in n + 1 .. Len(s)}
<1> DEFINE t == SubSeq(s, n + 1, Len(s))
<1>1. /\ Len(s) \in Nat
      /\ DOMAIN s = 1 .. Len(s)
      /\ \A i \in 1 .. Len(s) : s[i] \in S
  BY LenProperties
<1>2. \A i \in n + 1 .. Len(s) : s[i] \in S
  BY <1>1
<1>3. /\ t \in Seq(S)
      /\ Len(t) = IF n + 1 <= Len(s) THEN Len(s) - (n + 1) + 1 ELSE 0
      /\ \A i \in 1 .. Len(s) - (n + 1) + 1 : t[i] = s[(n + 1) + i - 1]
  BY <1>1, <1>2, SubSeqProperties
<1>4. /\ DOMAIN t = 1 .. Len(s) - n
      /\ \A i \in 1 .. Len(s) - n : t[i] = s[n + i]
  <2>1. DOMAIN t = 1 .. Len(t)
    BY <1>3, LenProperties
  <2> HIDE DEF t
  <2>2. n \in Nat /\ n <= Len(s) /\ Len(s) \in Nat
    BY <1>1
  <2>3. Len(t) = Len(s) - n
    <3>1. Len(t) = IF n + 1 <= Len(s) THEN Len(s) - (n + 1) + 1 ELSE 0
      BY <1>3
    <3> QED
      BY <2>2, <3>1
  <2>4. ASSUME NEW i \in 1 .. Len(s) - n
        PROVE  t[i] = s[n + i]
    <3>1. i \in 1 .. Len(s) - (n + 1) + 1 /\ (n + 1) + i - 1 = n + i
      BY <2>2
    <3>2. t[i] = s[(n + 1) + i - 1]
      BY <1>3, <3>1
    <3> QED
      BY <3>1, <3>2
  <2> QED
    BY <2>1, <2>3, <2>4
<1> HIDE DEF t
<1>5. Distinct(t)
  <2> SUFFICES ASSUME NEW i \in DOMAIN t, NEW j \in DOMAIN t, t[i] = t[j]
               PROVE  i = j
    BY DEF Distinct
  <2>1. n + i \in DOMAIN s /\ n + j \in DOMAIN s /\ s[n + i] = s[n + j]
    BY <1>1, <1>4
  <2>2. n + i = n + j
    BY <2>1 DEF Distinct
  <2> QED
    BY <1>1, <1>4, <2>2
<1>6. ToSet(t) = {s[i] : i \in n + 1 .. Len(s)}
  <2>1. ASSUME NEW i \in DOMAIN t
        PROVE  t[i] \in {s[k] : k \in n + 1 .. Len(s)}
    <3>1. n + i \in n + 1 .. Len(s) /\ t[i] = s[n + i]
      BY <1>1, <1>4
    <3> QED
      BY <3>1
  <2>2. ASSUME NEW i \in n + 1 .. Len(s)
        PROVE  s[i] \in ToSet(t)
    <3>1. i - n \in DOMAIN t /\ t[i - n] = s[i]
      BY <1>1, <1>4
    <3> QED
      BY <3>1 DEF ToSet
  <2> QED
    BY <2>1, <2>2 DEF ToSet
<1> QED
  BY <1>3, <1>5, <1>6 DEF t

\* Concatenating two lists with no element in common.
LEMMA ConcatList ==
    ASSUME NEW S, NEW s \in Seq(S), NEW t \in Seq(S),
           Distinct(s), Distinct(t), ToSet(s) \cap ToSet(t) = {}
    PROVE  /\ s \o t \in Seq(S)
           /\ Distinct(s \o t)
           /\ ToSet(s \o t) = ToSet(s) \cup ToSet(t)
<1> DEFINE c == s \o t
           m == Len(s)
           n == Len(t)
<1>1. /\ m \in Nat /\ n \in Nat
      /\ DOMAIN s = 1 .. m /\ DOMAIN t = 1 .. n
  BY LenProperties
<1>2. /\ c \in Seq(S)
      /\ Len(c) = m + n
      /\ \A i \in 1 .. m + n : c[i] = IF i <= m THEN s[i] ELSE t[i - m]
  BY ConcatProperties
<1>3. DOMAIN c = 1 .. m + n
  BY <1>2, LenProperties
<1> HIDE DEF c, m, n
<1>4. \A i \in 1 .. m + n : IF i <= m THEN i \in DOMAIN s ELSE i - m \in DOMAIN t
  BY <1>1
<1>5. Distinct(c)
  <2> SUFFICES ASSUME NEW i \in 1 .. m + n, NEW j \in 1 .. m + n, c[i] = c[j]
               PROVE  i = j
    BY <1>3 DEF Distinct
  <2>1. CASE i <= m /\ j <= m
    BY <1>2, <1>4, <2>1 DEF Distinct
  <2>2. CASE i > m /\ j > m
    <3>1. ~(i <= m) /\ ~(j <= m)
      BY <1>1, <2>2
    <3>2. i - m \in DOMAIN t /\ j - m \in DOMAIN t /\ t[i - m] = t[j - m]
      BY <1>2, <1>4, <3>1
    <3>3. i - m = j - m
      BY <3>2 DEF Distinct
    <3> QED
      BY <1>1, <3>3
  <2>3. CASE i <= m /\ j > m
    <3>1. ~(j <= m)
      BY <1>1, <2>3
    <3>2. i \in DOMAIN s /\ c[i] = s[i]
      BY <1>2, <1>4, <2>3
    <3>3. j - m \in DOMAIN t /\ c[j] = t[j - m]
      BY <1>2, <1>4, <3>1
    <3>4. c[i] \in ToSet(s) /\ c[j] \in ToSet(t)
      BY <3>2, <3>3 DEF ToSet
    <3> QED
      BY <3>4
  <2>4. CASE i > m /\ j <= m
    <3>1. ~(i <= m)
      BY <1>1, <2>4
    <3>2. j \in DOMAIN s /\ c[j] = s[j]
      BY <1>2, <1>4, <2>4
    <3>3. i - m \in DOMAIN t /\ c[i] = t[i - m]
      BY <1>2, <1>4, <3>1
    <3>4. c[j] \in ToSet(s) /\ c[i] \in ToSet(t)
      BY <3>2, <3>3 DEF ToSet
    <3> QED
      BY <3>4
  <2> QED
    BY <1>1, <2>1, <2>2, <2>3, <2>4
<1>6. ToSet(c) = ToSet(s) \cup ToSet(t)
  <2>1. \A i \in DOMAIN c : c[i] \in ToSet(s) \cup ToSet(t)
    BY <1>2, <1>3, <1>4 DEF ToSet
  <2>2. ASSUME NEW i \in DOMAIN s
        PROVE  s[i] \in ToSet(c)
    <3>1. i \in DOMAIN c /\ c[i] = s[i]
      BY <1>1, <1>2, <1>3
    <3> QED
      BY <3>1 DEF ToSet
  <2>3. ASSUME NEW i \in DOMAIN t
        PROVE  t[i] \in ToSet(c)
    <3>1. m + i \in DOMAIN c /\ c[m + i] = t[i]
      BY <1>1, <1>2, <1>3
    <3> QED
      BY <3>1 DEF ToSet
  <2> QED
    BY <2>1, <2>2, <2>3 DEF ToSet
<1> QED
  BY <1>2, <1>5, <1>6 DEF c

\* Reversing a list.
LEMMA ReverseList ==
    ASSUME NEW S, NEW s \in Seq(S), Distinct(s)
    PROVE  /\ Reverse(s) \in Seq(S)
           /\ Distinct(Reverse(s))
           /\ ToSet(Reverse(s)) = ToSet(s)
<1> DEFINE r == Reverse(s)
           n == Len(s)
<1>1. /\ n \in Nat
      /\ DOMAIN s = 1 .. n
      /\ \A i \in 1 .. n : s[i] \in S
  BY LenProperties
<1>2. \A i \in 1 .. n : (n - i) + 1 \in 1 .. n
  BY <1>1
<1>3. r = [i \in 1 .. n |-> s[(n - i) + 1]]
  BY DEF Reverse
<1> HIDE DEF r, n
<1>4. r \in Seq(S)
  <2>1. r \in [1 .. n -> S]
    BY <1>1, <1>2, <1>3
  <2> QED
    BY <1>1, <2>1, SeqDef
<1>5. Distinct(r)
  <2> SUFFICES ASSUME NEW i \in 1 .. n, NEW j \in 1 .. n, r[i] = r[j]
               PROVE  i = j
    BY <1>3 DEF Distinct
  <2>1. (n - i) + 1 = (n - j) + 1
    BY <1>1, <1>2, <1>3 DEF Distinct
  <2> QED
    BY <1>1, <2>1
<1>6. ToSet(r) = ToSet(s)
  <2>1. \A i \in 1 .. n : r[i] \in ToSet(s)
    BY <1>1, <1>2, <1>3 DEF ToSet
  <2>2. ASSUME NEW i \in 1 .. n
        PROVE  s[i] \in ToSet(r)
    <3>1. (n - i) + 1 \in DOMAIN r /\ r[(n - i) + 1] = s[i]
      <4>1. (n - i) + 1 \in 1 .. n /\ (n - ((n - i) + 1)) + 1 = i
        BY <1>1
      <4> QED
        BY <1>3, <4>1
    <3> QED
      BY <3>1 DEF ToSet
  <2> QED
    BY <1>1, <1>3, <2>1, <2>2 DEF ToSet
<1> QED
  BY <1>4, <1>5, <1>6 DEF r

\* Removing an element, which may be absent.
LEMMA RemoveList ==
    ASSUME NEW S, NEW s \in Seq(S), NEW e, Distinct(s)
    PROVE  /\ RemoveFirst(s, e) \in Seq(S)
           /\ Distinct(RemoveFirst(s, e))
           /\ ToSet(RemoveFirst(s, e)) = ToSet(s) \ {e}
<1>1. /\ Len(s) \in Nat
      /\ DOMAIN s = 1 .. Len(s)
      /\ \A i \in 1 .. Len(s) : s[i] \in S
  BY LenProperties
<1>2. CASE ~ \E i \in 1 .. Len(s) : s[i] = e
  <2>1. RemoveFirst(s, e) = s
    BY <1>2 DEF RemoveFirst
  <2>2. e \notin ToSet(s)
    BY <1>1, <1>2 DEF ToSet
  <2> QED
    BY <2>1, <2>2
<1>3. CASE \E i \in 1 .. Len(s) : s[i] = e
  <2>1. PICK k \in 1 .. Len(s) : s[k] = e
    BY <1>3
  <2> DEFINE I == {i \in 1 .. Len(s) : s[i] = e}
             front == SubSeq(s, 1, k - 1)
             back == SubSeq(s, k + 1, Len(s))
  <2>2. I = {k}
    BY <1>1, <2>1 DEF Distinct
  <2>3. Min(I) = k
    BY <1>1, <2>2 DEF Min
  <2>4. SelectInSeq(s, LAMBDA v : v = e) = k
    BY <2>2, <2>3 DEF SelectInSeq
  <2>5. RemoveFirst(s, e) = front \o back
    BY <1>3, <2>4 DEF RemoveFirst, RemoveAt
  <2>6. /\ back \in Seq(S) /\ Distinct(back)
        /\ ToSet(back) = {s[i] : i \in k + 1 .. Len(s)}
    BY <1>1, <2>1, SuffixList
  <2>7. /\ front \in Seq(S) /\ Distinct(front)
        /\ ToSet(front) = {s[i] : i \in 1 .. k - 1}
    <3>1. /\ front \in Seq(S)
          /\ Len(front) = IF 1 <= k - 1 THEN (k - 1) - 1 + 1 ELSE 0
          /\ \A i \in 1 .. (k - 1) - 1 + 1 : front[i] = s[1 + i - 1]
      <4>1. \A i \in 1 .. k - 1 : s[i] \in S
        BY <1>1, <2>1
      <4> QED
        BY <1>1, <2>1, <4>1, SubSeqProperties
    <3>2. DOMAIN front = 1 .. k - 1 /\ \A i \in 1 .. k - 1 : front[i] = s[i]
      <4>1. DOMAIN front = 1 .. Len(front)
        BY <3>1, LenProperties
      <4> QED
        BY <1>1, <2>1, <3>1, <4>1
    <3> HIDE DEF front
    <3>3. Distinct(front)
      BY <1>1, <2>1, <3>2 DEF Distinct
    <3> QED
      BY <3>1, <3>2, <3>3 DEF ToSet
  <2> HIDE DEF front, back, I
  <2>8. ToSet(front) \cap ToSet(back) = {}
    BY <1>1, <2>1, <2>6, <2>7 DEF Distinct
  <2>9. /\ front \o back \in Seq(S) /\ Distinct(front \o back)
        /\ ToSet(front \o back) = ToSet(front) \cup ToSet(back)
    <3>1. front \in Seq(S) /\ back \in Seq(S) /\ Distinct(front) /\ Distinct(back)
      BY <2>6, <2>7
    <3> QED
      BY <2>8, <3>1, ConcatList
  <2>10. ToSet(front) \cup ToSet(back) = ToSet(s) \ {e}
    <3>1. \A i \in 1 .. Len(s) : i # k => i \in 1 .. k - 1 \/ i \in k + 1 .. Len(s)
      BY <1>1, <2>1
    <3>2. \A i \in 1 .. Len(s) : i # k => s[i] # e
      BY <1>1, <2>1 DEF Distinct
    <3>3. 1 .. k - 1 \subseteq 1 .. Len(s) /\ k + 1 .. Len(s) \subseteq 1 .. Len(s)
      BY <1>1, <2>1
    <3>4. k \notin 1 .. k - 1 /\ k \notin k + 1 .. Len(s)
      BY <2>1
    <3> QED
      BY <1>1, <2>1, <2>6, <2>7, <3>1, <3>2, <3>3, <3>4 DEF ToSet
  <2> QED
    BY <2>5, <2>9, <2>10
<1> QED
  BY <1>2, <1>3

\* A set of numbers that is not empty has a least member: where a search from the head of a
\* list stops.
LEMMA LeastNumber ==
    ASSUME NEW T, T \subseteq Nat, T # {}
    PROVE  \E x \in T : \A y \in T : x <= y
<1> DEFINE R == OpToRel(<, Nat)
<1>1. \E x \in T : \A y \in T : ~ (<<y, x>> \in R)
  BY NatLessThanWellFounded, WFMin, Zenon
<1>2. \A x, y \in Nat : y < x => <<y, x>> \in R
  BY Zenon DEF OpToRel
<1> HIDE DEF R
<1>3. PICK x \in T : \A y \in T : ~ (<<y, x>> \in R)
  BY <1>1
<1>4. ASSUME NEW y \in T
      PROVE  x <= y
  <2>1. x \in Nat /\ y \in Nat
    OBVIOUS
  <2>2. ~(y < x)
    BY <1>2, <1>3, <2>1, Zenon
  <2> QED
    BY <2>1, <2>2
<1> QED
  BY <1>4

\* Removing the i-th element: those behind it move up by one.
LEMMA RemoveNth ==
    ASSUME NEW S, NEW s \in Seq(S), Distinct(s), NEW i \in DOMAIN s
    PROVE  LET r == RemoveFirst(s, s[i])
           IN  /\ r \in Seq(S)
               /\ Len(r) = Len(s) - 1
               /\ \A j \in 1 .. Len(s) - 1 : r[j] = IF j < i THEN s[j] ELSE s[j + 1]
<1>1. PICK n \in Nat : n = Len(s)
  BY LenProperties
<1>2. DOMAIN s = 1 .. n /\ i \in 1 .. n /\ \A j \in 1 .. n : s[j] \in S
  BY <1>1, LenProperties
<1> DEFINE I == {j \in 1 .. Len(s) : s[j] = s[i]}
           front == SubSeq(s, 1, i - 1)
           back == SubSeq(s, i + 1, Len(s))
<1>3. I = {i}
  BY <1>1, <1>2 DEF Distinct
<1>4. Min(I) = i
  BY <1>2, <1>3 DEF Min
<1>5. SelectInSeq(s, LAMBDA v : v = s[i]) = i
  BY <1>3, <1>4 DEF SelectInSeq
<1>6. \E j \in 1 .. Len(s) : s[j] = s[i]
  BY <1>1, <1>2
<1>7. RemoveFirst(s, s[i]) = front \o back
  BY <1>5, <1>6 DEF RemoveFirst, RemoveAt
<1>8. /\ front \in Seq(S) /\ Len(front) = i - 1
      /\ \A j \in 1 .. i - 1 : front[j] = s[j]
  <2>1. \A j \in 1 .. i - 1 : s[j] \in S
    BY <1>2
  <2>2. /\ front \in Seq(S)
        /\ Len(front) = IF 1 <= i - 1 THEN (i - 1) - 1 + 1 ELSE 0
        /\ \A j \in 1 .. (i - 1) - 1 + 1 : front[j] = s[1 + j - 1]
    BY <1>1, <1>2, <2>1, SubSeqProperties
  <2> HIDE DEF front
  <2> QED
    BY <1>2, <2>2
<1>9. /\ back \in Seq(S) /\ Len(back) = n - i
      /\ \A j \in 1 .. n - i : back[j] = s[i + j]
  <2>1. \A j \in i + 1 .. Len(s) : s[j] \in S
    BY <1>1, <1>2
  <2>2. /\ back \in Seq(S)
        /\ Len(back) = IF i + 1 <= Len(s) THEN Len(s) - (i + 1) + 1 ELSE 0
        /\ \A j \in 1 .. Len(s) - (i + 1) + 1 : back[j] = s[(i + 1) + j - 1]
    BY <1>1, <1>2, <2>1, SubSeqProperties
  <2> HIDE DEF back
  <2>3. ASSUME NEW j \in 1 .. n - i
        PROVE  back[j] = s[i + j]
    <3>1. j \in 1 .. n - (i + 1) + 1 /\ (i + 1) + j - 1 = i + j
      BY <1>2
    <3> QED
      BY <1>1, <2>2, <3>1
  <2> QED
    BY <1>1, <1>2, <2>2, <2>3
<1> HIDE DEF front, back
<1> DEFINE r == front \o back
<1>10. /\ r \in Seq(S) /\ Len(r) = (i - 1) + (n - i)
       /\ \A j \in 1 .. (i - 1) + (n - i) : r[j] = IF j <= i - 1 THEN front[j] ELSE back[j - (i - 1)]
  <2>1. front \in Seq(S) /\ back \in Seq(S)
    BY <1>8, <1>9
  <2>2. /\ r \in Seq(S) /\ Len(r) = Len(front) + Len(back)
        /\ \A j \in 1 .. Len(front) + Len(back) :
              r[j] = IF j <= Len(front) THEN front[j] ELSE back[j - Len(front)]
    BY <2>1, ConcatProperties
  <2>3. Len(front) = i - 1 /\ Len(back) = n - i
    BY <1>8, <1>9
  <2> QED
    BY <2>2, <2>3
<1> HIDE DEF r
<1>11. (i - 1) + (n - i) = n - 1
  BY <1>2
<1>12. ASSUME NEW j \in 1 .. n - 1
       PROVE  r[j] = IF j < i THEN s[j] ELSE s[j + 1]
  <2>1. r[j] = IF j <= i - 1 THEN front[j] ELSE back[j - (i - 1)]
    BY <1>10, <1>11
  <2>2. CASE j < i
    BY <1>2, <1>8, <2>1, <2>2
  <2>3. CASE ~(j < i)
    <3>1. ~(j <= i - 1) /\ j - (i - 1) \in 1 .. n - i /\ i + (j - (i - 1)) = j + 1
      BY <1>2, <2>3
    <3> QED
      BY <1>9, <2>1, <2>3, <3>1
  <2> QED
    BY <2>2, <2>3
<1>13. r \in Seq(S) /\ Len(r) = Len(s) - 1
       /\ \A j \in 1 .. Len(s) - 1 : r[j] = IF j < i THEN s[j] ELSE s[j + 1]
  BY <1>1, <1>10, <1>11, <1>12
<1>14. RemoveFirst(s, s[i]) = r
  BY <1>7 DEF r
<1> QED
  BY <1>13, <1>14

-----------------------------------------------------------------------------
(* The inductive invariant.                                                 *)

\* The queues hold exactly the tasks their states call for, each once, at its level.
Queued(queues, level, state) ==
    /\ queues \in [Queues -> Seq(Tasks)]
    /\ level \in [Tasks -> Queues]
    /\ state \in [Tasks -> States]
    /\ \A q \in Queues : Distinct(queues[q])
    /\ \A q \in Queues : \A t \in ToSet(queues[q]) : level[t] = q /\ q \in QueuesFor(state[t])
    /\ \A t \in Tasks : QueuesFor(state[t]) # {} => t \in ToSet(queues[level[t]])

\* A task that runs is requeued at a ready level; idle runs for ever.
RunningInv ==
    /\ \A t \in Tasks : task_state[t] = "RUNNING" => task_queue_level[t] \in Ready
    /\ task_state[IdlePid] = "RUNNING"

\* The child lists: who is in one is allocated and has its owner as parent.
FamilyInv ==
    /\ \A p \in Tasks : Distinct(children[p])
    /\ \A p \in Tasks : \A c \in ToSet(children[p]) : parent[c] = p /\ task_state[c] # "FREE"
    /\ \A t \in Tasks : parent[t] # t
    /\ parent[IdlePid] = NoTask /\ parent[InitPid] = NoTask
    /\ task_state[InitPid] # "FREE"
    /\ \A t \in Tasks : t >= task_id => task_state[t] = "FREE"

\* The task that has the CPU, or has been picked to get it.
Owner == IF task_needs_switching THEN task_next ELSE task_current

\* Only the owner runs, and it does run unless it has just yielded.
CpuInv ==
    /\ task_current = NoTask => task_needs_switching /\ task_next = IdlePid
    /\ task_needs_switching /\ kernel # "return" => task_current = NoTask
    /\ \A t \in Tasks \ {IdlePid} : task_state[t] = "RUNNING" => t = Owner
    /\ task_state[Owner] = "RUNNING" \/ (yield /\ kernel \in {"boost", "schedule"})

\* The interval between boosts is never exceeded.
BoostInv == since_boost < BoostInterval \/ kernel = "boost"

\* Scancodes are left over only while their readers are being woken.
KeyboardInv ==
    buffer_count > 0 /\ kernel # "wake" =>
        \A t \in Tasks : task_state[t] = "BLOCKED" => ~WaitsOnKeyboard(t)

IInv ==
    /\ TypeOK
    /\ Queued(task_queues, task_queue_level, task_state)
    /\ RunningInv
    /\ FamilyInv
    /\ CpuInv
    /\ BoostInv
    /\ SliceNeverWraps
    /\ KeyboardInv

-----------------------------------------------------------------------------
(***************************************************************************)
(* The constants and the queue operations.                                  *)
(***************************************************************************)
LEMMA ConstantFacts ==
    /\ IdlePid \in Tasks /\ InitPid \in Tasks /\ IdlePid # InitPid
    /\ NoTask \notin Tasks /\ Wild \notin Tasks
    /\ 0 \in Ready /\ 0 \in Queues /\ Ready \subseteq Queues
    /\ BlockedQueue \in Queues /\ ZombieQueue \in Queues
    /\ BlockedQueue \notin Ready /\ ZombieQueue \notin Ready /\ BlockedQueue # ZombieQueue
BY MaxPidAssumption, LevelsAssumption
   DEF IdlePid, InitPid, Tasks, NoTask, Wild, Ready, Queues, BlockedQueue, ZombieQueue

\* The states and the queues that go with them.
LEMMA QueuesForFacts ==
    /\ QueuesFor("READY") = Ready
    /\ QueuesFor("BLOCKED") = {BlockedQueue}
    /\ QueuesFor("ZOMBIE") = {ZombieQueue}
    /\ QueuesFor("RUNNING") = {}
    /\ QueuesFor("FREE") = {}
    /\ Ready # {}
BY ConstantFacts DEF QueuesFor

\* A task that is in no queue and not idle enters queue q and the state s that goes with it.
LEMMA InsertTask ==
    ASSUME NEW queues, NEW level, NEW state, Queued(queues, level, state),
           NEW t \in Tasks \ {IdlePid}, QueuesFor(state[t]) = {},
           NEW s \in States, NEW q \in Queues, q \in QueuesFor(s)
    PROVE  Queued(Enqueue(queues, q, t), [level EXCEPT ![t] = q], [state EXCEPT ![t] = s])
<1> DEFINE queues2 == [queues EXCEPT ![q] = Append(queues[q], t)]
           level2 == [level EXCEPT ![t] = q]
           state2 == [state EXCEPT ![t] = s]
<1>1. /\ queues \in [Queues -> Seq(Tasks)]
      /\ level \in [Tasks -> Queues]
      /\ state \in [Tasks -> States]
  BY DEF Queued
<1>2. Enqueue(queues, q, t) = queues2
  BY DEF Enqueue
<1>3. \A r \in Queues : t \notin ToSet(queues[r])
  BY DEF Queued
<1>4. /\ Append(queues[q], t) \in Seq(Tasks)
      /\ ToSet(Append(queues[q], t)) = ToSet(queues[q]) \cup {t}
      /\ Distinct(Append(queues[q], t))
  <2>1. queues[q] \in Seq(Tasks) /\ Distinct(queues[q])
    BY <1>1 DEF Queued
  <2> QED
    BY <1>3, <2>1, AppendList
<1>5. /\ queues2 \in [Queues -> Seq(Tasks)]
      /\ queues2[q] = Append(queues[q], t)
      /\ \A r \in Queues \ {q} : queues2[r] = queues[r]
  BY <1>1, <1>4
<1>6. /\ level2 \in [Tasks -> Queues] /\ level2[t] = q
      /\ state2 \in [Tasks -> States] /\ state2[t] = s
      /\ \A u \in Tasks \ {t} : level2[u] = level[u] /\ state2[u] = state[u]
  BY <1>1
<1> HIDE DEF queues2, level2, state2
<1>7. \A r \in Queues : Distinct(queues2[r])
  <2>1. \A r \in Queues : Distinct(queues[r])
    BY DEF Queued
  <2> QED
    BY <1>4, <1>5, <2>1
<1>8. ASSUME NEW r \in Queues, NEW u \in ToSet(queues2[r])
      PROVE  level2[u] = r /\ r \in QueuesFor(state2[u])
  <2>1. CASE u = t
    <3>1. r = q
      BY <1>3, <1>5, <2>1
    <3> QED
      BY <1>6, <2>1, <3>1
  <2>2. CASE u # t
    <3>1. u \in ToSet(queues[r])
      BY <1>4, <1>5, <2>2
    <3>2. u \in Tasks
      BY <1>1, <3>1, ToSetType
    <3> QED
      BY <1>6, <2>2, <3>1, <3>2 DEF Queued
  <2> QED
    BY <2>1, <2>2
<1>9. ASSUME NEW u \in Tasks, QueuesFor(state2[u]) # {}
      PROVE  u \in ToSet(queues2[level2[u]])
  <2>1. CASE u = t
    BY <1>4, <1>5, <1>6, <2>1
  <2>2. CASE u # t
    <3>1. u \in ToSet(queues[level[u]]) /\ level[u] \in Queues
      BY <1>1, <1>6, <1>9, <2>2 DEF Queued
    <3> QED
      BY <1>4, <1>5, <1>6, <2>2, <3>1
  <2> QED
    BY <2>1, <2>2
<1> QED
  BY <1>2, <1>5, <1>6, <1>7, <1>8, <1>9 DEF Queued, level2, state2

\* A task leaves the queue of its level (if it is in one) for a state without a queue.
LEMMA RemoveTask ==
    ASSUME NEW queues, NEW level, NEW state, Queued(queues, level, state),
           NEW t \in Tasks, NEW s \in States, QueuesFor(s) = {}
    PROVE  Queued(RemoveFromQueue(queues, level[t], t), level, [state EXCEPT ![t] = s])
<1> DEFINE q == level[t]
           queues2 == [queues EXCEPT ![q] = RemoveFirst(queues[q], t)]
           state2 == [state EXCEPT ![t] = s]
<1>1. /\ queues \in [Queues -> Seq(Tasks)]
      /\ level \in [Tasks -> Queues]
      /\ state \in [Tasks -> States]
      /\ q \in Queues
  BY DEF Queued
<1>2. RemoveFromQueue(queues, level[t], t) = queues2
  BY DEF RemoveFromQueue
<1>3. /\ RemoveFirst(queues[q], t) \in Seq(Tasks)
      /\ ToSet(RemoveFirst(queues[q], t)) = ToSet(queues[q]) \ {t}
      /\ Distinct(RemoveFirst(queues[q], t))
  <2>1. queues[q] \in Seq(Tasks) /\ Distinct(queues[q])
    BY <1>1 DEF Queued
  <2> QED
    BY <2>1, RemoveList
<1>4. /\ queues2 \in [Queues -> Seq(Tasks)]
      /\ queues2[q] = RemoveFirst(queues[q], t)
      /\ \A r \in Queues \ {q} : queues2[r] = queues[r]
  BY <1>1, <1>3
<1>5. /\ state2 \in [Tasks -> States] /\ state2[t] = s
      /\ \A u \in Tasks \ {t} : state2[u] = state[u]
  BY <1>1
<1>6. \A r \in Queues : t \in ToSet(queues[r]) => r = q
  BY DEF Queued
<1> HIDE DEF queues2, state2, q
<1>7. \A r \in Queues : Distinct(queues2[r])
  BY <1>3, <1>4 DEF Queued
<1>8. ASSUME NEW r \in Queues, NEW u \in ToSet(queues2[r])
      PROVE  level[u] = r /\ r \in QueuesFor(state2[u])
  <2>1. u \in ToSet(queues[r]) /\ u # t
    BY <1>3, <1>4, <1>6
  <2>2. u \in Tasks
    BY <1>1, <2>1, ToSetType
  <2> QED
    BY <1>5, <2>1, <2>2 DEF Queued
<1>9. ASSUME NEW u \in Tasks, QueuesFor(state2[u]) # {}
      PROVE  u \in ToSet(queues2[level[u]])
  <2>1. u # t
    BY <1>5, <1>9
  <2>2. u \in ToSet(queues[level[u]]) /\ level[u] \in Queues
    BY <1>1, <1>5, <1>9, <2>1 DEF Queued
  <2> QED
    BY <1>3, <1>4, <2>1, <2>2
<1> QED
  BY <1>1, <1>2, <1>4, <1>5, <1>7, <1>8, <1>9 DEF Queued, state2

\* The head of a queue leaves it for a state without a queue.
LEMMA DequeueTask ==
    ASSUME NEW queues, NEW level, NEW state, Queued(queues, level, state),
           NEW q \in Queues, queues[q] # <<>>, NEW s \in States, QueuesFor(s) = {}
    PROVE  /\ Head(queues[q]) \in Tasks
           /\ level[Head(queues[q])] = q
           /\ q \in QueuesFor(state[Head(queues[q])])
           /\ Queued(Dequeue(queues, q), level, [state EXCEPT ![Head(queues[q])] = s])
<1> DEFINE t == Head(queues[q])
           queues2 == [queues EXCEPT ![q] = Tail(queues[q])]
           state2 == [state EXCEPT ![t] = s]
<1>1. /\ queues \in [Queues -> Seq(Tasks)]
      /\ level \in [Tasks -> Queues]
      /\ state \in [Tasks -> States]
  BY DEF Queued
<1>2. Dequeue(queues, q) = queues2
  BY DEF Dequeue
<1>3. /\ t \in Tasks /\ t \in ToSet(queues[q])
      /\ Tail(queues[q]) \in Seq(Tasks)
      /\ ToSet(Tail(queues[q])) = ToSet(queues[q]) \ {t}
      /\ Distinct(Tail(queues[q]))
  <2>1. queues[q] \in Seq(Tasks) /\ Distinct(queues[q])
    BY <1>1 DEF Queued
  <2> QED
    BY <2>1, TailList
<1>4. level[t] = q /\ q \in QueuesFor(state[t])
  BY <1>3 DEF Queued
<1>5. /\ queues2 \in [Queues -> Seq(Tasks)]
      /\ queues2[q] = Tail(queues[q])
      /\ \A r \in Queues \ {q} : queues2[r] = queues[r]
  BY <1>1, <1>3
<1>6. /\ state2 \in [Tasks -> States] /\ state2[t] = s
      /\ \A u \in Tasks \ {t} : state2[u] = state[u]
  BY <1>1, <1>3
<1>7. \A r \in Queues : t \in ToSet(queues[r]) => r = q
  BY <1>4 DEF Queued
<1> HIDE DEF queues2, state2, t
<1>8. \A r \in Queues : Distinct(queues2[r])
  BY <1>3, <1>5 DEF Queued
<1>9. ASSUME NEW r \in Queues, NEW u \in ToSet(queues2[r])
      PROVE  level[u] = r /\ r \in QueuesFor(state2[u])
  <2>1. u \in ToSet(queues[r]) /\ u # t
    BY <1>3, <1>5, <1>7
  <2>2. u \in Tasks
    BY <1>1, <2>1, ToSetType
  <2> QED
    BY <1>6, <2>1, <2>2 DEF Queued
<1>10. ASSUME NEW u \in Tasks, QueuesFor(state2[u]) # {}
       PROVE  u \in ToSet(queues2[level[u]])
  <2>1. u # t
    BY <1>6, <1>10
  <2>2. u \in ToSet(queues[level[u]]) /\ level[u] \in Queues
    BY <1>1, <1>6, <1>10, <2>1 DEF Queued
  <2> QED
    BY <1>3, <1>5, <2>1, <2>2
<1>11. Queued(queues2, level, state2)
  BY <1>1, <1>5, <1>6, <1>8, <1>9, <1>10 DEF Queued
<1> QED
  BY <1>2, <1>3, <1>4, <1>11 DEF state2, t

\* A task moves from the queue of its level (if it is in one) to the end of another.
LEMMA MoveTask ==
    ASSUME NEW queues, NEW level, NEW state, Queued(queues, level, state),
           NEW t \in Tasks \ {IdlePid}, NEW s \in States, NEW q \in Queues, q \in QueuesFor(s)
    PROVE  Queued(Enqueue(RemoveFromQueue(queues, level[t], t), q, t),
                  [level EXCEPT ![t] = q], [state EXCEPT ![t] = s])
<1> DEFINE state1 == [state EXCEPT ![t] = "FREE"]
<1>1. state \in [Tasks -> States] /\ "FREE" \in States
  BY DEF Queued, States
<1>2. Queued(RemoveFromQueue(queues, level[t], t), level, state1)
  BY <1>1, RemoveTask, QueuesForFacts
<1>3. state1[t] = "FREE" /\ [state1 EXCEPT ![t] = s] = [state EXCEPT ![t] = s]
  BY <1>1
<1> HIDE DEF state1
<1>4. QueuesFor(state1[t]) = {}
  BY <1>3, QueuesForFacts
<1>5. Queued(Enqueue(RemoveFromQueue(queues, level[t], t), q, t),
             [level EXCEPT ![t] = q], [state1 EXCEPT ![t] = s])
  BY <1>2, <1>4, InsertTask
<1> QED
  BY <1>3, <1>5

\* A task changes between two states without a queue.
LEMMA RelabelTask ==
    ASSUME NEW queues, NEW level, NEW state, Queued(queues, level, state),
           NEW t \in Tasks, QueuesFor(state[t]) = {}, NEW s \in States, QueuesFor(s) = {}
    PROVE  Queued(queues, level, [state EXCEPT ![t] = s])
<1>1. \A q \in Queues : ToSet(queues[q]) \subseteq Tasks \ {t}
  BY ToSetType DEF Queued
<1> QED
  BY <1>1 DEF Queued

-----------------------------------------------------------------------------
(***************************************************************************)
(* The inductive step, action by action.                                    *)
(***************************************************************************)

\* A step that leaves the queues, the states and the families alone.
LEMMA QuietStep ==
    ASSUME IInv, UNCHANGED <<task_id, queueVars, familyVars>>
    PROVE  /\ Queued(task_queues, task_queue_level, task_state)'
           /\ RunningInv'
           /\ FamilyInv'
BY DEF IInv, queueVars, familyVars, RunningInv, FamilyInv

LEMMA InitKeeps == Init => IInv
<1> SUFFICES ASSUME Init
             PROVE  IInv
  OBVIOUS
<1> USE DEF Init
<1>1. TypeOK
  <2>1. <<>> \in Seq(Tasks) /\ <<InitPid>> \in Seq(Tasks)
    BY ConstantFacts
  <2>2. task_queues \in [Queues -> Seq(Tasks)]
    BY <2>1
  <2>3. DefaultTimeSlice \in 0 .. SliceModulus - 1
    BY SliceAssumption
  <2>4. task_id \in 2 .. MaxPid + 1 /\ since_boost \in 0 .. BoostInterval
        /\ buffer_count \in 0 .. KeyboardBufferSize
    BY MaxPidAssumption, BoostAssumption, KeyboardAssumption
  <2> QED
    BY <2>1, <2>2, <2>3, <2>4, ConstantFacts DEF TypeOK, States
<1>2. Queued(task_queues, task_queue_level, task_state)
  <2>1. Distinct(<<InitPid>>) /\ ToSet(<<InitPid>>) = {InitPid}
    BY DEF Distinct, ToSet
  <2>2. \A q \in Queues : Distinct(task_queues[q])
    BY <2>1, EmptyList
  <2>3. \A q \in Queues : ToSet(task_queues[q]) = IF q = 0 THEN {InitPid} ELSE {}
    BY <2>1, EmptyList
  <2>4. \A t \in Tasks : t # InitPid => QueuesFor(task_state[t]) = {}
    BY QueuesForFacts
  <2>5. task_state[InitPid] = "READY" /\ 0 \in QueuesFor(task_state[InitPid])
    BY ConstantFacts, QueuesForFacts
  <2>6. \A t \in Tasks : task_queue_level[t] = 0
    OBVIOUS
  <2>7. /\ task_queues \in [Queues -> Seq(Tasks)]
        /\ task_queue_level \in [Tasks -> Queues]
        /\ task_state \in [Tasks -> States]
    BY <1>1 DEF TypeOK
  <2> HIDE DEF Init
  <2>8. \A q \in Queues : \A t \in ToSet(task_queues[q]) :
           task_queue_level[t] = q /\ q \in QueuesFor(task_state[t])
    BY <2>3, <2>5, <2>6, ConstantFacts
  <2>9. \A t \in Tasks : QueuesFor(task_state[t]) # {} => t \in ToSet(task_queues[task_queue_level[t]])
    BY <2>3, <2>4, <2>6, ConstantFacts
  <2> QED
    BY <2>2, <2>7, <2>8, <2>9 DEF Queued
<1>3. RunningInv
  BY ConstantFacts DEF RunningInv
<1>4. FamilyInv
  <2>1. \A p \in Tasks : children[p] = <<>>
    OBVIOUS
  <2>2. \A t \in Tasks : t >= task_id => task_state[t] = "FREE"
    BY DEF Tasks, IdlePid, InitPid
  <2>3. \A t \in Tasks : parent[t] = NoTask
    OBVIOUS
  <2>4. task_state[InitPid] = "READY"
    BY ConstantFacts
  <2> QED
    BY <2>1, <2>2, <2>3, <2>4, ConstantFacts, EmptyList DEF FamilyInv
<1>5. CpuInv
  BY ConstantFacts DEF CpuInv, Owner
<1>6. BoostInv
  BY BoostAssumption DEF BoostInv
<1>7. SliceNeverWraps
  BY SliceAssumption DEF SliceNeverWraps
<1>8. KeyboardInv
  BY DEF KeyboardInv
<1> QED
  BY <1>1, <1>2, <1>3, <1>4, <1>5, <1>6, <1>7, <1>8 DEF IInv

LEMMA TimerKeeps == IInv /\ TimerIrq => IInv'
<1> SUFFICES ASSUME IInv, TimerIrq
             PROVE  IInv'
  OBVIOUS
<1>1. /\ kernel = "user"
      /\ UNCHANGED <<task_id, queueVars, familyVars>>
      /\ UNCHANGED <<cpuVars, task_time_slice, yield, syscall_retry, waitVars, buffer_count>>
      /\ since_boost' = since_boost + 1
      /\ kernel' = IF since_boost' >= BoostInterval THEN "boost" ELSE "schedule"
  BY DEF TimerIrq, ScheduleEntry
<1>2. since_boost' \in 0 .. BoostInterval
  BY <1>1, BoostAssumption DEF IInv, TypeOK, BoostInv
<1>3. TypeOK'
  BY <1>1, <1>2 DEF IInv, TypeOK, queueVars, cpuVars, waitVars, familyVars
<1>4. CpuInv'
  BY <1>1 DEF IInv, CpuInv, Owner, cpuVars, queueVars
<1>5. BoostInv'
  BY <1>1, <1>2, BoostAssumption DEF BoostInv
<1>6. SliceNeverWraps' /\ KeyboardInv'
  BY <1>1 DEF IInv, SliceNeverWraps, KeyboardInv, WaitsOnKeyboard, queueVars, waitVars
<1> QED
  BY <1>1, <1>3, <1>4, <1>5, <1>6, QuietStep DEF IInv

LEMMA KeyboardKeeps == IInv /\ KeyboardIrq => IInv'
<1> SUFFICES ASSUME IInv, KeyboardIrq
             PROVE  IInv'
  OBVIOUS
<1>1. /\ kernel = "user" /\ kernel' = "wake"
      /\ UNCHANGED <<task_id, queueVars, familyVars>>
      /\ UNCHANGED <<cpuVars, sliceVars, syscall_retry, waitVars>>
  BY DEF KeyboardIrq
<1>2. buffer_count' \in 0 .. KeyboardBufferSize
  BY KeyboardAssumption DEF KeyboardIrq, Buffered, IInv, TypeOK
<1>3. TypeOK'
  BY <1>1, <1>2 DEF IInv, TypeOK, queueVars, cpuVars, sliceVars, waitVars, familyVars
<1>4. CpuInv'
  BY <1>1 DEF IInv, CpuInv, Owner, cpuVars, queueVars, sliceVars
<1>5. BoostInv' /\ SliceNeverWraps' /\ KeyboardInv'
  BY <1>1 DEF IInv, BoostInv, SliceNeverWraps, KeyboardInv, sliceVars
<1> QED
  BY <1>1, <1>3, <1>4, <1>5, QuietStep DEF IInv

LEMMA BoostEndKeeps == IInv /\ BoostEnd => IInv'
<1> SUFFICES ASSUME IInv, BoostEnd
             PROVE  IInv'
  OBVIOUS
<1>1. /\ kernel = "boost" /\ kernel' = "schedule" /\ since_boost' = 0
      /\ UNCHANGED <<task_id, queueVars, familyVars>>
      /\ UNCHANGED <<cpuVars, task_time_slice, yield, syscall_retry, waitVars, buffer_count>>
  BY DEF BoostEnd
<1>2. TypeOK'
  BY <1>1, BoostAssumption DEF IInv, TypeOK, queueVars, cpuVars, waitVars, familyVars
<1>3. CpuInv'
  BY <1>1 DEF IInv, CpuInv, Owner, cpuVars, queueVars
<1>4. BoostInv' /\ SliceNeverWraps' /\ KeyboardInv'
  BY <1>1, BoostAssumption
     DEF IInv, BoostInv, SliceNeverWraps, KeyboardInv, WaitsOnKeyboard, queueVars, waitVars
<1> QED
  BY <1>1, <1>2, <1>3, <1>4, QuietStep DEF IInv

LEMMA ReturnKeeps == IInv /\ ReturnFromInterrupt => IInv'
<1> SUFFICES ASSUME IInv, ReturnFromInterrupt
             PROVE  IInv'
  OBVIOUS
<1>1. /\ kernel = "return" /\ kernel' = "user" /\ task_needs_switching' = FALSE
      /\ task_current' = IF task_needs_switching THEN task_next ELSE task_current
      /\ UNCHANGED <<task_id, queueVars, familyVars>>
      /\ UNCHANGED <<task_next, sliceVars, syscall_retry, waitVars, buffer_count>>
  BY DEF ReturnFromInterrupt
<1>2. TypeOK'
  BY <1>1 DEF IInv, TypeOK, queueVars, sliceVars, waitVars, familyVars
<1>3. CpuInv'
  BY <1>1, ConstantFacts DEF IInv, CpuInv, Owner, TypeOK, queueVars
<1>4. BoostInv' /\ SliceNeverWraps' /\ KeyboardInv'
  BY <1>1 DEF IInv, BoostInv, SliceNeverWraps, KeyboardInv, WaitsOnKeyboard, queueVars, waitVars, sliceVars
<1> QED
  BY <1>1, <1>2, <1>3, <1>4, QuietStep DEF IInv

LEMMA WakeEndKeeps == IInv /\ WakeEnd => IInv'
<1> SUFFICES ASSUME IInv, WakeEnd
             PROVE  IInv'
  OBVIOUS
<1>1. /\ kernel = "wake" /\ kernel' = "return"
      /\ \A i \in DOMAIN task_queues[BlockedQueue] : ~WaitsOnKeyboard(task_queues[BlockedQueue][i])
      /\ UNCHANGED <<task_id, queueVars, familyVars>>
      /\ UNCHANGED <<cpuVars, sliceVars, syscall_retry, waitVars, buffer_count>>
  BY DEF WakeEnd
<1>2. TypeOK'
  BY <1>1 DEF IInv, TypeOK, queueVars, cpuVars, sliceVars, waitVars, familyVars
<1>3. CpuInv'
  BY <1>1 DEF IInv, CpuInv, Owner, cpuVars, queueVars, sliceVars
<1>4. KeyboardInv'
  <2> SUFFICES ASSUME NEW t \in Tasks, task_state[t] = "BLOCKED"
               PROVE  ~WaitsOnKeyboard(t)
    BY <1>1 DEF KeyboardInv, WaitsOnKeyboard, queueVars, waitVars
  <2>1. t \in ToSet(task_queues[task_queue_level[t]]) /\ task_queue_level[t] \in Queues
    BY QueuesForFacts DEF IInv, Queued
  <2>2. task_queue_level[t] = BlockedQueue
    BY <2>1, QueuesForFacts DEF IInv, Queued
  <2> QED
    BY <1>1, <2>1, <2>2 DEF ToSet
<1>5. BoostInv' /\ SliceNeverWraps'
  BY <1>1 DEF IInv, BoostInv, SliceNeverWraps, sliceVars
<1> QED
  BY <1>1, <1>2, <1>3, <1>4, <1>5, QuietStep DEF IInv

-----------------------------------------------------------------------------
\* What the invariant says of a task that makes a system call.
LEMMA CallerFacts ==
    ASSUME IInv, Running
    PROVE  /\ kernel = "user"
           /\ task_current \in Tasks \ {IdlePid}
           /\ task_state[task_current] = "RUNNING"
           /\ ~task_needs_switching
           /\ since_boost < BoostInterval
           /\ \A t \in Tasks \ {IdlePid} : task_state[t] = "RUNNING" => t = task_current
           /\ buffer_count > 0 => \A t \in Tasks : task_state[t] = "BLOCKED" => ~WaitsOnKeyboard(t)
<1>1. kernel = "user" /\ task_current \in Tasks \ {IdlePid}
  BY ConstantFacts DEF Running, IInv, TypeOK
<1>2. ~task_needs_switching
  BY <1>1, ConstantFacts DEF IInv, CpuInv
<1> QED
  BY <1>1, <1>2 DEF IInv, CpuInv, Owner, BoostInv, KeyboardInv

\* A step that neither creates nor destroys a task, nor changes a family.
LEMMA SameFamilies ==
    ASSUME IInv, UNCHANGED <<task_id, familyVars>>,
           \A t \in Tasks : task_state[t] # "FREE" => task_state'[t] # "FREE",
           \A t \in Tasks : task_state[t] = "FREE" => task_state'[t] = "FREE"
    PROVE  FamilyInv'
<1>1. \A p \in Tasks : ToSet(children[p]) \subseteq Tasks
  BY ToSetType DEF IInv, TypeOK
<1> QED
  BY <1>1, ConstantFacts DEF IInv, FamilyInv, familyVars

\* A step between two points at which the owner of the CPU runs, and still runs.
LEMMA SameOwner ==
    ASSUME IInv, UNCHANGED cpuVars, kernel \notin {"return", "boost", "schedule"},
           \A t \in Tasks : task_state'[t] = "RUNNING" <=> task_state[t] = "RUNNING"
    PROVE  CpuInv'
<1>1. Owner \in Tasks /\ Owner' = Owner
  BY ConstantFacts DEF IInv, TypeOK, CpuInv, Owner, cpuVars
<1>2. task_state'[Owner] = "RUNNING"
  BY <1>1 DEF IInv, CpuInv
<1> QED
  BY <1>1, <1>2 DEF IInv, CpuInv, cpuVars

\* System calls that return at once.
LEMMA ImmediateKeeps ==
    ASSUME IInv, (\E pid \in Tasks \cup {AnyChild} : WaitpidFails(pid)) \/ ReadDelivers \/ ReadWouldBlock
    PROVE  IInv'
<1>1. /\ Running
      /\ kernel' = "return"
      /\ UNCHANGED <<task_id, queueVars, familyVars>>
      /\ UNCHANGED <<cpuVars, sliceVars, waitVars>>
      /\ syscall_retry' = [syscall_retry EXCEPT ![task_current] = FALSE]
  BY DEF WaitpidFails, ReadDelivers, ReadWouldBlock, WaitpidCall, ReadCall
<1>2. buffer_count' \in 0 .. KeyboardBufferSize /\ buffer_count' <= buffer_count
  BY KeyboardAssumption DEF WaitpidFails, ReadDelivers, ReadWouldBlock, IInv, TypeOK
<1>3. TypeOK'
  BY <1>1, <1>2 DEF IInv, TypeOK, queueVars, cpuVars, sliceVars, waitVars, familyVars
<1>4. CpuInv'
  BY <1>1, CallerFacts, SameOwner DEF queueVars
<1>5. KeyboardInv'
  <2>1. buffer_count' > 0 => buffer_count > 0
    BY <1>2 DEF IInv, TypeOK
  <2> QED
    BY <1>1, <2>1, CallerFacts DEF KeyboardInv, WaitsOnKeyboard, queueVars, waitVars
<1>6. BoostInv' /\ SliceNeverWraps'
  BY <1>1, CallerFacts DEF IInv, BoostInv, SliceNeverWraps, sliceVars
<1> QED
  BY <1>1, <1>3, <1>4, <1>5, <1>6, QuietStep DEF IInv

\* System calls that block the caller.
LEMMA BlockKeeps ==
    ASSUME IInv, Running,
           NEW reason \in {"CHILD", "IO"}, NEW object \in Tasks \cup {AnyChild, Keyboard},
           reason = "IO" => buffer_count = 0,
           BlockTask(task_current, reason, object),
           YieldCurrent,
           syscall_retry' = [syscall_retry EXCEPT ![task_current] = TRUE],
           UNCHANGED <<task_id, cpuVars, task_time_slice, since_boost, familyVars, buffer_count>>
    PROVE  IInv'
<1> DEFINE me == task_current
<1>1. /\ kernel = "user" /\ me \in Tasks \ {IdlePid}
      /\ task_state[me] = "RUNNING"
      /\ ~task_needs_switching /\ since_boost < BoostInterval
      /\ \A t \in Tasks \ {IdlePid} : task_state[t] = "RUNNING" => t = me
  BY CallerFacts
<1>2. yield' = TRUE /\ kernel' = "schedule"
  BY <1>1, BoostAssumption DEF YieldCurrent, ScheduleEntry, IInv, TypeOK
<1>3. /\ task_state' = [task_state EXCEPT ![me] = "BLOCKED"]
      /\ wait_reason' = [wait_reason EXCEPT ![me] = reason]
      /\ wait_object' = [wait_object EXCEPT ![me] = object]
      /\ task_queues' = Enqueue(RemoveFromQueue(task_queues, task_queue_level[me], me), BlockedQueue, me)
      /\ task_queue_level' = [task_queue_level EXCEPT ![me] = BlockedQueue]
  BY DEF BlockTask
<1>4. /\ task_state \in [Tasks -> States] /\ task_queue_level \in [Tasks -> Queues]
      /\ wait_reason \in [Tasks -> {"NONE", "CHILD", "IO"}]
      /\ wait_object \in [Tasks -> Tasks \cup {NoTask, AnyChild, Keyboard}]
  BY DEF IInv, TypeOK
<1>5. Queued(task_queues, task_queue_level, task_state)'
  <2>1. Queued(Enqueue(RemoveFromQueue(task_queues, task_queue_level[me], me), BlockedQueue, me),
               [task_queue_level EXCEPT ![me] = BlockedQueue],
               [task_state EXCEPT ![me] = "BLOCKED"])
    BY <1>1, MoveTask, ConstantFacts, QueuesForFacts DEF IInv, States
  <2> QED
    BY <1>3, <2>1
<1>6. /\ task_state'[me] = "BLOCKED"
      /\ \A t \in Tasks \ {me} : task_state'[t] = task_state[t]
                                 /\ task_queue_level'[t] = task_queue_level[t]
                                 /\ wait_reason'[t] = wait_reason[t]
                                 /\ wait_object'[t] = wait_object[t]
  BY <1>1, <1>3, <1>4
<1>7. TypeOK'
  <2>1. /\ task_queues' \in [Queues -> Seq(Tasks)]
        /\ task_queue_level' \in [Tasks -> Queues]
        /\ task_state' \in [Tasks -> States]
    BY <1>5 DEF Queued
  <2>2. /\ wait_reason' \in [Tasks -> {"NONE", "CHILD", "IO"}]
        /\ wait_object' \in [Tasks -> Tasks \cup {NoTask, AnyChild, Keyboard}]
    BY <1>3, <1>4
  <2> QED
    BY <1>2, <2>1, <2>2 DEF IInv, TypeOK, cpuVars, familyVars
<1>8. RunningInv'
  BY <1>1, <1>6, ConstantFacts DEF IInv, RunningInv
<1>9. FamilyInv'
  BY <1>1, <1>6, SameFamilies
<1>10. CpuInv'
  BY <1>1, <1>2, <1>6 DEF IInv, CpuInv, Owner, cpuVars
<1>11. BoostInv' /\ SliceNeverWraps'
  BY <1>1 DEF IInv, BoostInv, SliceNeverWraps
<1>12. KeyboardInv'
  <2> SUFFICES ASSUME buffer_count > 0, NEW t \in Tasks, task_state'[t] = "BLOCKED"
               PROVE  ~(wait_reason'[t] = "IO" /\ wait_object'[t] = Keyboard)
    BY DEF KeyboardInv, WaitsOnKeyboard
  <2>1. CASE t = me
    BY <1>1, <1>3, <1>4, <2>1
  <2>2. CASE t # me
    BY <1>6, <2>2, CallerFacts DEF WaitsOnKeyboard
  <2> QED
    BY <2>1, <2>2
<1> QED
  BY <1>5, <1>7, <1>8, <1>9, <1>10, <1>11, <1>12 DEF IInv

\* waitpid and read, when they block.
LEMMA BlockingCallsKeep ==
    ASSUME IInv, (\E pid \in Tasks \cup {AnyChild} : WaitpidBlocks(pid)) \/ ReadBlocks
    PROVE  IInv'
<1>1. CASE \E pid \in Tasks \cup {AnyChild} : WaitpidBlocks(pid)
  <2>1. PICK pid \in Tasks \cup {AnyChild} : WaitpidBlocks(pid)
    BY <1>1
  <2> QED
    BY <2>1, BlockKeeps DEF WaitpidBlocks, WaitpidCall
<1>2. CASE ReadBlocks
  BY <1>2, BlockKeeps DEF ReadBlocks, ReadCall
<1> QED
  BY <1>1, <1>2

-----------------------------------------------------------------------------
\* What task_manager_unblock_task does to the queues of a blocked task.
LEMMA UnblockFacts ==
    ASSUME IInv, NEW t \in Tasks, task_state[t] = "BLOCKED", UnblockTask(t)
    PROVE  /\ Queued(task_queues, task_queue_level, task_state)'
           /\ RunningInv'
           /\ task_state'[t] = "READY"
           /\ \A u \in Tasks \ {t} : task_state'[u] = task_state[u]
<1>1. t # IdlePid
  BY DEF IInv, RunningInv
<1>2. /\ task_state' = [task_state EXCEPT ![t] = "READY"]
      /\ task_queues' = Enqueue(RemoveFromQueue(task_queues, task_queue_level[t], t), 0, t)
      /\ task_queue_level' = [task_queue_level EXCEPT ![t] = 0]
  BY DEF UnblockTask
<1>3. task_state \in [Tasks -> States] /\ task_queue_level \in [Tasks -> Queues]
  BY DEF IInv, TypeOK
<1>4. Queued(Enqueue(RemoveFromQueue(task_queues, task_queue_level[t], t), 0, t),
             [task_queue_level EXCEPT ![t] = 0], [task_state EXCEPT ![t] = "READY"])
  BY <1>1, MoveTask, ConstantFacts, QueuesForFacts DEF IInv, States
<1>5. /\ task_state'[t] = "READY"
      /\ \A u \in Tasks \ {t} : task_state'[u] = task_state[u] /\ task_queue_level'[u] = task_queue_level[u]
  BY <1>2, <1>3
<1>6. RunningInv'
  BY <1>1, <1>5, ConstantFacts DEF IInv, RunningInv
<1> QED
  BY <1>2, <1>4, <1>5, <1>6

LEMMA WakeStepKeeps == IInv /\ WakeStep => IInv'
<1> SUFFICES ASSUME IInv, WakeStep
             PROVE  IInv'
  OBVIOUS
<1>1. /\ kernel = "wake" /\ kernel' = "wake"
      /\ UNCHANGED <<task_id, cpuVars, sliceVars, syscall_retry, waitVars, familyVars, buffer_count>>
  BY DEF WakeStep, WalkGoesOn
<1>2. PICK i \in DOMAIN task_queues[BlockedQueue] : UnblockTask(task_queues[BlockedQueue][i])
  BY DEF WakeStep
<1> DEFINE t == task_queues[BlockedQueue][i]
<1>3. t \in ToSet(task_queues[BlockedQueue]) /\ t \in Tasks
  BY <1>2, ConstantFacts, ToSetType DEF ToSet, IInv, TypeOK
<1>4. task_state[t] = "BLOCKED"
  <2>1. BlockedQueue \in QueuesFor(task_state[t]) /\ task_state[t] \in States
    BY <1>3, ConstantFacts DEF IInv, Queued
  <2> QED
    BY <2>1, ConstantFacts, QueuesForFacts DEF States
<1>5. UnblockTask(t)
  BY <1>2
<1> HIDE DEF t
<1>6. /\ Queued(task_queues, task_queue_level, task_state)'
      /\ RunningInv'
      /\ task_state'[t] = "READY"
      /\ \A u \in Tasks \ {t} : task_state'[u] = task_state[u]
  BY <1>3, <1>4, <1>5, UnblockFacts
<1>7. TypeOK'
  BY <1>1, <1>6 DEF IInv, TypeOK, Queued, cpuVars, sliceVars, waitVars, familyVars
<1>8. FamilyInv'
  BY <1>1, <1>4, <1>6, SameFamilies
<1>9. CpuInv'
  BY <1>1, <1>4, <1>6, SameOwner
<1>10. BoostInv' /\ SliceNeverWraps' /\ KeyboardInv'
  BY <1>1 DEF IInv, BoostInv, SliceNeverWraps, KeyboardInv, sliceVars
<1> QED
  BY <1>6, <1>7, <1>8, <1>9, <1>10 DEF IInv

LEMMA KillHandledKeeps ==
    ASSUME IInv, NEW t \in Tasks, KillHandled(t)
    PROVE  IInv'
<1>1. /\ Running /\ kernel' = "return"
      /\ UNCHANGED <<task_id, cpuVars, sliceVars, waitVars, familyVars, buffer_count>>
      /\ syscall_retry' = [syscall_retry EXCEPT ![t] = FALSE]
      /\ IF task_state[t] = "BLOCKED" THEN UnblockTask(t) ELSE UNCHANGED queueVars
  BY DEF KillHandled, KillCall, NewSyscall
<1>2. /\ Queued(task_queues, task_queue_level, task_state)'
      /\ RunningInv'
      /\ \A u \in Tasks : task_state'[u] # task_state[u] =>
            task_state[u] = "BLOCKED" /\ task_state'[u] = "READY"
  <2>1. CASE task_state[t] = "BLOCKED"
    BY <1>1, <2>1, UnblockFacts
  <2>2. CASE task_state[t] # "BLOCKED"
    BY <1>1, <2>2 DEF queueVars, IInv, RunningInv
  <2> QED
    BY <2>1, <2>2
<1>3. TypeOK'
  BY <1>1, <1>2 DEF IInv, TypeOK, Queued, cpuVars, sliceVars, waitVars, familyVars
<1>4. FamilyInv'
  BY <1>1, <1>2, SameFamilies
<1>5. CpuInv'
  BY <1>1, <1>2, CallerFacts, SameOwner
<1>6. KeyboardInv'
  BY <1>1, <1>2, CallerFacts DEF KeyboardInv, WaitsOnKeyboard, waitVars
<1>7. BoostInv' /\ SliceNeverWraps'
  BY <1>1, CallerFacts DEF IInv, BoostInv, SliceNeverWraps, sliceVars
<1> QED
  BY <1>2, <1>3, <1>4, <1>5, <1>6, <1>7 DEF IInv

LEMMA BoostStepKeeps == IInv /\ BoostStep => IInv'
<1> SUFFICES ASSUME IInv, BoostStep
             PROVE  IInv'
  OBVIOUS
<1>1. /\ kernel = "boost"
      /\ UNCHANGED <<task_id, task_state, cpuVars, sliceVars, syscall_retry, waitVars,
                     familyVars, buffer_count, kernel>>
  BY DEF BoostStep
<1>2. PICK q \in 1 .. Levels - 1 :
         /\ task_queues[q] # <<>>
         /\ task_queues' = Enqueue(Dequeue(task_queues, q), 0, Head(task_queues[q]))
         /\ task_queue_level' = [task_queue_level EXCEPT ![Head(task_queues[q])] = 0]
  BY DEF BoostStep
<1> DEFINE t == Head(task_queues[q])
           state1 == [task_state EXCEPT ![t] = "FREE"]
<1>3. q \in Ready /\ q \in Queues
  BY LevelsAssumption DEF Ready, Queues
<1>4. /\ t \in Tasks /\ task_queue_level[t] = q
      /\ q \in QueuesFor(task_state[t])
      /\ Queued(Dequeue(task_queues, q), task_queue_level, state1)
  <2>1. Queued(task_queues, task_queue_level, task_state) /\ "FREE" \in States
    BY DEF IInv, States
  <2> QED
    BY <1>2, <1>3, <2>1, DequeueTask, QueuesForFacts
<1>5. task_state \in [Tasks -> States] /\ task_queue_level \in [Tasks -> Queues]
  BY DEF IInv, TypeOK
<1>6. task_state[t] = "READY"
  BY <1>3, <1>4, <1>5, ConstantFacts, QueuesForFacts DEF States
<1>7. t # IdlePid
  BY <1>6 DEF IInv, RunningInv
<1>8. state1[t] = "FREE" /\ [state1 EXCEPT ![t] = "READY"] = task_state
  BY <1>4, <1>5, <1>6
<1>9. Queued(task_queues, task_queue_level, task_state)'
  <2>1. QueuesFor(state1[t]) = {} /\ "READY" \in States /\ 0 \in QueuesFor("READY")
    BY <1>8, QueuesForFacts, ConstantFacts DEF States
  <2> HIDE DEF state1, t
  <2>2. Queued(Enqueue(Dequeue(task_queues, q), 0, t), [task_queue_level EXCEPT ![t] = 0],
               [state1 EXCEPT ![t] = "READY"])
    BY <1>4, <1>7, <2>1, InsertTask, ConstantFacts
  <2> QED
    BY <1>1, <1>2, <1>8, <2>2 DEF t
<1>10. RunningInv'
  BY <1>1, <1>2, <1>4, <1>5, <1>6 DEF IInv, RunningInv
<1>11. TypeOK'
  BY <1>1, <1>9 DEF IInv, TypeOK, Queued, cpuVars, sliceVars, waitVars, familyVars
<1>12. FamilyInv'
  BY <1>1, SameFamilies
<1>13. CpuInv'
  BY <1>1 DEF IInv, CpuInv, Owner, cpuVars, sliceVars
<1>14. BoostInv' /\ SliceNeverWraps' /\ KeyboardInv'
  BY <1>1 DEF IInv, BoostInv, SliceNeverWraps, KeyboardInv, WaitsOnKeyboard, waitVars, sliceVars
<1> QED
  BY <1>9, <1>10, <1>11, <1>12, <1>13, <1>14 DEF IInv

-----------------------------------------------------------------------------
\* Subtracting one tick from a slice that is not 0 does not wrap.
LEMMA SmallModulus ==
    ASSUME NEW m \in Nat, NEW a \in 0 .. m - 1
    PROVE  a % m = a
OBVIOUS

\* A task that was ready, or idle, is now the one that runs, to be switched to from old.
Switched(states, old) ==
    \E new \in Tasks :
        /\ states[new] \in {"READY", "RUNNING"}
        /\ task_state' = [states EXCEPT ![new] = "RUNNING"]
        /\ IF new # old THEN task_next' = new /\ task_needs_switching' = TRUE
           ELSE UNCHANGED <<task_next, task_needs_switching>>

\* The scheduler changes states only between ready and running.
SchedulerChange ==
    \A t \in Tasks :
        \/ task_state'[t] = task_state[t]
        \/ task_state[t] = "RUNNING" /\ task_state'[t] = "READY"
        \/ task_state[t] = "READY" /\ task_state'[t] = "RUNNING"

\* The pick: the head of the first queue that is not empty, or idle, becomes the task that
\* runs, with a time slice of at least one tick.
LEMMA PickFacts ==
    ASSUME NEW queues, NEW levels, NEW states, NEW old,
           Queued(queues, levels, states),
           \A t \in Tasks : states[t] = "RUNNING" => levels[t] \in Ready,
           states[IdlePid] = "RUNNING",
           Pick(queues, levels, states, old)
    PROVE  /\ Queued(task_queues, task_queue_level, task_state)'
           /\ RunningInv'
           /\ task_time_slice' \in 1 .. SliceModulus - 1
           /\ Switched(states, old)
<1>1. /\ states \in [Tasks -> States] /\ levels \in [Tasks -> Queues]
      /\ "RUNNING" \in States /\ QueuesFor("RUNNING") = {}
  BY QueuesForFacts DEF Queued, States
<1>2. CASE \E q \in Ready :
              /\ queues[q] # <<>>
              /\ task_queues' = Dequeue(queues, q)
              /\ task_queue_level' = levels
              /\ task_time_slice' = PickedSlice(q)
              /\ task_state' = [states EXCEPT ![Head(queues[q])] = "RUNNING"]
              /\ IF Head(queues[q]) # old
                 THEN task_next' = Head(queues[q]) /\ task_needs_switching' = TRUE
                 ELSE UNCHANGED <<task_next, task_needs_switching>>
  <2>1. PICK q \in Ready :
              /\ queues[q] # <<>>
              /\ task_queues' = Dequeue(queues, q)
              /\ task_queue_level' = levels
              /\ task_time_slice' = PickedSlice(q)
              /\ task_state' = [states EXCEPT ![Head(queues[q])] = "RUNNING"]
              /\ IF Head(queues[q]) # old
                 THEN task_next' = Head(queues[q]) /\ task_needs_switching' = TRUE
                 ELSE UNCHANGED <<task_next, task_needs_switching>>
    BY <1>2
  <2> DEFINE new == Head(queues[q])
  <2>2. q \in Queues
    BY ConstantFacts
  <2>3. /\ new \in Tasks /\ levels[new] = q /\ q \in QueuesFor(states[new])
        /\ Queued(Dequeue(queues, q), levels, [states EXCEPT ![new] = "RUNNING"])
    <3>1. queues[q] # <<>>
      BY <2>1
    <3>2. "RUNNING" \in States /\ QueuesFor("RUNNING") = {}
      BY <1>1
    <3> QED
      BY <2>2, <3>1, <3>2, DequeueTask
  <2>4. states[new] = "READY"
    BY <1>1, <2>3, ConstantFacts, QueuesForFacts DEF States
  <2>5. Queued(task_queues, task_queue_level, task_state)'
    BY <2>1, <2>3
  <2>6. task_time_slice' \in 1 .. SliceModulus - 1
    BY <2>1, SliceAssumption DEF PickedSlice
  <2> HIDE DEF new
  <2>7. task_state' = [states EXCEPT ![new] = "RUNNING"]
    BY <2>1 DEF new
  <2>8. RunningInv'
    BY <1>1, <2>1, <2>3, <2>7, ConstantFacts DEF RunningInv
  <2>9. IF new # old THEN task_next' = new /\ task_needs_switching' = TRUE
        ELSE UNCHANGED <<task_next, task_needs_switching>>
    BY <2>1 DEF new
  <2> QED
    BY <2>3, <2>4, <2>5, <2>6, <2>7, <2>8, <2>9 DEF Switched
<1>3. CASE /\ task_queues' = queues
           /\ task_queue_level' = levels
           /\ task_time_slice' = PickedSlice(0)
           /\ task_state' = [states EXCEPT ![IdlePid] = "RUNNING"]
           /\ IF IdlePid # old THEN task_next' = IdlePid /\ task_needs_switching' = TRUE
              ELSE UNCHANGED <<task_next, task_needs_switching>>
  <2>1. task_state' = states
    BY <1>1, <1>3, ConstantFacts
  <2>2. task_time_slice' \in 1 .. SliceModulus - 1
    BY <1>3, SliceAssumption, ConstantFacts DEF PickedSlice
  <2>3. Queued(task_queues, task_queue_level, task_state)' /\ RunningInv'
    BY <1>3, <2>1 DEF RunningInv
  <2> QED
    BY <1>3, <2>2, <2>3, ConstantFacts DEF Switched
<1> QED
  BY <1>2, <1>3 DEF Pick

\* task_manager_requeue_task, and with it the whole of a reschedule.
LEMMA RescheduleFacts ==
    ASSUME IInv, kernel = "schedule", task_current # NoTask, Reschedule
    PROVE  /\ Queued(task_queues, task_queue_level, task_state)'
           /\ RunningInv'
           /\ task_time_slice' \in 1 .. SliceModulus - 1
           /\ SchedulerChange
           /\ \E new \in Tasks :
                 /\ task_state'[new] = "RUNNING"
                 /\ \A t \in Tasks \ {IdlePid} : task_state'[t] = "RUNNING" => t = new
                 /\ IF new # task_current THEN task_next' = new /\ task_needs_switching' = TRUE
                    ELSE UNCHANGED <<task_next, task_needs_switching>>
<1> DEFINE old == task_current
           level == DemotedLevel(task_queue_level[old])
<1>1. /\ old \in Tasks /\ ~task_needs_switching
      /\ \A t \in Tasks \ {IdlePid} : task_state[t] = "RUNNING" => t = old
  BY DEF IInv, TypeOK, CpuInv, Owner
<1>2. /\ task_state \in [Tasks -> States] /\ task_queue_level \in [Tasks -> Queues]
      /\ Queued(task_queues, task_queue_level, task_state)
      /\ \A t \in Tasks : task_state[t] = "RUNNING" => task_queue_level[t] \in Ready
      /\ task_state[IdlePid] = "RUNNING"
  BY DEF IInv, TypeOK, RunningInv
<1>3. CASE old # IdlePid /\ task_state[old] = "RUNNING"
  <2> DEFINE queues == Enqueue(task_queues, level, old)
             levels == [task_queue_level EXCEPT ![old] = level]
             states == [task_state EXCEPT ![old] = "READY"]
  <2>1. Pick(queues, levels, states, old)
    BY <1>3 DEF Reschedule
  <2>2. level \in Ready
    BY <1>1, <1>2, <1>3, LevelsAssumption DEF DemotedLevel, Ready
  <2>3. Queued(queues, levels, states)
    <3>1. QueuesFor(task_state[old]) = {} /\ "READY" \in States /\ level \in QueuesFor("READY")
      BY <1>3, <2>2, QueuesForFacts DEF States
    <3>2. level \in Queues
      BY <2>2, ConstantFacts
    <3> HIDE DEF level
    <3> QED
      BY <1>1, <1>2, <1>3, <3>1, <3>2, InsertTask
  <2>4. /\ states \in [Tasks -> States] /\ states[old] = "READY"
        /\ \A t \in Tasks \ {old} : states[t] = task_state[t] /\ levels[t] = task_queue_level[t]
    BY <1>1, <1>2 DEF States
  <2> HIDE DEF queues, levels, states, level
  <2>5. /\ \A t \in Tasks : states[t] = "RUNNING" => levels[t] \in Ready
        /\ states[IdlePid] = "RUNNING"
    BY <1>2, <1>3, <2>4, ConstantFacts
  <2> HIDE DEF old
  <2>6. PICK new \in Tasks :
           /\ states[new] \in {"READY", "RUNNING"}
           /\ task_state' = [states EXCEPT ![new] = "RUNNING"]
           /\ IF new # old THEN task_next' = new /\ task_needs_switching' = TRUE
              ELSE UNCHANGED <<task_next, task_needs_switching>>
    <3>1. Switched(states, old)
      BY <2>1, <2>3, <2>5, PickFacts
    <3> QED
      BY <3>1 DEF Switched
  <2>7. /\ Queued(task_queues, task_queue_level, task_state)'
        /\ RunningInv'
        /\ task_time_slice' \in 1 .. SliceModulus - 1
    BY <2>1, <2>3, <2>5, PickFacts
  <2>8. /\ task_state'[new] = "RUNNING"
        /\ \A t \in Tasks \ {new} : task_state'[t] = states[t]
    BY <2>4, <2>6
  <2>9. \A t \in Tasks \ {IdlePid} : task_state'[t] = "RUNNING" => t = new
    BY <1>1, <2>4, <2>8
  <2>10. SchedulerChange
    <3>1. states[new] \in {"READY", "RUNNING"}
      BY <2>6
    <3> SUFFICES ASSUME NEW t \in Tasks
                 PROVE  \/ task_state'[t] = task_state[t]
                        \/ task_state[t] = "RUNNING" /\ task_state'[t] = "READY"
                        \/ task_state[t] = "READY" /\ task_state'[t] = "RUNNING"
      BY DEF SchedulerChange
    <3>2. CASE t = new /\ t = old
      BY <1>3, <2>8, <3>2
    <3>3. CASE t = new /\ t # old
      BY <2>4, <2>8, <3>1, <3>3
    <3>4. CASE t # new /\ t = old
      BY <1>3, <2>4, <2>8, <3>4
    <3>5. CASE t # new /\ t # old
      BY <2>4, <2>8, <3>5
    <3> QED
      BY <3>2, <3>3, <3>4, <3>5
  <2> QED
    BY <2>6, <2>7, <2>8, <2>9, <2>10 DEF old
<1>4. CASE ~(old # IdlePid /\ task_state[old] = "RUNNING")
  <2>1. Pick(task_queues, task_queue_level, task_state, old)
    BY <1>4 DEF Reschedule
  <2>2. PICK new \in Tasks :
           /\ task_state[new] \in {"READY", "RUNNING"}
           /\ task_state' = [task_state EXCEPT ![new] = "RUNNING"]
           /\ IF new # old THEN task_next' = new /\ task_needs_switching' = TRUE
              ELSE UNCHANGED <<task_next, task_needs_switching>>
    <3>1. Switched(task_state, old)
      BY <1>2, <2>1, PickFacts
    <3> QED
      BY <3>1 DEF Switched
  <2>3. /\ Queued(task_queues, task_queue_level, task_state)'
        /\ RunningInv'
        /\ task_time_slice' \in 1 .. SliceModulus - 1
    BY <1>2, <2>1, PickFacts
  <2>4. /\ task_state'[new] = "RUNNING"
        /\ \A t \in Tasks \ {new} : task_state'[t] = task_state[t]
    BY <1>2, <2>2
  <2>5. \A t \in Tasks \ {IdlePid} : task_state'[t] = "RUNNING" => t = new
    BY <1>1, <1>4, <2>4
  <2>6. SchedulerChange
    <3>1. task_state[new] \in {"READY", "RUNNING"}
      BY <2>2
    <3> QED
      BY <2>4, <3>1 DEF SchedulerChange
  <2> QED
    BY <2>2, <2>3, <2>4, <2>5, <2>6
<1> QED
  BY <1>3, <1>4

LEMMA ScheduleKeeps == IInv /\ Schedule => IInv'
<1> SUFFICES ASSUME IInv, Schedule
             PROVE  IInv'
  OBVIOUS
<1> DEFINE left == (task_time_slice - 1) % SliceModulus
<1>1. /\ kernel = "schedule" /\ kernel' = "return"
      /\ UNCHANGED <<task_id, task_current, since_boost, syscall_retry, waitVars, familyVars,
                     buffer_count>>
  BY DEF Schedule
<1>2. left = task_time_slice - 1 /\ left \in 0 .. SliceModulus - 1
  <2>1. task_time_slice - 1 \in 0 .. SliceModulus - 1 /\ SliceModulus \in Nat
    BY SliceAssumption DEF IInv, TypeOK, SliceNeverWraps
  <2> QED
    BY <2>1, SmallModulus
<1>3. BoostInv'
  BY <1>1 DEF IInv, BoostInv
<1>4. CASE /\ UNCHANGED <<queueVars, task_next, task_needs_switching, yield>>
           /\ \/ task_current = NoTask /\ task_time_slice' = task_time_slice
              \/ left # 0 /\ ~yield /\ task_time_slice' = left
  <2>1. SliceNeverWraps' /\ task_time_slice' \in 0 .. SliceModulus - 1
    BY <1>2, <1>4 DEF IInv, SliceNeverWraps, TypeOK
  <2>2. TypeOK'
    BY <1>1, <1>4, <2>1 DEF IInv, TypeOK, queueVars, waitVars, familyVars
  <2>3. CpuInv'
    BY <1>1, <1>4 DEF IInv, CpuInv, Owner, RunningInv, queueVars
  <2>4. KeyboardInv'
    BY <1>1, <1>4 DEF IInv, KeyboardInv, WaitsOnKeyboard, queueVars, waitVars
  <2> QED
    BY <1>1, <1>3, <1>4, <2>1, <2>2, <2>3, <2>4, QuietStep DEF IInv
<1>5. CASE task_current # NoTask /\ yield' = FALSE /\ Reschedule
  <2>1. /\ Queued(task_queues, task_queue_level, task_state)'
        /\ RunningInv'
        /\ task_time_slice' \in 1 .. SliceModulus - 1
        /\ SchedulerChange
    BY <1>1, <1>5, RescheduleFacts
  <2>2. PICK new \in Tasks :
           /\ task_state'[new] = "RUNNING"
           /\ \A t \in Tasks \ {IdlePid} : task_state'[t] = "RUNNING" => t = new
           /\ IF new # task_current THEN task_next' = new /\ task_needs_switching' = TRUE
              ELSE UNCHANGED <<task_next, task_needs_switching>>
    BY <1>1, <1>5, RescheduleFacts
  <2>3. ~task_needs_switching
    BY <1>1, <1>5 DEF IInv, CpuInv
  <2>4. TypeOK'
    <3>1. task_next' \in Tasks /\ task_needs_switching' \in BOOLEAN
      BY <2>2 DEF IInv, TypeOK
    <3>2. task_time_slice' \in 0 .. SliceModulus - 1
      BY <2>1, SliceAssumption
    <3> QED
      BY <1>1, <1>5, <2>1, <3>1, <3>2 DEF IInv, TypeOK, Queued, waitVars, familyVars
  <2>5. FamilyInv'
    BY <1>1, <2>1, SameFamilies DEF SchedulerChange
  <2>6. CpuInv'
    <3>1. Owner' = new
      BY <1>1, <2>2, <2>3 DEF Owner
    <3> QED
      BY <1>1, <1>5, <2>2, <3>1 DEF CpuInv
  <2>7. KeyboardInv'
    BY <1>1, <2>1 DEF SchedulerChange, IInv, KeyboardInv, WaitsOnKeyboard, waitVars
  <2>8. SliceNeverWraps'
    BY <2>1, SliceAssumption DEF SliceNeverWraps
  <2> QED
    BY <1>3, <2>1, <2>4, <2>5, <2>6, <2>7, <2>8 DEF IInv
<1> QED
  BY <1>4, <1>5 DEF Schedule

-----------------------------------------------------------------------------
\* fork: the new task has an id that was never used, so it is in no queue and no child list.
LEMMA ForkKeeps == IInv /\ Fork => IInv'
<1> SUFFICES ASSUME IInv, Fork
             PROVE  IInv'
  OBVIOUS
<1> DEFINE me == task_current
           new == task_id
<1>1. /\ Running
      /\ task_id' = task_id + 1 /\ task_id <= MaxPid
      /\ task_state' = [task_state EXCEPT ![new] = "READY"]
      /\ task_queue_level' = [task_queue_level EXCEPT ![new] = 0]
      /\ task_queues' = Enqueue(task_queues, 0, new)
      /\ parent' = [parent EXCEPT ![new] = me]
      /\ previous' = [previous EXCEPT ![new] = children_tail[me]]
      /\ children' = [children EXCEPT ![me] = Append(children[me], new)]
      /\ children_tail' = [children_tail EXCEPT ![me] = new]
      /\ kernel' \in {"return", "undefined"}
      /\ UNCHANGED <<cpuVars, sliceVars, syscall_retry, waitVars, buffer_count>>
  BY DEF Fork, NewSyscall, AddChild, ContinueIf
<1>2. /\ kernel = "user" /\ me \in Tasks \ {IdlePid}
      /\ task_state[me] = "RUNNING"
      /\ since_boost < BoostInterval
  BY <1>1, CallerFacts
<1>3. /\ task_state \in [Tasks -> States] /\ task_queue_level \in [Tasks -> Queues]
      /\ parent \in [Tasks -> Tasks \cup {NoTask}]
      /\ children \in [Tasks -> Seq(Tasks)]
      /\ children_tail \in [Tasks -> Tasks \cup {NoTask, Wild}]
      /\ previous \in [Tasks -> Tasks \cup {NoTask, Wild}]
      /\ Queued(task_queues, task_queue_level, task_state)
  BY DEF IInv, TypeOK
<1>4. /\ new \in Tasks /\ new \in 2 .. MaxPid
      /\ new # IdlePid /\ new # InitPid
      /\ task_state[new] = "FREE" /\ new # me
  <2>1. new \in 2 .. MaxPid /\ new \in Tasks /\ new # IdlePid /\ new # InitPid
    BY <1>1, MaxPidAssumption DEF IInv, TypeOK, Tasks, IdlePid, InitPid
  <2>2. task_state[new] = "FREE"
    BY <2>1 DEF IInv, FamilyInv
  <2> QED
    BY <1>2, <2>1, <2>2
<1>5. Queued(task_queues, task_queue_level, task_state)'
  <2>1. QueuesFor(task_state[new]) = {} /\ "READY" \in States /\ 0 \in QueuesFor("READY") /\ 0 \in Queues
    BY <1>4, QueuesForFacts, ConstantFacts DEF States
  <2>2. new \in Tasks \ {IdlePid}
    BY <1>4
  <2> HIDE DEF new
  <2>3. Queued(Enqueue(task_queues, 0, new), [task_queue_level EXCEPT ![new] = 0],
               [task_state EXCEPT ![new] = "READY"])
    BY <1>3, <2>1, <2>2, InsertTask
  <2> QED
    BY <1>1, <2>3
<1> HIDE DEF new, me
<1>6. /\ Append(children[me], new) \in Seq(Tasks)
      /\ ToSet(Append(children[me], new)) = ToSet(children[me]) \cup {new}
      /\ Distinct(Append(children[me], new))
  <2>1. children[me] \in Seq(Tasks) /\ Distinct(children[me]) /\ new \notin ToSet(children[me])
    BY <1>2, <1>3, <1>4 DEF IInv, FamilyInv
  <2> QED
    BY <1>4, <2>1, AppendList
<1>7. TypeOK'
  <2>1. /\ parent' \in [Tasks -> Tasks \cup {NoTask}]
        /\ children' \in [Tasks -> Seq(Tasks)]
        /\ children_tail' \in [Tasks -> Tasks \cup {NoTask, Wild}]
        /\ previous' \in [Tasks -> Tasks \cup {NoTask, Wild}]
    BY <1>1, <1>2, <1>3, <1>4, <1>6
  <2>2. task_id' \in 2 .. MaxPid + 1
    BY <1>1, MaxPidAssumption DEF IInv, TypeOK
  <2>3. /\ task_queues' \in [Queues -> Seq(Tasks)]
        /\ task_queue_level' \in [Tasks -> Queues]
        /\ task_state' \in [Tasks -> States]
    BY <1>5 DEF Queued
  <2> QED
    BY <1>1, <2>1, <2>2, <2>3 DEF IInv, TypeOK, cpuVars, sliceVars, waitVars
<1>8. /\ task_state'[new] = "READY"
      /\ \A t \in Tasks \ {new} : task_state'[t] = task_state[t] /\ task_queue_level'[t] = task_queue_level[t]
  BY <1>1, <1>3, <1>4
<1>9. RunningInv'
  BY <1>4, <1>8, ConstantFacts DEF IInv, RunningInv
<1>10. FamilyInv'
  <2>1. /\ children'[me] = Append(children[me], new)
        /\ \A p \in Tasks \ {me} : children'[p] = children[p]
        /\ parent'[new] = me
        /\ \A t \in Tasks \ {new} : parent'[t] = parent[t]
    BY <1>1, <1>2, <1>3, <1>4
  <2>2. \A p \in Tasks : ToSet(children[p]) \subseteq Tasks \ {new}
    BY <1>3, <1>4, ToSetType DEF IInv, FamilyInv
  <2>3. \A p \in Tasks : Distinct(children'[p])
    BY <1>6, <2>1 DEF IInv, FamilyInv
  <2>4. ASSUME NEW p \in Tasks, NEW c \in ToSet(children'[p])
        PROVE  parent'[c] = p /\ task_state'[c] # "FREE"
    <3>1. CASE c = new
      BY <1>6, <1>8, <2>1, <2>2, <3>1
    <3>2. CASE c # new
      <4>1. c \in ToSet(children[p])
        BY <1>6, <2>1, <3>2
      <4> QED
        BY <1>8, <2>1, <2>2, <3>2, <4>1 DEF IInv, FamilyInv
    <3> QED
      BY <3>1, <3>2
  <2>5. \A t \in Tasks : parent'[t] # t
    BY <1>4, <2>1 DEF IInv, FamilyInv
  <2>6. parent'[IdlePid] = NoTask /\ parent'[InitPid] = NoTask /\ task_state'[InitPid] # "FREE"
    BY <1>4, <1>8, <2>1, ConstantFacts DEF IInv, FamilyInv
  <2>7. \A t \in Tasks : t >= task_id' => task_state'[t] = "FREE"
    BY <1>1, <1>4, <1>8 DEF IInv, FamilyInv, new, Tasks
  <2> QED
    BY <2>3, <2>4, <2>5, <2>6, <2>7 DEF FamilyInv
<1>11. CpuInv'
  BY <1>1, <1>2, <1>4, <1>8, SameOwner
<1>12. BoostInv' /\ SliceNeverWraps'
  BY <1>1, <1>2 DEF IInv, BoostInv, SliceNeverWraps, sliceVars
<1>13. KeyboardInv'
  BY <1>1, <1>2, <1>8 DEF IInv, KeyboardInv, WaitsOnKeyboard, waitVars
<1> QED
  BY <1>5, <1>7, <1>9, <1>10, <1>11, <1>12, <1>13 DEF IInv

\* waitpid destroys a zombie of the caller: it leaves the one queue and the one child list
\* it is in.
LEMMA ReapKeeps ==
    ASSUME IInv, NEW pid, WaitpidReaps(pid)
    PROVE  IInv'
<1> DEFINE me == task_current
           list == children[me]
<1>1. PICK i \in DOMAIN list :
         /\ Reapable(pid, i)
         /\ RemoveChild(parent[list[i]], i)
         /\ ContinueIf(RemoveChildDefined(parent[list[i]], i), "return")
         /\ task_queues' = RemoveFromQueue(task_queues, task_queue_level[list[i]], list[i])
         /\ task_state' = [task_state EXCEPT ![list[i]] = "FREE"]
  BY DEF WaitpidReaps
<1> DEFINE z == list[i]
<1>2. /\ Running
      /\ syscall_retry' = [syscall_retry EXCEPT ![me] = FALSE]
      /\ UNCHANGED <<task_id, task_queue_level, cpuVars, sliceVars, waitVars, parent, buffer_count>>
  BY DEF WaitpidReaps, WaitpidCall
<1>3. /\ kernel = "user" /\ me \in Tasks \ {IdlePid}
      /\ since_boost < BoostInterval
  BY <1>2, CallerFacts
<1>4. /\ task_state \in [Tasks -> States]
      /\ children \in [Tasks -> Seq(Tasks)]
      /\ children_tail \in [Tasks -> Tasks \cup {NoTask, Wild}]
      /\ previous \in [Tasks -> Tasks \cup {NoTask, Wild}]
      /\ Queued(task_queues, task_queue_level, task_state)
  BY DEF IInv, TypeOK
<1>5. /\ list \in Seq(Tasks) /\ Distinct(list)
      /\ Len(list) \in Nat /\ DOMAIN list = 1 .. Len(list)
      /\ \A j \in DOMAIN list : list[j] \in Tasks
  BY <1>3, <1>4, LenProperties DEF IInv, FamilyInv
<1>6. /\ z \in Tasks /\ z \in ToSet(list)
      /\ parent[z] = me /\ task_state[z] = "ZOMBIE"
      /\ z # InitPid /\ z # IdlePid
  <2>1. z \in Tasks /\ z \in ToSet(list) /\ task_state[z] = "ZOMBIE"
    BY <1>1, <1>5 DEF ToSet, Reapable
  <2>2. parent[z] = me
    BY <1>3, <2>1 DEF IInv, FamilyInv
  <2> QED
    BY <1>3, <2>1, <2>2, ConstantFacts DEF IInv, FamilyInv
<1>7. Queued(task_queues, task_queue_level, task_state)'
  <2>1. Queued(RemoveFromQueue(task_queues, task_queue_level[z], z), task_queue_level,
               [task_state EXCEPT ![z] = "FREE"])
    BY <1>4, <1>6, RemoveTask, QueuesForFacts DEF States
  <2> QED
    BY <1>1, <1>2, <2>1
<1>8. /\ task_state'[z] = "FREE"
      /\ \A t \in Tasks \ {z} : task_state'[t] = task_state[t]
  BY <1>1, <1>4, <1>6
<1>9. /\ children' = [children EXCEPT ![me] = IF previous[z] = NoTask THEN SubSeq(list, i + 1, Len(list))
                                              ELSE RemoveFirst(list, z)]
      /\ previous' = IF i < Len(list) THEN [previous EXCEPT ![list[i + 1]] = previous[z]] ELSE previous
      /\ children_tail' = [children_tail EXCEPT ![me] = TailWithout(me, i)]
  BY <1>1, <1>6 DEF RemoveChild
<1> DEFINE rest == IF previous[z] = NoTask THEN SubSeq(list, i + 1, Len(list)) ELSE RemoveFirst(list, z)
<1>10. /\ rest \in Seq(Tasks) /\ Distinct(rest)
       /\ ToSet(rest) \subseteq ToSet(list) \ {z}
  <2>1. /\ RemoveFirst(list, z) \in Seq(Tasks) /\ Distinct(RemoveFirst(list, z))
        /\ ToSet(RemoveFirst(list, z)) = ToSet(list) \ {z}
    BY <1>5, RemoveList
  <2>2. /\ SubSeq(list, i + 1, Len(list)) \in Seq(Tasks) /\ Distinct(SubSeq(list, i + 1, Len(list)))
        /\ ToSet(SubSeq(list, i + 1, Len(list))) = {list[j] : j \in i + 1 .. Len(list)}
    <3>1. i \in 0 .. Len(list)
      BY <1>1, <1>5
    <3> QED
      BY <1>5, <3>1, SuffixList
  <2>3. {list[j] : j \in i + 1 .. Len(list)} \subseteq ToSet(list) \ {z}
    <3> SUFFICES ASSUME NEW j \in i + 1 .. Len(list)
                 PROVE  list[j] \in ToSet(list) \ {z}
      OBVIOUS
    <3>1. j \in DOMAIN list /\ j # i
      BY <1>1, <1>5
    <3> QED
      BY <1>1, <1>5, <3>1 DEF ToSet, Distinct
  <2> QED
    BY <2>1, <2>2, <2>3
<1> HIDE DEF rest, z, list, me
<1>11. /\ children'[me] = rest
       /\ \A p \in Tasks \ {me} : children'[p] = children[p]
       /\ children' \in [Tasks -> Seq(Tasks)]
  BY <1>3, <1>4, <1>9, <1>10 DEF rest
<1>12. TypeOK'
  <2>1. previous' \in [Tasks -> Tasks \cup {NoTask, Wild}]
    BY <1>4, <1>6, <1>9
  <2>2. children_tail' \in [Tasks -> Tasks \cup {NoTask, Wild}]
    <3>1. TailWithout(me, i) \in Tasks \cup {NoTask, Wild}
      BY <1>3, <1>4, <1>6 DEF TailWithout, z, list
    <3> QED
      BY <1>4, <1>9, <3>1
  <2>3. kernel' \in {"return", "undefined"}
    BY <1>1 DEF ContinueIf
  <2>4. /\ task_queues' \in [Queues -> Seq(Tasks)]
        /\ task_queue_level' \in [Tasks -> Queues]
        /\ task_state' \in [Tasks -> States]
    BY <1>7 DEF Queued
  <2> QED
    BY <1>2, <1>11, <2>1, <2>2, <2>3, <2>4 DEF IInv, TypeOK, cpuVars, sliceVars, waitVars
<1>13. RunningInv'
  BY <1>2, <1>6, <1>8, ConstantFacts DEF IInv, RunningInv
<1>14. FamilyInv'
  <2>1. \A p \in Tasks : Distinct(children'[p])
    BY <1>10, <1>11 DEF IInv, FamilyInv
  <2>2. ASSUME NEW p \in Tasks, NEW c \in ToSet(children'[p])
        PROVE  parent[c] = p /\ task_state'[c] # "FREE"
    <3>1. c \in ToSet(children[p]) /\ c # z
      <4>1. CASE p = me
        BY <1>10, <1>11, <4>1 DEF list
      <4>2. CASE p # me
        <5>1. c \in ToSet(children[p])
          BY <1>11, <4>2
        <5>2. parent[c] = p
          BY <5>1 DEF IInv, FamilyInv
        <5> QED
          BY <1>6, <4>2, <5>1, <5>2
      <4> QED
        BY <4>1, <4>2
    <3>2. c \in Tasks
      BY <1>4, <3>1, ToSetType
    <3> QED
      BY <1>8, <3>1, <3>2 DEF IInv, FamilyInv
  <2> QED
    BY <1>2, <1>6, <1>8, <2>1, <2>2, ConstantFacts DEF IInv, FamilyInv
<1>15. CpuInv'
  BY <1>2, <1>3, <1>6, <1>8, SameOwner
<1>16. BoostInv' /\ SliceNeverWraps'
  BY <1>2, <1>3 DEF IInv, BoostInv, SliceNeverWraps, sliceVars
<1>17. KeyboardInv'
  BY <1>2, <1>3, <1>8 DEF IInv, KeyboardInv, WaitsOnKeyboard, waitVars
<1> QED
  BY <1>7, <1>12, <1>13, <1>14, <1>15, <1>16, <1>17 DEF IInv

-----------------------------------------------------------------------------
\* task_manager_exit_task of a task that has not exited yet: it ends in the zombie queue
\* alone, its parent is woken at most, and init gets its children.
LEMMA ExitFacts ==
    ASSUME IInv, NEW t \in Tasks \ {IdlePid}, task_state[t] \in {"READY", "RUNNING", "BLOCKED"},
           ExitTask(t), UNCHANGED task_id
    PROVE  /\ Queued(task_queues, task_queue_level, task_state)'
           /\ RunningInv'
           /\ FamilyInv'
           /\ task_state'[t] = "ZOMBIE"
           /\ \A u \in Tasks \ {t} :
                 \/ task_state'[u] = task_state[u]
                 \/ task_state[u] = "BLOCKED" /\ task_state'[u] = "READY"
           /\ parent' \in [Tasks -> Tasks \cup {NoTask}]
           /\ children' \in [Tasks -> Seq(Tasks)]
           /\ children_tail' = children_tail
           /\ previous' \in [Tasks -> Tasks \cup {NoTask, Wild}]
<1> DEFINE p == parent[t]
           wakes == WakesParent(t)
           without == CASE task_state[t] = "READY" ->
                               RemoveFromQueue(task_queues, task_queue_level[t], t)
                        [] task_state[t] = "BLOCKED" ->
                               RemoveFromQueue(task_queues, BlockedQueue, t)
                        [] OTHER -> task_queues
           woken == IF wakes THEN Enqueue(RemoveFromQueue(without, task_queue_level[p], p), 0, p)
                    ELSE without
           orphans == ToSet(children[t])
           state1 == [task_state EXCEPT ![t] = "FREE"]
<1>1. /\ task_state \in [Tasks -> States] /\ task_queue_level \in [Tasks -> Queues]
      /\ parent \in [Tasks -> Tasks \cup {NoTask}]
      /\ children \in [Tasks -> Seq(Tasks)]
      /\ previous \in [Tasks -> Tasks \cup {NoTask, Wild}]
      /\ Queued(task_queues, task_queue_level, task_state)
  BY DEF IInv, TypeOK
<1>2. wakes => p \in Tasks \ {IdlePid, t} /\ task_state[p] = "BLOCKED"
  BY <1>1 DEF WakesParent, IInv, RunningInv, FamilyInv
<1>3. /\ task_queues' = Enqueue(woken, ZombieQueue, t)
      /\ task_state' = [u \in Tasks |-> CASE u = t -> "ZOMBIE"
                                          [] u # t /\ wakes /\ u = p -> "READY"
                                          [] OTHER -> task_state[u]]
      /\ task_queue_level' = [u \in Tasks |-> CASE u = t -> ZombieQueue
                                                [] u # t /\ wakes /\ u = p -> 0
                                                [] OTHER -> task_queue_level[u]]
  BY DEF ExitTask
<1>4. /\ parent' = [u \in Tasks |-> AdoptedParent(t, u)]
      /\ children' = [children EXCEPT ![InitPid] = Reverse(children[t]) \o @, ![t] = <<>>]
      /\ \E garbage \in [orphans -> Uninitialised] :
            previous' = [u \in Tasks |-> IF u \in orphans THEN garbage[u] ELSE previous[u]]
      /\ children_tail' = children_tail
  BY DEF ExitTask
<1>5. Queued(without, task_queue_level, state1)
  <2>1. "FREE" \in States /\ QueuesFor("FREE") = {}
    BY QueuesForFacts DEF States
  <2>2. CASE task_state[t] = "READY"
    <3>1. without = RemoveFromQueue(task_queues, task_queue_level[t], t)
      BY <2>2
    <3> HIDE DEF without
    <3> QED
      BY <1>1, <2>1, <3>1, RemoveTask
  <2>3. CASE task_state[t] = "BLOCKED"
    <3>1. task_queue_level[t] \in QueuesFor(task_state[t])
      BY <1>1, <2>3, QueuesForFacts DEF Queued
    <3>2. task_queue_level[t] = BlockedQueue
      BY <2>3, <3>1, QueuesForFacts
    <3>3. without = RemoveFromQueue(task_queues, task_queue_level[t], t)
      BY <2>3, <3>2
    <3> HIDE DEF without
    <3> QED
      BY <1>1, <2>1, <3>3, RemoveTask
  <2>4. CASE task_state[t] = "RUNNING"
    <3>1. without = task_queues
      BY <2>4
    <3>2. QueuesFor(task_state[t]) = {}
      BY <2>4, QueuesForFacts
    <3> QED
      BY <1>1, <2>1, <3>1, <3>2, RelabelTask
  <2> QED
    BY <2>2, <2>3, <2>4
<1>6. Queued(task_queues, task_queue_level, task_state)'
  <2>1. "READY" \in States /\ "ZOMBIE" \in States /\ 0 \in QueuesFor("READY")
        /\ ZombieQueue \in QueuesFor("ZOMBIE") /\ QueuesFor("FREE") = {}
        /\ 0 \in Queues /\ ZombieQueue \in Queues
    BY QueuesForFacts, ConstantFacts DEF States
  <2>2. CASE wakes
    <3> DEFINE level2 == [task_queue_level EXCEPT ![p] = 0]
               state2 == [state1 EXCEPT ![p] = "READY"]
    <3>1. p \in Tasks \ {IdlePid} /\ p # t
      BY <1>2, <2>2
    <3>2. state2[t] = "FREE"
      BY <1>1, <3>1
    <3>3. woken = Enqueue(RemoveFromQueue(without, task_queue_level[p], p), 0, p)
      BY <2>2
    <3>4. /\ task_queue_level' = [level2 EXCEPT ![t] = ZombieQueue]
          /\ task_state' = [state2 EXCEPT ![t] = "ZOMBIE"]
      BY <1>1, <1>3, <2>2, <3>1
    <3> HIDE DEF state1, p, without
    <3>5. Queued(woken, level2, state2)
      BY <1>5, <2>1, <3>1, <3>3, MoveTask
    <3> HIDE DEF level2, state2, woken
    <3>6. QueuesFor(state2[t]) = {}
      BY <2>1, <3>2
    <3>7. Queued(Enqueue(woken, ZombieQueue, t), [level2 EXCEPT ![t] = ZombieQueue],
                 [state2 EXCEPT ![t] = "ZOMBIE"])
      BY <2>1, <3>5, <3>6, InsertTask
    <3> QED
      BY <1>3, <3>4, <3>7
  <2>3. CASE ~wakes
    <3>1. woken = without
      BY <2>3
    <3>2. state1[t] = "FREE"
      BY <1>1
    <3>3. /\ task_queue_level' = [task_queue_level EXCEPT ![t] = ZombieQueue]
          /\ task_state' = [state1 EXCEPT ![t] = "ZOMBIE"]
      BY <1>1, <1>3, <2>3
    <3> HIDE DEF state1, without, woken
    <3>4. QueuesFor(state1[t]) = {}
      BY <2>1, <3>2
    <3>5. Queued(Enqueue(without, ZombieQueue, t), [task_queue_level EXCEPT ![t] = ZombieQueue],
                 [state1 EXCEPT ![t] = "ZOMBIE"])
      BY <1>5, <2>1, <3>4, InsertTask
    <3> QED
      BY <1>3, <3>1, <3>3, <3>5
  <2> QED
    BY <2>2, <2>3
<1> HIDE DEF without, woken, state1
<1>7. /\ task_state'[t] = "ZOMBIE"
      /\ \A u \in Tasks \ {t} :
            \/ task_state'[u] = task_state[u] /\ task_queue_level'[u] = task_queue_level[u]
            \/ task_state[u] = "BLOCKED" /\ task_state'[u] = "READY"
  BY <1>2, <1>3
<1>8. RunningInv'
  BY <1>7, ConstantFacts DEF IInv, RunningInv
<1>9. /\ children[t] \in Seq(Tasks) /\ Distinct(children[t]) /\ orphans \subseteq Tasks
      /\ \A u \in orphans : parent[u] = t
  BY <1>1, ToSetType DEF IInv, FamilyInv
<1>10. /\ parent' \in [Tasks -> Tasks \cup {NoTask}]
       /\ \A u \in orphans : parent'[u] = InitPid
       /\ \A u \in Tasks \ orphans : parent'[u] = parent[u]
  <2>1. \A u \in Tasks : AdoptedParent(t, u) = IF u \in orphans THEN InitPid ELSE parent[u]
    BY <1>9, ContainsIsMember DEF AdoptedParent
  <2> QED
    BY <1>1, <1>4, <1>9, <2>1, ConstantFacts
<1>11. previous' \in [Tasks -> Tasks \cup {NoTask, Wild}]
  <2>1. PICK garbage \in [orphans -> Uninitialised] :
           previous' = [u \in Tasks |-> IF u \in orphans THEN garbage[u] ELSE previous[u]]
    BY <1>4
  <2>2. \A u \in orphans : garbage[u] \in {NoTask, Wild}
    BY <2>1, UninitialisedAssumption
  <2> QED
    BY <1>1, <2>1, <2>2
<1> DEFINE adopted == Reverse(children[t]) \o children[InitPid]
<1>12. t # InitPid => /\ adopted \in Seq(Tasks) /\ Distinct(adopted)
                      /\ ToSet(adopted) = orphans \cup ToSet(children[InitPid])
  <2> SUFFICES ASSUME t # InitPid
               PROVE  /\ adopted \in Seq(Tasks) /\ Distinct(adopted)
                      /\ ToSet(adopted) = orphans \cup ToSet(children[InitPid])
    OBVIOUS
  <2>1. /\ Reverse(children[t]) \in Seq(Tasks) /\ Distinct(Reverse(children[t]))
        /\ ToSet(Reverse(children[t])) = orphans
    BY <1>9, ReverseList
  <2>2. /\ children[InitPid] \in Seq(Tasks) /\ Distinct(children[InitPid])
        /\ \A u \in ToSet(children[InitPid]) : parent[u] = InitPid
    BY <1>1, ConstantFacts DEF IInv, FamilyInv
  <2>3. ToSet(Reverse(children[t])) \cap ToSet(children[InitPid]) = {}
    BY <1>9, <2>1, <2>2
  <2> QED
    BY <2>1, <2>2, <2>3, ConcatList
<1>13. /\ children'[t] = <<>>
       /\ t # InitPid => children'[InitPid] = adopted
       /\ \A u \in Tasks \ {t, InitPid} : children'[u] = children[u]
  BY <1>1, <1>4, ConstantFacts
<1>14. children' \in [Tasks -> Seq(Tasks)]
  <2>1. ASSUME NEW u \in Tasks
        PROVE  children'[u] \in Seq(Tasks)
    <3>1. CASE u = t
      BY <1>13, <3>1, EmptySeq
    <3>2. CASE u # t /\ u = InitPid
      BY <1>12, <1>13, <3>2
    <3>3. CASE u # t /\ u # InitPid
      BY <1>1, <1>13, <3>3
    <3> QED
      BY <3>1, <3>2, <3>3
  <2>2. children' = [u \in Tasks |-> children'[u]]
    BY <1>1, <1>4
  <2> QED
    BY <2>1, <2>2
<1> HIDE DEF adopted, orphans, wakes, p
<1>15. FamilyInv'
  <2>1. \A u \in Tasks : Distinct(children'[u])
    BY <1>12, <1>13, EmptyList DEF IInv, FamilyInv
  <2>2. ASSUME NEW u \in Tasks, NEW c \in ToSet(children'[u])
        PROVE  parent'[c] = u /\ task_state'[c] # "FREE"
    <3>1. (c \in orphans /\ u = InitPid) \/ (c \in ToSet(children[u]) /\ u # t)
      BY <1>12, <1>13, EmptyList
    <3>2. c \in Tasks
      BY <1>14, ToSetType
    <3>3. task_state[c] # "FREE"
      BY <3>1 DEF IInv, FamilyInv, orphans
    <3>4. parent'[c] = u
      BY <1>9, <1>10, <3>1, <3>2 DEF IInv, FamilyInv
    <3> QED
      BY <1>7, <3>2, <3>3, <3>4
  <2>3. InitPid \notin orphans /\ IdlePid \notin orphans
    BY <1>9, ConstantFacts DEF IInv, FamilyInv
  <2>4. \A u \in Tasks : parent'[u] # u
    BY <1>10, <2>3 DEF IInv, FamilyInv
  <2>5. parent'[IdlePid] = NoTask /\ parent'[InitPid] = NoTask /\ task_state'[InitPid] # "FREE"
    BY <1>7, <1>10, <2>3, ConstantFacts DEF IInv, FamilyInv
  <2>6. \A u \in Tasks : u >= task_id' => task_state'[u] = "FREE"
    BY <1>7 DEF IInv, FamilyInv
  <2> QED
    BY <2>1, <2>2, <2>4, <2>5, <2>6 DEF FamilyInv
<1> QED
  BY <1>4, <1>6, <1>7, <1>8, <1>10, <1>11, <1>14, <1>15

-----------------------------------------------------------------------------
\* The tree that task_manager_find_task searches holds allocated tasks, and never idle.
LEMMA ReachableFacts ==
    ASSUME IInv, NEW t \in Tasks, Reachable(t)
    PROVE  t # IdlePid /\ task_state[t] # "FREE"
<1> DEFINE S == {u \in Tasks : u # IdlePid /\ task_state[u] # "FREE"}
<1>1. InitPid \in S
  BY ConstantFacts DEF IInv, FamilyInv
<1>2. ASSUME NEW u \in S
      PROVE  ToSet(children[u]) \subseteq S
  <2> SUFFICES ASSUME NEW c \in ToSet(children[u])
               PROVE  c \in S
    OBVIOUS
  <2>1. c \in Tasks
    BY ToSetType DEF IInv, TypeOK
  <2>2. parent[c] = u /\ task_state[c] # "FREE"
    BY DEF IInv, FamilyInv
  <2>3. c # IdlePid
    BY <2>2, ConstantFacts DEF IInv, FamilyInv
  <2> QED
    BY <2>1, <2>2, <2>3
<1>3. S \in SUBSET Tasks
  OBVIOUS
<1> HIDE DEF S
<1>4. t \in S
  BY <1>1, <1>2, <1>3 DEF Reachable
<1> QED
  BY <1>4 DEF S

\* The current task ends t, itself or another that has not exited yet.
Ends(t) ==
    /\ Running
    /\ t \in Tasks \ {IdlePid} /\ task_state[t] \in {"READY", "RUNNING", "BLOCKED"}
    /\ ExitTask(t)
    /\ IF t = task_current THEN YieldCurrent ELSE kernel' = "return" /\ UNCHANGED yield
    /\ UNCHANGED <<task_id, cpuVars, task_time_slice, since_boost, syscall_retry, waitVars,
                   buffer_count>>

\* Exit, and a kill that is not handled, end a task.
LEMMA ExitEnds ==
    ASSUME IInv, Exit \/ \E t \in Tasks : KillTerminates(t)
    PROVE  \E t \in Tasks : Ends(t)
<1>1. CASE Exit
  <2>1. Running
    BY <1>1 DEF Exit, NewSyscall
  <2>2. Ends(task_current)
    BY <1>1, <2>1, CallerFacts DEF Exit, Ends
  <2> QED
    BY <2>1, <2>2, CallerFacts
<1>2. CASE \E t \in Tasks : KillTerminates(t)
  <2>1. PICK t \in Tasks : KillTerminates(t)
    BY <1>2
  <2>2. Running /\ Reachable(t) /\ task_state[t] # "ZOMBIE"
    BY <2>1 DEF KillTerminates, KillCall, NewSyscall
  <2>3. t # IdlePid /\ task_state[t] # "FREE"
    BY <2>2, ReachableFacts
  <2>4. task_state[t] \in {"READY", "RUNNING", "BLOCKED"}
    BY <2>2, <2>3 DEF IInv, TypeOK, States
  <2>5. Ends(t)
    BY <2>1, <2>2, <2>3, <2>4 DEF KillTerminates, Ends
  <2> QED
    BY <2>5
<1> QED
  BY <1>1, <1>2

\* The end of a task, of its own or by a signal.
LEMMA ExitKeeps ==
    ASSUME IInv, Exit \/ \E t \in Tasks : KillTerminates(t)
    PROVE  IInv'
<1> DEFINE me == task_current
<1>1. PICK t \in Tasks :
         /\ Running
         /\ t \in Tasks \ {IdlePid} /\ task_state[t] \in {"READY", "RUNNING", "BLOCKED"}
         /\ ExitTask(t)
         /\ IF t = me THEN YieldCurrent ELSE kernel' = "return" /\ UNCHANGED yield
         /\ UNCHANGED <<task_id, cpuVars, task_time_slice, since_boost, syscall_retry, waitVars,
                        buffer_count>>
  BY ExitEnds DEF Ends
<1>2. /\ kernel = "user" /\ me \in Tasks \ {IdlePid}
      /\ task_state[me] = "RUNNING"
      /\ ~task_needs_switching /\ since_boost < BoostInterval
      /\ \A u \in Tasks \ {IdlePid} : task_state[u] = "RUNNING" => u = me
  BY <1>1, CallerFacts
<1>3. /\ Queued(task_queues, task_queue_level, task_state)'
      /\ RunningInv'
      /\ FamilyInv'
      /\ task_state'[t] = "ZOMBIE"
      /\ \A u \in Tasks \ {t} :
            \/ task_state'[u] = task_state[u]
            \/ task_state[u] = "BLOCKED" /\ task_state'[u] = "READY"
      /\ parent' \in [Tasks -> Tasks \cup {NoTask}]
      /\ children' \in [Tasks -> Seq(Tasks)]
      /\ children_tail' = children_tail
      /\ previous' \in [Tasks -> Tasks \cup {NoTask, Wild}]
  BY <1>1, ExitFacts
<1>4. /\ yield' \in BOOLEAN
      /\ IF t = me THEN yield' = TRUE /\ kernel' = "schedule" ELSE kernel' = "return"
  <2>1. ScheduleEntry(since_boost) = "schedule"
    BY <1>2, BoostAssumption DEF ScheduleEntry, IInv, TypeOK
  <2> QED
    BY <1>1, <2>1 DEF YieldCurrent, IInv, TypeOK
<1>5. TypeOK'
  <2>1. /\ task_queues' \in [Queues -> Seq(Tasks)]
        /\ task_queue_level' \in [Tasks -> Queues]
        /\ task_state' \in [Tasks -> States]
    BY <1>3 DEF Queued
  <2> QED
    BY <1>1, <1>3, <1>4, <2>1 DEF IInv, TypeOK, cpuVars, waitVars
<1>6. CpuInv'
  <2>1. Owner = me /\ Owner' = me
    BY <1>1, <1>2 DEF Owner, cpuVars
  <2>2. \A u \in Tasks \ {IdlePid} : task_state'[u] = "RUNNING" => u = me
    BY <1>2, <1>3
  <2>3. t # me => task_state'[me] = "RUNNING"
    BY <1>2, <1>3
  <2> QED
    BY <1>1, <1>2, <1>4, <2>1, <2>2, <2>3, ConstantFacts DEF CpuInv, cpuVars
<1>7. BoostInv' /\ SliceNeverWraps'
  BY <1>1, <1>2 DEF IInv, BoostInv, SliceNeverWraps
<1>8. KeyboardInv'
  <2>1. \A u \in Tasks : task_state'[u] = "BLOCKED" => task_state[u] = "BLOCKED"
    BY <1>3
  <2> QED
    BY <1>1, <1>2, <2>1 DEF IInv, KeyboardInv, WaitsOnKeyboard, waitVars
<1> QED
  BY <1>3, <1>5, <1>6, <1>7, <1>8 DEF IInv

-----------------------------------------------------------------------------
(***************************************************************************)
(* The theorems.                                                            *)
(***************************************************************************)

\* The inductive invariant holds in every reachable state.
THEOREM Invariance == Spec => []IInv
<1>1. IInv /\ [Next]_vars => IInv'
  <2> SUFFICES ASSUME IInv, [Next]_vars
               PROVE  IInv'
    OBVIOUS
  <2>1. CASE TimerIrq
    BY <2>1, TimerKeeps
  <2>2. CASE KeyboardIrq
    BY <2>2, KeyboardKeeps
  <2>3. CASE KernelStep
    BY <2>3, BoostStepKeeps, BoostEndKeeps, ScheduleKeeps, ReturnKeeps, WakeStepKeeps, WakeEndKeeps
       DEF KernelStep
  <2>4. CASE Fork
    BY <2>4, ForkKeeps
  <2>5. CASE Exit
    BY <2>5, ExitKeeps
  <2>6. CASE \E pid \in Tasks \cup {AnyChild} : Waitpid(pid)
    BY <2>6, ReapKeeps, ImmediateKeeps, BlockingCallsKeep DEF Waitpid
  <2>7. CASE Read
    BY <2>7, ImmediateKeeps, BlockingCallsKeep DEF Read
  <2>8. CASE \E t \in Tasks : Kill(t)
    BY <2>8, ExitKeeps, KillHandledKeeps DEF Kill
  <2>9. CASE UNCHANGED vars
    <3>1. /\ UNCHANGED <<task_id, queueVars, familyVars>>
          /\ UNCHANGED <<cpuVars, sliceVars, syscall_retry, waitVars, buffer_count, kernel>>
      BY <2>9 DEF vars
    <3>2. TypeOK'
      BY <3>1 DEF IInv, TypeOK, queueVars, cpuVars, sliceVars, waitVars, familyVars
    <3>3. CpuInv'
      BY <3>1 DEF IInv, CpuInv, Owner, cpuVars, queueVars, sliceVars
    <3>4. BoostInv' /\ SliceNeverWraps' /\ KeyboardInv'
      BY <3>1 DEF IInv, BoostInv, SliceNeverWraps, KeyboardInv, WaitsOnKeyboard, queueVars,
                  waitVars, sliceVars
    <3> QED
      BY <3>1, <3>2, <3>3, <3>4, QuietStep DEF IInv
  <2>10. CASE Undefined
    BY <2>9, <2>10 DEF Undefined
  <2> QED
    BY <2>1, <2>2, <2>3, <2>4, <2>5, <2>6, <2>7, <2>8, <2>9, <2>10 DEF Next
<1> QED
  BY <1>1, InitKeeps, PTL DEF Spec

\* Every variable of the task manager keeps its type.
THEOREM TypeCorrect == Spec => []TypeOK
<1>1. IInv => TypeOK
  BY DEF IInv
<1> QED
  BY <1>1, Invariance, PTL

\* A task is in exactly the queue its state calls for, once, at every point of every handler.
THEOREM QueuesAreDisciplined == Spec => []QueueDiscipline
<1>1. IInv => QueueDiscipline
  <2> SUFFICES ASSUME IInv
               PROVE  QueueDiscipline
    OBVIOUS
  <2>1. Queued(task_queues, task_queue_level, task_state)
    BY DEF IInv
  <2>2. \A q \in Queues : \A i \in DOMAIN task_queues[q] : task_queues[q][i] \in ToSet(task_queues[q])
    BY DEF ToSet
  <2>3. \A t \in Tasks : QueuesFor(task_state[t]) # {} => Contains(task_queues[task_queue_level[t]], t)
    BY <2>1, ContainsIsMember DEF Queued
  <2> QED
    BY <2>1, <2>2, <2>3 DEF QueueDiscipline, Queued, Distinct
<1> QED
  BY <1>1, Invariance, PTL

\* Whenever user code runs, it is that of the one task in state RUNNING.
THEOREM OnlyTheRunnerRuns == Spec => []RunnerIsRunning
<1>1. IInv => RunnerIsRunning
  BY DEF IInv, CpuInv, Owner, RunnerIsRunning
<1> QED
  BY <1>1, Invariance, PTL

\* The unsigned time slice is never decremented from 0.
THEOREM SliceIsPositive == Spec => []SliceNeverWraps
<1>1. IInv => SliceNeverWraps
  BY DEF IInv
<1> QED
  BY <1>1, Invariance, PTL

\* A key press wakes every task that waits for one; no wake-up is lost.
THEOREM NoLostKeyboardWakeup == Spec => []KeyboardWakesReaders
<1>1. IInv => KeyboardWakesReaders
  BY DEF IInv, KeyboardInv, KeyboardWakesReaders
<1> QED
  BY <1>1, Invariance, PTL

\* A step that leaves every state alone respects the life cycle.
LEMMA SameStates ==
    ASSUME task_state' = task_state
    PROVE  Lifecycle
BY DEF Lifecycle

\* The step changes the state of one task.
LEMMA OneStateChanges ==
    ASSUME IInv, NEW t \in Tasks, NEW s, task_state' = [task_state EXCEPT ![t] = s]
    PROVE  task_state'[t] = s /\ \A u \in Tasks \ {t} : task_state'[u] = task_state[u]
<1>1. task_state \in [Tasks -> States]
  BY DEF IInv, TypeOK
<1> QED
  BY <1>1

\* A task id is used once, a zombie is only ever destroyed, a task is destroyed only by its
\* parent's waitpid, and only the scheduler starts a task.
THEOREM LifecycleIsRespected == Spec => LifecycleRespected
<1>1. IInv /\ [Next]_vars => [Lifecycle]_vars
  <2> SUFFICES ASSUME IInv, [Next]_vars
               PROVE  Lifecycle
    OBVIOUS
  <2>1. CASE TimerIrq \/ KeyboardIrq \/ Read \/ Undefined \/ UNCHANGED vars
    <3>1. CASE ReadBlocks
      <4>1. Running /\ task_state' = [task_state EXCEPT ![task_current] = "BLOCKED"]
        BY <3>1 DEF ReadBlocks, ReadCall, BlockTask
      <4>2. task_current \in Tasks /\ task_state[task_current] = "RUNNING"
        BY <4>1, CallerFacts
      <4>3. /\ task_state'[task_current] = "BLOCKED"
            /\ \A u \in Tasks \ {task_current} : task_state'[u] = task_state[u]
        BY <4>1, <4>2, OneStateChanges
      <4> QED
        BY <4>2, <4>3 DEF Lifecycle
    <3>2. CASE ~ReadBlocks
      BY <2>1, <3>2, SameStates
         DEF TimerIrq, KeyboardIrq, Read, ReadDelivers, ReadWouldBlock, Undefined, vars, queueVars
    <3> QED
      BY <3>1, <3>2
  <2>2. CASE KernelStep
    <3>1. CASE BoostStep \/ BoostEnd \/ ReturnFromInterrupt \/ WakeEnd
      BY <3>1, SameStates DEF BoostStep, BoostEnd, ReturnFromInterrupt, WakeEnd, queueVars
    <3>2. CASE WakeStep
      <4>1. PICK i \in DOMAIN task_queues[BlockedQueue] : UnblockTask(task_queues[BlockedQueue][i])
        BY <3>2 DEF WakeStep
      <4> DEFINE t == task_queues[BlockedQueue][i]
      <4>2. t \in ToSet(task_queues[BlockedQueue]) /\ t \in Tasks
        BY <4>1, ConstantFacts, ToSetType DEF ToSet, IInv, TypeOK
      <4>3. BlockedQueue \in QueuesFor(task_state[t]) /\ task_state[t] \in States
        BY <4>2, ConstantFacts DEF IInv, Queued
      <4>4. task_state[t] = "BLOCKED"
        BY <4>3, ConstantFacts, QueuesForFacts DEF States
      <4>5. task_state'[t] = "READY" /\ \A u \in Tasks \ {t} : task_state'[u] = task_state[u]
        BY <4>1, <4>2, <4>4, UnblockFacts
      <4> HIDE DEF t
      <4> QED
        BY <4>4, <4>5 DEF Lifecycle
    <3>3. CASE Schedule
      <4>1. kernel = "schedule"
        BY <3>3 DEF Schedule
      <4>2. CASE task_current # NoTask /\ Reschedule
        <5>1. SchedulerChange
          BY <4>1, <4>2, RescheduleFacts
        <5> QED
          BY <4>1, <5>1 DEF SchedulerChange, Lifecycle
      <4>3. CASE task_state' = task_state
        BY <4>3, SameStates
      <4> QED
        BY <3>3, <4>2, <4>3 DEF Schedule, queueVars
    <3> QED
      BY <2>2, <3>1, <3>2, <3>3 DEF KernelStep
  <2>3. CASE Fork
    <3>1. /\ Running /\ task_state' = [task_state EXCEPT ![task_id] = "READY"]
          /\ task_id \in Tasks
      BY <2>3, MaxPidAssumption DEF Fork, NewSyscall, IInv, TypeOK, Tasks
    <3>2. task_state[task_id] = "FREE"
      BY <3>1 DEF IInv, TypeOK, FamilyInv
    <3>3. /\ task_state'[task_id] = "READY"
          /\ \A t \in Tasks \ {task_id} : task_state'[t] = task_state[t]
      BY <3>1, OneStateChanges
    <3> QED
      BY <3>2, <3>3 DEF Lifecycle
  <2>4. CASE Exit \/ \E t \in Tasks : KillTerminates(t)
    <3>1. PICK t \in Tasks : Ends(t)
      BY <2>4, ExitEnds
    <3>2. /\ task_state[t] \in {"READY", "RUNNING", "BLOCKED"}
          /\ task_state'[t] = "ZOMBIE"
          /\ \A u \in Tasks \ {t} :
                \/ task_state'[u] = task_state[u]
                \/ task_state[u] = "BLOCKED" /\ task_state'[u] = "READY"
      BY <3>1, ExitFacts DEF Ends
    <3> QED
      BY <3>2 DEF Lifecycle
  <2>5. CASE \E pid \in Tasks \cup {AnyChild} : Waitpid(pid)
    <3>1. CASE \E pid \in Tasks \cup {AnyChild} : WaitpidReaps(pid)
      <4>1. PICK pid \in Tasks \cup {AnyChild} : WaitpidReaps(pid)
        BY <3>1
      <4>2. PICK i \in DOMAIN children[task_current] :
               /\ Reapable(pid, i)
               /\ task_state' = [task_state EXCEPT ![children[task_current][i]] = "FREE"]
        BY <4>1 DEF WaitpidReaps
      <4> DEFINE z == children[task_current][i]
      <4>3. Running
        BY <4>1 DEF WaitpidReaps, WaitpidCall
      <4>4. z \in ToSet(children[task_current]) /\ z \in Tasks /\ task_state[z] = "ZOMBIE"
        BY <4>2, <4>3, CallerFacts, ToSetType DEF ToSet, Reapable, IInv, TypeOK
      <4>5. parent[z] = task_current
        BY <4>3, <4>4, CallerFacts DEF IInv, FamilyInv
      <4>6. task_state'[z] = "FREE" /\ \A t \in Tasks \ {z} : task_state'[t] = task_state[t]
        BY <4>2, <4>4 DEF IInv, TypeOK
      <4> QED
        BY <4>4, <4>5, <4>6 DEF Lifecycle
    <3>2. CASE \E pid \in Tasks \cup {AnyChild} : WaitpidFails(pid)
      BY <3>2, SameStates DEF WaitpidFails, queueVars
    <3>3. CASE \E pid \in Tasks \cup {AnyChild} : WaitpidBlocks(pid)
      <4>1. Running /\ task_state' = [task_state EXCEPT ![task_current] = "BLOCKED"]
        BY <3>3 DEF WaitpidBlocks, WaitpidCall, BlockTask
      <4>2. task_current \in Tasks /\ task_state[task_current] = "RUNNING"
        BY <4>1, CallerFacts
      <4>3. /\ task_state'[task_current] = "BLOCKED"
            /\ \A u \in Tasks \ {task_current} : task_state'[u] = task_state[u]
        BY <4>1, <4>2, OneStateChanges
      <4> QED
        BY <4>2, <4>3 DEF Lifecycle
    <3> QED
      BY <2>5, <3>1, <3>2, <3>3 DEF Waitpid
  <2>6. CASE \E t \in Tasks : KillHandled(t)
    <3>1. PICK t \in Tasks : KillHandled(t)
      BY <2>6
    <3>2. CASE task_state[t] = "BLOCKED"
      <4>1. task_state'[t] = "READY" /\ \A u \in Tasks \ {t} : task_state'[u] = task_state[u]
        BY <3>1, <3>2, UnblockFacts DEF KillHandled
      <4> QED
        BY <3>2, <4>1 DEF Lifecycle
    <3>3. CASE task_state[t] # "BLOCKED"
      BY <3>1, <3>3, SameStates DEF KillHandled, queueVars
    <3> QED
      BY <3>2, <3>3
  <2> QED
    BY <2>1, <2>2, <2>3, <2>4, <2>5, <2>6 DEF Next, Kill
<1> QED
  BY <1>1, Invariance, PTL DEF Spec, LifecycleRespected

-----------------------------------------------------------------------------
(***************************************************************************)
(* The families.  A second inductive invariant, on top of the first: what a *)
(* parent field, a child list, the CPU and a blocked task refer to.         *)
(***************************************************************************)

\* Once the switch is done, the picked task is the current one; neither was destroyed.
SwitchInv ==
    /\ ~task_needs_switching => task_next = task_current
    /\ task_current # NoTask => Allocated(task_current)
    /\ Allocated(task_next)

\* The child of a task other than init is in the list of a parent that has not exited: exit
\* hands over every child, so that a zombie is nobody's parent when it is destroyed.
ParentsInv ==
    \A t \in Tasks : Allocated(t) /\ parent[t] \notin {NoTask, InitPid} =>
        /\ Allocated(parent[t]) /\ task_state[parent[t]] # "ZOMBIE"
        /\ t \in ToSet(children[parent[t]])

\* A doubly linked list l, with the given previous fields of its nodes and the given tail.
LinkedList(l, prev, tail) ==
    /\ \A i \in DOMAIN l : prev[l[i]] = IF i = 1 THEN NoTask ELSE l[i - 1]
    /\ tail = IF l = <<>> THEN NoTask ELSE Last(l)

\* Lists of tasks that are alive are well formed; those of ids not yet given out are empty.
ListsInv ==
    /\ \A p \in Tasks \ {InitPid} : Allocated(p) /\ task_state[p] # "ZOMBIE" =>
          LinkedList(children[p], previous, children_tail[p])
    /\ \A p \in Tasks : p >= task_id => children[p] = <<>> /\ children_tail[p] = NoTask

\* Init waits for any child, so that the lists it is handed matter to no wait of its own.
InitWaits ==
    syscall_retry[InitPid] => wait_reason[InitPid] = "CHILD" /\ wait_object[InitPid] = AnyChild

LinkInv == SwitchInv /\ ParentsInv /\ ListsInv /\ InitWaits /\ WaitersCanBeWoken

\* A step that touches no family, wakes or starts tasks at most, and clears retries of tasks
\* that are not blocked.
Ordinary ==
    /\ UNCHANGED <<task_id, familyVars, waitVars>>
    /\ \A t \in Tasks : task_state'[t] = "FREE" <=> task_state[t] = "FREE"
    /\ \A t \in Tasks : task_state'[t] = "ZOMBIE" <=> task_state[t] = "ZOMBIE"
    /\ \A t \in Tasks : task_state'[t] = "BLOCKED" =>
          task_state[t] = "BLOCKED" /\ syscall_retry'[t] = syscall_retry[t]
    /\ syscall_retry'[InitPid] => syscall_retry[InitPid]

\* A step that touches no family, and neither destroys a task nor makes one a zombie.
LEMMA SameLists ==
    ASSUME IInv, LinkInv, UNCHANGED <<task_id, familyVars>>,
           \A t \in Tasks : task_state'[t] = "FREE" <=> task_state[t] = "FREE",
           \A t \in Tasks : task_state'[t] = "ZOMBIE" <=> task_state[t] = "ZOMBIE"
    PROVE  ParentsInv' /\ ListsInv'
<1>1. parent' = parent /\ children' = children /\ children_tail' = children_tail
      /\ previous' = previous /\ task_id' = task_id
  BY DEF familyVars
<1>2. parent \in [Tasks -> Tasks \cup {NoTask}]
  BY DEF IInv, TypeOK
<1>3. ParentsInv'
  BY <1>1, <1>2 DEF LinkInv, ParentsInv, Allocated
<1>4. ListsInv'
  BY <1>1 DEF LinkInv, ListsInv, Allocated
<1> QED
  BY <1>3, <1>4

LEMMA OrdinaryKeeps ==
    ASSUME IInv, LinkInv, Ordinary
    PROVE  ParentsInv' /\ ListsInv' /\ InitWaits' /\ WaitersCanBeWoken'
<1>1. ParentsInv' /\ ListsInv'
  BY SameLists DEF Ordinary
<1>2. children' = children /\ wait_reason' = wait_reason /\ wait_object' = wait_object
  BY DEF Ordinary, familyVars, waitVars
<1>3. InitWaits'
  BY <1>2 DEF LinkInv, InitWaits, Ordinary
<1>4. WaitersCanBeWoken'
  <2> SUFFICES ASSUME NEW t \in Tasks, task_state'[t] = "BLOCKED"
               PROVE  /\ syscall_retry'[t]
                      /\ WaitsOnKeyboard(t)' \/ wait_reason'[t] = "CHILD"
                      /\ wait_reason'[t] = "CHILD" /\ wait_object'[t] # AnyChild =>
                            Contains(children'[t], wait_object'[t])
                      /\ wait_reason'[t] = "CHILD" /\ t # InitPid =>
                            \A i \in DOMAIN children'[t] :
                                wait_object'[t] \in {AnyChild, children'[t][i]} =>
                                    task_state'[children'[t][i]] # "ZOMBIE"
    BY DEF WaitersCanBeWoken
  <2>1. task_state[t] = "BLOCKED" /\ syscall_retry'[t] = syscall_retry[t]
    BY DEF Ordinary
  <2>2. /\ syscall_retry[t]
        /\ WaitsOnKeyboard(t) \/ wait_reason[t] = "CHILD"
        /\ wait_reason[t] = "CHILD" /\ wait_object[t] # AnyChild => Contains(children[t], wait_object[t])
        /\ wait_reason[t] = "CHILD" /\ t # InitPid =>
              \A i \in DOMAIN children[t] :
                  wait_object[t] \in {AnyChild, children[t][i]} => task_state[children[t][i]] # "ZOMBIE"
    BY <2>1 DEF LinkInv, WaitersCanBeWoken
  <2>3. \A i \in DOMAIN children[t] : children[t][i] \in Tasks
    BY LenProperties DEF IInv, TypeOK
  <2>4. \A i \in DOMAIN children[t] : task_state'[children[t][i]] = "ZOMBIE" => task_state[children[t][i]] = "ZOMBIE"
    BY <2>3 DEF Ordinary
  <2> QED
    BY <1>2, <2>1, <2>2, <2>4 DEF WaitsOnKeyboard
<1> QED
  BY <1>1, <1>3, <1>4

\* The CPU's pointers stay, and what they point to is not destroyed.
LEMMA SameSwitch ==
    ASSUME IInv, LinkInv, UNCHANGED cpuVars,
           \A t \in {task_current, task_next} \cap Tasks : task_state'[t] = "FREE" => task_state[t] = "FREE"
    PROVE  SwitchInv'
<1>1. task_current' = task_current /\ task_next' = task_next
      /\ task_needs_switching' = task_needs_switching
  BY DEF cpuVars
<1>2. task_current \in Tasks \cup {NoTask} /\ task_next \in Tasks
  BY DEF IInv, TypeOK
<1> QED
  BY <1>1, <1>2 DEF LinkInv, SwitchInv, Allocated

\* Interrupts, the boost, the end of the wake-up and system calls that return at once.
LEMMA QuietLinks ==
    ASSUME IInv, LinkInv,
           \/ TimerIrq \/ KeyboardIrq \/ BoostStep \/ BoostEnd \/ WakeEnd
           \/ ReadDelivers \/ ReadWouldBlock
           \/ \E pid \in Tasks \cup {AnyChild} : WaitpidFails(pid)
           \/ UNCHANGED vars
    PROVE  LinkInv'
<1>1. UNCHANGED <<task_id, task_state, cpuVars, waitVars, familyVars>>
  BY DEF TimerIrq, KeyboardIrq, BoostStep, BoostEnd, WakeEnd, ReadDelivers, ReadWouldBlock,
         WaitpidFails, vars, queueVars
<1>2. \/ UNCHANGED syscall_retry
      \/ Running /\ syscall_retry' = [syscall_retry EXCEPT ![task_current] = FALSE]
  BY DEF TimerIrq, KeyboardIrq, BoostStep, BoostEnd, WakeEnd, ReadDelivers, ReadWouldBlock,
         WaitpidFails, ReadCall, WaitpidCall, vars
<1>3. /\ \A t \in Tasks : task_state[t] = "BLOCKED" => syscall_retry'[t] = syscall_retry[t]
      /\ syscall_retry'[InitPid] => syscall_retry[InitPid]
  <2>1. syscall_retry \in [Tasks -> BOOLEAN]
    BY DEF IInv, TypeOK
  <2>2. CASE UNCHANGED syscall_retry
    BY <2>2
  <2>3. CASE Running /\ syscall_retry' = [syscall_retry EXCEPT ![task_current] = FALSE]
    <3>1. task_current \in Tasks /\ task_state[task_current] = "RUNNING"
      BY <2>3, CallerFacts
    <3>2. \A t \in Tasks : syscall_retry'[t] = IF t = task_current THEN FALSE ELSE syscall_retry[t]
      BY <2>1, <2>3, <3>1
    <3> QED
      BY <3>1, <3>2, ConstantFacts
  <2> QED
    BY <1>2, <2>2, <2>3
<1>4. Ordinary
  BY <1>1, <1>3 DEF Ordinary
<1>5. SwitchInv'
  BY <1>1, SameSwitch
<1> QED
  BY <1>4, <1>5, OrdinaryKeeps DEF LinkInv

\* The end of an interrupt: the picked task gets the CPU.
LEMMA ReturnLinks ==
    ASSUME IInv, LinkInv, ReturnFromInterrupt
    PROVE  LinkInv'
<1>1. /\ UNCHANGED <<task_id, queueVars, task_next, syscall_retry, waitVars, familyVars>>
      /\ task_current' = IF task_needs_switching THEN task_next ELSE task_current
  BY DEF ReturnFromInterrupt
<1>2. Ordinary
  BY <1>1 DEF Ordinary, queueVars
<1>3. SwitchInv'
  BY <1>1 DEF LinkInv, SwitchInv, Allocated, queueVars
<1> QED
  BY <1>2, <1>3, OrdinaryKeeps DEF LinkInv

\* The scheduler picks a task that exists.
LEMMA ScheduleLinks ==
    ASSUME IInv, LinkInv, Schedule
    PROVE  LinkInv'
<1>1. /\ kernel = "schedule"
      /\ UNCHANGED <<task_id, task_current, syscall_retry, waitVars, familyVars>>
  BY DEF Schedule
<1>2. CASE task_current # NoTask /\ Reschedule
  <2>1. SchedulerChange
    BY <1>1, <1>2, RescheduleFacts
  <2>2. PICK new \in Tasks :
           /\ task_state'[new] = "RUNNING"
           /\ IF new # task_current THEN task_next' = new /\ task_needs_switching' = TRUE
              ELSE UNCHANGED <<task_next, task_needs_switching>>
    BY <1>1, <1>2, RescheduleFacts
  <2>3. Ordinary
    BY <1>1, <2>1 DEF Ordinary, SchedulerChange
  <2>4. task_current \in Tasks /\ task_next \in Tasks
    BY <1>2 DEF IInv, TypeOK
  <2>5. Allocated(task_current)' /\ task_state'[task_next] # "FREE"
    BY <1>1, <1>2, <2>1, <2>4 DEF SchedulerChange, LinkInv, SwitchInv, Allocated
  <2>6. SwitchInv'
    BY <1>1, <1>2, <2>2, <2>5 DEF LinkInv, SwitchInv, Allocated
  <2> QED
    BY <2>3, <2>6, OrdinaryKeeps DEF LinkInv
<1>3. CASE UNCHANGED <<task_state, task_next, task_needs_switching>>
  <2>1. Ordinary
    BY <1>1, <1>3 DEF Ordinary
  <2>2. SwitchInv'
    BY <1>1, <1>3, SameSwitch DEF cpuVars
  <2> QED
    BY <2>1, <2>2, OrdinaryKeeps DEF LinkInv
<1> QED
  BY <1>2, <1>3 DEF Schedule, queueVars

\* A blocked task is woken, by a key or by a signal it handles.
LEMMA WakeLinks ==
    ASSUME IInv, LinkInv, WakeStep \/ \E t \in Tasks : KillHandled(t)
    PROVE  LinkInv'
<1>1. PICK t \in Tasks :
         /\ IF task_state[t] = "BLOCKED"
            THEN task_state'[t] = "READY" /\ \A u \in Tasks \ {t} : task_state'[u] = task_state[u]
            ELSE task_state' = task_state
         /\ \A u \in Tasks : u # t => syscall_retry'[u] = syscall_retry[u]
         /\ syscall_retry'[t] => syscall_retry[t]
         /\ UNCHANGED <<task_id, cpuVars, waitVars, familyVars>>
  <2>1. CASE WakeStep
    <3>1. PICK i \in DOMAIN task_queues[BlockedQueue] : UnblockTask(task_queues[BlockedQueue][i])
      BY <2>1 DEF WakeStep
    <3> DEFINE t == task_queues[BlockedQueue][i]
    <3>2. t \in ToSet(task_queues[BlockedQueue]) /\ t \in Tasks
      BY <3>1, ConstantFacts, ToSetType DEF ToSet, IInv, TypeOK
    <3>3. BlockedQueue \in QueuesFor(task_state[t]) /\ task_state[t] \in States
      BY <3>2, ConstantFacts DEF IInv, Queued
    <3>4. task_state[t] = "BLOCKED"
      BY <3>3, ConstantFacts, QueuesForFacts DEF States
    <3>5. task_state'[t] = "READY" /\ \A u \in Tasks \ {t} : task_state'[u] = task_state[u]
      BY <3>1, <3>2, <3>4, UnblockFacts
    <3>6. UNCHANGED <<task_id, cpuVars, syscall_retry, waitVars, familyVars>>
      BY <2>1 DEF WakeStep
    <3> HIDE DEF t
    <3> QED
      BY <3>2, <3>4, <3>5, <3>6
  <2>2. CASE \E t \in Tasks : KillHandled(t)
    <3>1. PICK t \in Tasks : KillHandled(t)
      BY <2>2
    <3>2. /\ IF task_state[t] = "BLOCKED" THEN UnblockTask(t) ELSE UNCHANGED queueVars
          /\ syscall_retry' = [syscall_retry EXCEPT ![t] = FALSE]
          /\ UNCHANGED <<task_id, cpuVars, waitVars, familyVars>>
      BY <3>1 DEF KillHandled
    <3>3. syscall_retry \in [Tasks -> BOOLEAN]
      BY DEF IInv, TypeOK
    <3>4. syscall_retry'[t] = FALSE /\ \A u \in Tasks : u # t => syscall_retry'[u] = syscall_retry[u]
      BY <3>2, <3>3
    <3>5. CASE task_state[t] = "BLOCKED"
      BY <3>2, <3>4, <3>5, UnblockFacts
    <3>6. CASE task_state[t] # "BLOCKED"
      BY <3>2, <3>4, <3>6 DEF queueVars
    <3> QED
      BY <3>5, <3>6
  <2> QED
    BY <2>1, <2>2
<1>2. CASE task_state[t] = "BLOCKED"
  <2>1. Ordinary
    BY <1>1, <1>2, ConstantFacts DEF Ordinary
  <2>2. SwitchInv'
    BY <1>1, <1>2, SameSwitch
  <2> QED
    BY <2>1, <2>2, OrdinaryKeeps DEF LinkInv
<1>3. CASE task_state[t] # "BLOCKED"
  <2>1. Ordinary
    BY <1>1, <1>3, ConstantFacts DEF Ordinary
  <2>2. SwitchInv'
    BY <1>1, <1>3, SameSwitch
  <2> QED
    BY <2>1, <2>2, OrdinaryKeeps DEF LinkInv
<1> QED
  BY <1>2, <1>3

\* A task that blocks waits on the keyboard, or on children none of which is a zombie.
LEMMA BlockLinks ==
    ASSUME IInv, LinkInv, ReadBlocks \/ \E pid \in Tasks \cup {AnyChild} : WaitpidBlocks(pid)
    PROVE  LinkInv'
<1> DEFINE me == task_current
<1>1. PICK reason, object :
         /\ Running
         /\ BlockTask(me, reason, object)
         /\ syscall_retry' = [syscall_retry EXCEPT ![me] = TRUE]
         /\ UNCHANGED <<task_id, cpuVars, familyVars>>
         /\ \/ reason = "IO" /\ object = Keyboard /\ me # InitPid
            \/ /\ reason = "CHILD" /\ object \in Tasks \cup {AnyChild}
               /\ NoZombieFor(object) /\ (object = AnyChild \/ IsChild(object))
               /\ me = InitPid => object = AnyChild
  <2>1. CASE ReadBlocks
    <3>1. me # InitPid
      <4>1. syscall_retry[me] => wait_object[me] = Keyboard
        BY <2>1 DEF ReadBlocks, ReadCall, WaitsOnKeyboard
      <4>2. AnyChild # Keyboard
        BY DEF AnyChild, Keyboard
      <4> QED
        BY <2>1, <4>1, <4>2 DEF ReadBlocks, ReadCall, LinkInv, InitWaits
    <3> QED
      BY <2>1, <3>1 DEF ReadBlocks, ReadCall
  <2>2. CASE \E pid \in Tasks \cup {AnyChild} : WaitpidBlocks(pid)
    <3>1. PICK pid \in Tasks \cup {AnyChild} : WaitpidBlocks(pid)
      BY <2>2
    <3>2. me = InitPid => pid = AnyChild
      BY <3>1 DEF WaitpidBlocks, WaitpidCall, LinkInv, InitWaits
    <3> QED
      BY <3>1, <3>2 DEF WaitpidBlocks, WaitpidCall
  <2> QED
    BY <2>1, <2>2
<1>2. me \in Tasks \ {IdlePid} /\ task_state[me] = "RUNNING"
  BY <1>1, CallerFacts
<1>3. /\ task_state \in [Tasks -> States]
      /\ syscall_retry \in [Tasks -> BOOLEAN]
      /\ DOMAIN wait_reason = Tasks /\ DOMAIN wait_object = Tasks
      /\ wait_reason = [t \in Tasks |-> wait_reason[t]]
      /\ wait_object = [t \in Tasks |-> wait_object[t]]
      /\ children \in [Tasks -> Seq(Tasks)]
  BY DEF IInv, TypeOK
<1> HIDE DEF me
<1>4. /\ task_state'[me] = "BLOCKED"
      /\ syscall_retry'[me] = TRUE
      /\ wait_reason'[me] = reason
      /\ wait_object'[me] = object
      /\ children' = children
      /\ \A t \in Tasks \ {me} : /\ task_state'[t] = task_state[t]
                                 /\ syscall_retry'[t] = syscall_retry[t]
                                 /\ wait_reason'[t] = wait_reason[t]
                                 /\ wait_object'[t] = wait_object[t]
  BY <1>1, <1>2, <1>3 DEF BlockTask, familyVars
<1>5. /\ \A t \in Tasks : task_state'[t] = "FREE" <=> task_state[t] = "FREE"
      /\ \A t \in Tasks : task_state'[t] = "ZOMBIE" <=> task_state[t] = "ZOMBIE"
  BY <1>2, <1>4
<1>6. SwitchInv'
  BY <1>1, <1>5, SameSwitch
<1>7. ParentsInv' /\ ListsInv'
  BY <1>1, <1>5, SameLists
<1>8. InitWaits'
  BY <1>1, <1>4, ConstantFacts DEF LinkInv, InitWaits
<1>9. \A t \in Tasks : \A i \in DOMAIN children[t] : children[t][i] \in Tasks
  BY <1>3, LenProperties
<1>10. reason = "CHILD" => \A i \in DOMAIN children[me] :
          object \in {AnyChild, children[me][i]} => task_state[children[me][i]] # "ZOMBIE"
  <2> DEFINE T == {i \in DOMAIN children[me] : /\ task_state[children[me][i]] = "ZOMBIE"
                                               /\ object \in {AnyChild, children[me][i]}}
  <2> SUFFICES ASSUME reason = "CHILD", T # {}
               PROVE  FALSE
    OBVIOUS
  <2>1. T \subseteq Nat
    BY <1>2, <1>3, LenProperties
  <2>2. PICK i \in T : \A j \in T : i <= j
    BY <2>1, LeastNumber
  <2>3. \A j \in 1 .. i - 1 : j \notin T /\ j \in DOMAIN children[me]
    <3>1. /\ Len(children[me]) \in Nat /\ DOMAIN children[me] = 1 .. Len(children[me])
          /\ i \in 1 .. Len(children[me])
      BY <1>2, <1>3, LenProperties
    <3> HIDE DEF T
    <3> QED
      BY <2>1, <2>2, <3>1
  <2>4. Reapable(object, i)
    BY <2>2, <2>3 DEF Reapable, me
  <2>5. NoZombieFor(object)
    BY <1>1
  <2> QED
    BY <2>4, <2>5 DEF NoZombieFor, me
<1>11. WaitersCanBeWoken'
  <2> SUFFICES ASSUME NEW t \in Tasks, task_state'[t] = "BLOCKED"
               PROVE  /\ syscall_retry'[t]
                      /\ WaitsOnKeyboard(t)' \/ wait_reason'[t] = "CHILD"
                      /\ wait_reason'[t] = "CHILD" /\ wait_object'[t] # AnyChild =>
                            Contains(children'[t], wait_object'[t])
                      /\ wait_reason'[t] = "CHILD" /\ t # InitPid =>
                            \A i \in DOMAIN children'[t] :
                                wait_object'[t] \in {AnyChild, children'[t][i]} =>
                                    task_state'[children'[t][i]] # "ZOMBIE"
    BY DEF WaitersCanBeWoken
  <2>1. \A i \in DOMAIN children[t] :
           task_state'[children[t][i]] = "ZOMBIE" => task_state[children[t][i]] = "ZOMBIE"
    BY <1>5, <1>9
  <2>2. CASE t = me
    BY <1>1, <1>4, <1>10, <2>1, <2>2 DEF WaitsOnKeyboard, IsChild, me
  <2>3. CASE t # me
    BY <1>4, <2>1, <2>3 DEF LinkInv, WaitersCanBeWoken, WaitsOnKeyboard
  <2> QED
    BY <2>2, <2>3
<1> QED
  BY <1>6, <1>7, <1>8, <1>11 DEF LinkInv

\* A list stays linked when no previous field of its nodes is written.
LEMMA LinkedStays ==
    ASSUME NEW l, NEW prev, NEW prev2, NEW tail, LinkedList(l, prev, tail),
           \A i \in DOMAIN l : prev2[l[i]] = prev[l[i]]
    PROVE  LinkedList(l, prev2, tail)
BY DEF LinkedList

\* fork's append: the new node points back to the old tail and is the new one.
LEMMA LinkedAppend ==
    ASSUME NEW l \in Seq(Tasks), NEW prev, NEW prev2, NEW tail, NEW c \in Tasks,
           LinkedList(l, prev, tail),
           prev2[c] = tail,
           \A i \in DOMAIN l : prev2[l[i]] = prev[l[i]]
    PROVE  LinkedList(Append(l, c), prev2, c)
<1> DEFINE a == Append(l, c)
<1>1. PICK n \in Nat : n = Len(l)
  BY LenProperties
<1>2. /\ a \in Seq(Tasks) /\ Len(a) = n + 1
      /\ \A i \in 1 .. n : a[i] = l[i]
      /\ a[n + 1] = c
      /\ DOMAIN l = 1 .. n
  BY <1>1, AppendProperties, LenProperties
<1>3. DOMAIN a = 1 .. n + 1
  BY <1>2, LenProperties
<1>4. a # <<>> /\ Last(a) = c
  <2>1. a # <<>>
    BY AppendProperties
  <2>2. Last(a) = a[n + 1]
    BY <1>2 DEF Last
  <2> QED
    BY <1>2, <2>1, <2>2
<1>5. tail = IF n = 0 THEN NoTask ELSE l[n]
  <2>1. CASE n = 0
    BY <1>1, <2>1, EmptySeq DEF LinkedList
  <2>2. CASE n # 0
    <3>1. l # <<>>
      BY <1>1, <2>2, EmptySeq
    <3> QED
      BY <1>1, <2>2, <3>1 DEF LinkedList, Last
  <2> QED
    BY <2>1, <2>2
<1> HIDE DEF a
<1>6. ASSUME NEW i \in 1 .. n + 1
      PROVE  prev2[a[i]] = IF i = 1 THEN NoTask ELSE a[i - 1]
  <2>1. CASE i = n + 1
    <3>1. n # 0 => n \in 1 .. n /\ a[n] = l[n] /\ (n + 1) - 1 = n /\ n + 1 # 1
      BY <1>2
    <3> QED
      BY <1>2, <1>5, <2>1, <3>1
  <2>2. CASE i # n + 1
    <3>1. i \in 1 .. n /\ (i # 1 => i - 1 \in 1 .. n)
      BY <2>2
    <3>2. prev2[l[i]] = IF i = 1 THEN NoTask ELSE l[i - 1]
      BY <1>2, <3>1 DEF LinkedList
    <3> QED
      BY <1>2, <3>1, <3>2
  <2> QED
    BY <2>1, <2>2
<1> QED
  BY <1>3, <1>4, <1>6 DEF LinkedList, a

\* fork appends to the caller's list; the child starts with an empty one.
LEMMA ForkLinks ==
    ASSUME IInv, LinkInv, Fork
    PROVE  LinkInv'
<1> DEFINE me == task_current
           new == task_id
<1>1. /\ Running
      /\ task_id' = task_id + 1 /\ task_id <= MaxPid
      /\ task_state' = [task_state EXCEPT ![new] = "READY"]
      /\ parent' = [parent EXCEPT ![new] = me]
      /\ previous' = [previous EXCEPT ![new] = children_tail[me]]
      /\ children' = [children EXCEPT ![me] = Append(children[me], new)]
      /\ children_tail' = [children_tail EXCEPT ![me] = new]
      /\ UNCHANGED <<cpuVars, syscall_retry, waitVars>>
  BY DEF Fork, NewSyscall, AddChild
<1>2. me \in Tasks \ {IdlePid} /\ task_state[me] = "RUNNING"
  BY <1>1, CallerFacts
<1>3. /\ task_state \in [Tasks -> States]
      /\ parent \in [Tasks -> Tasks \cup {NoTask}]
      /\ children \in [Tasks -> Seq(Tasks)]
      /\ children_tail \in [Tasks -> Tasks \cup {NoTask, Wild}]
      /\ previous \in [Tasks -> Tasks \cup {NoTask, Wild}]
  BY DEF IInv, TypeOK
<1>4. new \in Tasks /\ new \in Nat /\ task_state[new] = "FREE" /\ new # me /\ new # InitPid
  <2>1. new \in Nat /\ new \in Tasks /\ new # InitPid
    BY <1>1, MaxPidAssumption DEF IInv, TypeOK, Tasks, InitPid
  <2>2. task_state[new] = "FREE"
    BY <2>1 DEF IInv, FamilyInv, Tasks
  <2> QED
    BY <1>2, <2>1, <2>2
<1>5. children[new] = <<>> /\ children_tail[new] = NoTask
  BY <1>4 DEF LinkInv, ListsInv
<1>6. /\ \A p \in Tasks : p >= task_id' => p >= task_id /\ p # new /\ p # me
      /\ me < task_id
  BY <1>1, <1>2, <1>4 DEF IInv, FamilyInv, Tasks
<1> HIDE DEF me, new
<1>7. /\ task_state'[new] = "READY"
      /\ \A t \in Tasks \ {new} : /\ task_state'[t] = task_state[t]
                                  /\ parent'[t] = parent[t]
                                  /\ previous'[t] = previous[t]
      /\ parent'[new] = me /\ previous'[new] = children_tail[me]
      /\ children'[me] = Append(children[me], new) /\ children_tail'[me] = new
      /\ \A p \in Tasks \ {me} : children'[p] = children[p] /\ children_tail'[p] = children_tail[p]
  BY <1>1, <1>2, <1>3, <1>4
<1>8. \A p \in Tasks : \A i \in DOMAIN children[p] : children[p][i] \in Tasks \ {new}
  <2>1. \A p \in Tasks : \A i \in DOMAIN children[p] : children[p][i] \in ToSet(children[p])
    BY DEF ToSet
  <2>2. \A p \in Tasks : ToSet(children[p]) \subseteq Tasks \ {new}
    BY <1>3, <1>4, ToSetType DEF IInv, FamilyInv
  <2> QED
    BY <2>1, <2>2
<1>9. ToSet(Append(children[me], new)) = ToSet(children[me]) \cup {new}
  <2>1. children[me] \in Seq(Tasks) /\ new \in Tasks
    BY <1>2, <1>3, <1>4
  <2> QED
    BY <2>1, AppendList
<1>10. SwitchInv'
  BY <1>1, <1>4, <1>7, SameSwitch
<1>11. ParentsInv'
  <2> SUFFICES ASSUME NEW t \in Tasks, task_state'[t] # "FREE", parent'[t] \notin {NoTask, InitPid}
               PROVE  /\ task_state'[parent'[t]] # "FREE" /\ task_state'[parent'[t]] # "ZOMBIE"
                      /\ t \in ToSet(children'[parent'[t]])
    BY DEF ParentsInv, Allocated
  <2>1. CASE t = new
    BY <1>2, <1>4, <1>7, <1>9, <2>1
  <2>2. CASE t # new
    <3>1. /\ task_state[t] # "FREE" /\ parent[t] \in Tasks /\ parent[t] \notin {NoTask, InitPid}
          /\ parent'[t] = parent[t]
      BY <1>3, <1>7, <2>2
    <3>2. /\ task_state[parent[t]] # "FREE" /\ task_state[parent[t]] # "ZOMBIE"
          /\ t \in ToSet(children[parent[t]])
      BY <3>1 DEF LinkInv, ParentsInv, Allocated
    <3>3. task_state'[parent[t]] = task_state[parent[t]]
      BY <1>4, <1>7, <3>1, <3>2
    <3>4. t \in ToSet(children'[parent[t]])
      BY <1>7, <1>9, <3>1, <3>2
    <3> QED
      BY <3>1, <3>2, <3>3, <3>4
  <2> QED
    BY <2>1, <2>2
<1>12. ListsInv'
  <2>1. ASSUME NEW p \in Tasks \ {InitPid}, task_state'[p] # "FREE", task_state'[p] # "ZOMBIE"
        PROVE  LinkedList(children'[p], previous', children_tail'[p])
    <3>1. CASE p = new
      <4>1. children'[p] = <<>> /\ children_tail'[p] = NoTask
        BY <1>4, <1>5, <1>7, <3>1
      <4> QED
        BY <4>1 DEF LinkedList
    <3>2. CASE p # new
      <4>1. LinkedList(children[p], previous, children_tail[p])
        BY <1>7, <2>1, <3>2 DEF LinkInv, ListsInv, Allocated
      <4>2. \A i \in DOMAIN children[p] : previous'[children[p][i]] = previous[children[p][i]]
        BY <1>7, <1>8
      <4>3. CASE p = me
        <5>1. /\ children[me] \in Seq(Tasks)
              /\ LinkedList(children[me], previous, children_tail[me])
              /\ \A i \in DOMAIN children[me] : previous'[children[me][i]] = previous[children[me][i]]
              /\ previous'[new] = children_tail[me]
              /\ new \in Tasks
          BY <1>2, <1>3, <1>4, <1>7, <4>1, <4>2, <4>3
        <5>2. LinkedList(Append(children[me], new), previous', new)
          BY <5>1, LinkedAppend, Zenon
        <5> QED
          BY <1>7, <4>3, <5>2
      <4>4. CASE p # me
        BY <1>7, <4>1, <4>2, <4>4, LinkedStays
      <4> QED
        BY <4>3, <4>4
    <3> QED
      BY <3>1, <3>2
  <2>2. \A p \in Tasks : p >= task_id' => children'[p] = <<>> /\ children_tail'[p] = NoTask
    BY <1>6, <1>7 DEF LinkInv, ListsInv
  <2> QED
    BY <2>1, <2>2 DEF ListsInv, Allocated
<1>13. InitWaits'
  BY <1>1 DEF LinkInv, InitWaits, waitVars
<1>14. WaitersCanBeWoken'
  <2> SUFFICES ASSUME NEW t \in Tasks, task_state'[t] = "BLOCKED"
               PROVE  /\ syscall_retry'[t]
                      /\ WaitsOnKeyboard(t)' \/ wait_reason'[t] = "CHILD"
                      /\ wait_reason'[t] = "CHILD" /\ wait_object'[t] # AnyChild =>
                            Contains(children'[t], wait_object'[t])
                      /\ wait_reason'[t] = "CHILD" /\ t # InitPid =>
                            \A i \in DOMAIN children'[t] :
                                wait_object'[t] \in {AnyChild, children'[t][i]} =>
                                    task_state'[children'[t][i]] # "ZOMBIE"
    BY DEF WaitersCanBeWoken
  <2>1. t # new /\ t # me /\ task_state[t] = "BLOCKED" /\ children'[t] = children[t]
    BY <1>2, <1>4, <1>7
  <2>2. \A i \in DOMAIN children[t] : task_state'[children[t][i]] = task_state[children[t][i]]
    BY <1>7, <1>8
  <2> QED
    BY <1>1, <2>1, <2>2 DEF LinkInv, WaitersCanBeWoken, WaitsOnKeyboard, waitVars
<1> QED
  BY <1>10, <1>11, <1>12, <1>13, <1>14 DEF LinkInv

\* What task_manager_remove_child_from_task makes of a list, its previous fields and its tail
\* when it takes out the i-th node.
ListWithout(l, prev, i) ==
    IF prev[l[i]] = NoTask THEN SubSeq(l, i + 1, Len(l)) ELSE RemoveFirst(l, l[i])
PreviousWithout(l, prev, i) ==
    IF i < Len(l) THEN [prev EXCEPT ![l[i + 1]] = prev[l[i]]] ELSE prev
LastWithout(l, prev, tail, i) == IF i < Len(l) THEN tail ELSE prev[l[i]]

\* The reaping of the i-th child: task_manager_remove_child_from_task takes exactly that node
\* out of a linked list, and the list stays linked.
LEMMA LinkedRemove ==
    ASSUME NEW l \in Seq(Tasks), Distinct(l), NEW prev \in [Tasks -> Tasks \cup {NoTask, Wild}],
           NEW tail, LinkedList(l, prev, tail), NEW i \in DOMAIN l
    PROVE  /\ ToSet(ListWithout(l, prev, i)) = ToSet(l) \ {l[i]}
           /\ LinkedList(ListWithout(l, prev, i), PreviousWithout(l, prev, i),
                         LastWithout(l, prev, tail, i))
<1>0. PICK rest, prev2, tail2 :
         /\ rest = ListWithout(l, prev, i)
         /\ prev2 = PreviousWithout(l, prev, i)
         /\ tail2 = LastWithout(l, prev, tail, i)
         /\ rest = IF prev[l[i]] = NoTask THEN SubSeq(l, i + 1, Len(l)) ELSE RemoveFirst(l, l[i])
         /\ prev2 = IF i < Len(l) THEN [prev EXCEPT ![l[i + 1]] = prev[l[i]]] ELSE prev
         /\ tail2 = IF i < Len(l) THEN tail ELSE prev[l[i]]
  BY DEF ListWithout, PreviousWithout, LastWithout
<1> USE <1>0
<1>1. PICK n \in Nat : n = Len(l)
  BY LenProperties
<1>2. DOMAIN l = 1 .. n /\ i \in 1 .. n /\ \A j \in 1 .. n : l[j] \in Tasks
  BY <1>1, LenProperties
<1>3. \A j \in 1 .. n : prev[l[j]] = IF j = 1 THEN NoTask ELSE l[j - 1]
  BY <1>2 DEF LinkedList
<1>4. prev[l[i]] = NoTask => i = 1
  BY <1>2, <1>3, ConstantFacts
<1>5. /\ rest \in Seq(Tasks) /\ Len(rest) = n - 1
      /\ \A j \in 1 .. n - 1 : rest[j] = IF j < i THEN l[j] ELSE l[j + 1]
  <2>1. CASE prev[l[i]] = NoTask
    <3>1. i = 1 /\ rest = SubSeq(l, 2, n)
      BY <1>1, <1>4, <2>1
    <3>2. \A j \in 2 .. n : l[j] \in Tasks
      BY <1>2
    <3>3. /\ rest \in Seq(Tasks)
          /\ Len(rest) = IF 2 <= n THEN n - 2 + 1 ELSE 0
          /\ \A j \in 1 .. n - 2 + 1 : rest[j] = l[2 + j - 1]
      <4>1. /\ SubSeq(l, 2, n) \in Seq(Tasks)
            /\ Len(SubSeq(l, 2, n)) = IF 2 <= n THEN n - 2 + 1 ELSE 0
            /\ \A j \in 1 .. n - 2 + 1 : SubSeq(l, 2, n)[j] = l[2 + j - 1]
        BY <3>2, SubSeqProperties
      <4> QED
        BY <3>1, <4>1
    <3>4. ASSUME NEW j \in 1 .. n - 1
          PROVE  rest[j] = IF j < i THEN l[j] ELSE l[j + 1]
      <4>1. j \in 1 .. n - 2 + 1 /\ 2 + j - 1 = j + 1 /\ ~(j < i)
        BY <3>1
      <4> QED
        BY <3>3, <4>1
    <3>5. Len(rest) = n - 1
      BY <1>2, <3>3
    <3> QED
      BY <3>3, <3>4, <3>5
  <2>2. CASE prev[l[i]] # NoTask
    <3>1. rest = RemoveFirst(l, l[i])
      BY <2>2
    <3>2. /\ RemoveFirst(l, l[i]) \in Seq(Tasks)
          /\ Len(RemoveFirst(l, l[i])) = Len(l) - 1
          /\ \A j \in 1 .. Len(l) - 1 :
                RemoveFirst(l, l[i])[j] = IF j < i THEN l[j] ELSE l[j + 1]
      BY RemoveNth
    <3> QED
      BY <1>1, <3>1, <3>2
  <2> QED
    BY <2>1, <2>2
<1>6. DOMAIN rest = 1 .. n - 1
  BY <1>5, LenProperties
<1>7. ToSet(rest) = ToSet(l) \ {l[i]}
  <2>1. CASE prev[l[i]] # NoTask
    BY <2>1, RemoveList
  <2>2. CASE prev[l[i]] = NoTask
    <3>1. i = 1 /\ rest = SubSeq(l, 1 + 1, Len(l)) /\ 1 \in 0 .. Len(l)
      BY <1>1, <1>2, <1>4, <2>2
    <3>2. ToSet(rest) = {l[j] : j \in 1 + 1 .. Len(l)}
      BY <3>1, SuffixList
    <3>3. \A j \in 1 .. n : j # 1 => j \in 1 + 1 .. n
      BY <1>2
    <3>4. 1 + 1 .. n \subseteq 1 .. n /\ 1 \notin 1 + 1 .. n
      OBVIOUS
    <3>5. \A j \in 1 .. n : j # 1 => l[j] # l[1]
      BY <1>2, <3>1 DEF Distinct
    <3>6. ToSet(l) = {l[j] : j \in 1 .. n}
      BY <1>2 DEF ToSet
    <3>7. ToSet(rest) = {l[j] : j \in 1 + 1 .. n}
      BY <1>1, <3>2
    <3> QED
      BY <1>2, <3>1, <3>3, <3>4, <3>5, <3>6, <3>7
  <2> QED
    BY <2>1, <2>2
<1>8. \A j \in 1 .. n : prev2[l[j]] = IF i < n /\ j = i + 1 THEN prev[l[i]] ELSE prev[l[j]]
  <2>1. CASE i < n
    <3>1. i + 1 \in 1 .. n
      BY <1>2, <2>1
    <3>2. prev2 = [prev EXCEPT ![l[i + 1]] = prev[l[i]]]
      BY <1>1, <2>1
    <3>3. \A j \in 1 .. n : j # i + 1 => l[j] # l[i + 1]
      BY <1>2, <3>1 DEF Distinct
    <3> QED
      BY <1>2, <2>1, <3>1, <3>2, <3>3
  <2>2. CASE ~(i < n)
    BY <1>1, <2>2
  <2> QED
    BY <2>1, <2>2
<1>9. ASSUME NEW j \in 1 .. n - 1
      PROVE  prev2[rest[j]] = IF j = 1 THEN NoTask ELSE rest[j - 1]
  <2>1. CASE j < i
    <3>1. j \in 1 .. n /\ j # i + 1 /\ (j # 1 => j - 1 \in 1 .. n - 1 /\ j - 1 < i)
      BY <1>2, <2>1
    <3>2. rest[j] = l[j] /\ (j # 1 => rest[j - 1] = l[j - 1])
      BY <1>5, <2>1, <3>1
    <3> QED
      BY <1>3, <1>8, <3>1, <3>2
  <2>2. CASE j = i
    <3>1. /\ i < n /\ i + 1 \in 1 .. n /\ ~(j < i)
          /\ (i # 1 => i - 1 \in 1 .. n - 1 /\ i - 1 < i)
      BY <1>2, <2>2
    <3>2. rest[j] = l[i + 1] /\ (i # 1 => rest[i - 1] = l[i - 1])
      BY <1>5, <2>2, <3>1
    <3> QED
      BY <1>2, <1>3, <1>8, <2>2, <3>1, <3>2
  <2>3. CASE j > i
    <3>1. /\ j + 1 \in 1 .. n /\ j + 1 # i + 1 /\ j + 1 # 1 /\ (j + 1) - 1 = j /\ j # 1
          /\ j - 1 \in 1 .. n - 1 /\ ~(j < i) /\ ~(j - 1 < i) /\ (j - 1) + 1 = j
      BY <1>2, <2>3
    <3>2. rest[j] = l[j + 1] /\ rest[j - 1] = l[j]
      BY <1>5, <3>1
    <3>3. prev2[l[j + 1]] = prev[l[j + 1]]
      BY <1>8, <3>1
    <3>4. prev[l[j + 1]] = l[j]
      BY <1>3, <3>1
    <3> QED
      BY <3>1, <3>2, <3>3, <3>4
  <2>4. j < i \/ j = i \/ j > i
    BY <1>2
  <2> QED
    BY <2>1, <2>2, <2>3, <2>4
<1>10. tail = l[n] /\ l # <<>>
  BY <1>1, <1>2, EmptySeq DEF LinkedList, Last
<1>11. tail2 = IF rest = <<>> THEN NoTask ELSE Last(rest)
  <2>1. CASE n = 1
    <3>1. i = 1 /\ ~(i < Len(l)) /\ rest = <<>>
      BY <1>1, <1>2, <1>5, <2>1, EmptySeq
    <3> QED
      BY <1>2, <1>3, <3>1
  <2>2. CASE n # 1
    <3>1. n - 1 \in 1 .. n - 1 /\ (n - 1) + 1 = n /\ n \in 1 .. n
      BY <1>2, <2>2
    <3>2. rest # <<>> /\ Last(rest) = rest[n - 1]
      <4>1. Len(rest) # 0
        BY <1>5, <3>1
      <4> QED
        BY <1>5, <4>1, EmptySeq DEF Last
    <3>3. CASE i < n
      BY <1>1, <1>2, <1>5, <1>10, <3>1, <3>2, <3>3
    <3>4. CASE ~(i < n)
      <4>1. i = n /\ n - 1 < i /\ ~(i < Len(l))
        BY <1>1, <1>2, <3>4
      <4>2. tail2 = l[n - 1] /\ rest[n - 1] = l[n - 1]
        BY <1>2, <1>3, <1>5, <2>2, <3>1, <4>1
      <4> QED
        BY <3>2, <4>2
    <3> QED
      BY <3>3, <3>4
  <2> QED
    BY <2>1, <2>2
<1>12. LinkedList(rest, prev2, tail2)
  BY <1>6, <1>9, <1>11 DEF LinkedList
<1> QED
  BY <1>7, <1>12

\* waitpid destroys a zombie: it has no children left, the CPU is elsewhere, and the list of
\* its parent, if that is not init, loses it and nothing else.
LEMMA ReapLinks ==
    ASSUME IInv, LinkInv, NEW pid, WaitpidReaps(pid)
    PROVE  LinkInv'
<1> DEFINE me == task_current
           list == children[me]
<1>1. PICK i \in DOMAIN list :
         /\ Reapable(pid, i)
         /\ RemoveChild(parent[list[i]], i)
         /\ task_state' = [task_state EXCEPT ![list[i]] = "FREE"]
  BY DEF WaitpidReaps
<1> DEFINE z == list[i]
<1>2. /\ Running
      /\ syscall_retry' = [syscall_retry EXCEPT ![me] = FALSE]
      /\ UNCHANGED <<task_id, cpuVars, waitVars, parent>>
  BY DEF WaitpidReaps, WaitpidCall
<1>3. /\ me \in Tasks \ {IdlePid} /\ task_state[me] = "RUNNING" /\ ~task_needs_switching
  BY <1>2, CallerFacts
<1>4. /\ task_state \in [Tasks -> States]
      /\ syscall_retry \in [Tasks -> BOOLEAN]
      /\ parent \in [Tasks -> Tasks \cup {NoTask}]
      /\ children \in [Tasks -> Seq(Tasks)]
      /\ children_tail \in [Tasks -> Tasks \cup {NoTask, Wild}]
      /\ previous \in [Tasks -> Tasks \cup {NoTask, Wild}]
  BY DEF IInv, TypeOK
<1>5. /\ list \in Seq(Tasks) /\ Distinct(list)
      /\ Len(list) \in Nat /\ DOMAIN list = 1 .. Len(list)
      /\ \A j \in DOMAIN list : list[j] \in Tasks /\ parent[list[j]] = me
  <2>1. list \in Seq(Tasks) /\ Distinct(list)
    BY <1>3, <1>4 DEF IInv, FamilyInv
  <2>2. \A j \in DOMAIN list : list[j] \in ToSet(list)
    BY DEF ToSet
  <2>3. \A c \in ToSet(list) : parent[c] = me
    BY <1>3 DEF IInv, FamilyInv
  <2> QED
    BY <2>1, <2>2, <2>3, LenProperties
<1>6. z \in Tasks /\ parent[z] = me /\ task_state[z] = "ZOMBIE"
  BY <1>1, <1>5 DEF Reapable
<1>7. /\ children' = [children EXCEPT ![me] = IF previous[z] = NoTask THEN SubSeq(list, i + 1, Len(list))
                                              ELSE RemoveFirst(list, z)]
      /\ previous' = IF i < Len(list) THEN [previous EXCEPT ![list[i + 1]] = previous[z]] ELSE previous
      /\ children_tail' = [children_tail EXCEPT ![me] = IF i < Len(list) THEN children_tail[me]
                                                        ELSE previous[z]]
  BY <1>1, <1>6 DEF RemoveChild, TailWithout
<1>8. /\ task_state'[z] = "FREE"
      /\ \A t \in Tasks \ {z} : task_state'[t] = task_state[t]
  BY <1>1, <1>4, <1>6
<1> DEFINE rest == IF previous[z] = NoTask THEN SubSeq(list, i + 1, Len(list)) ELSE RemoveFirst(list, z)
           tail2 == IF i < Len(list) THEN children_tail[me] ELSE previous[z]
<1>9. me # InitPid => /\ ToSet(rest) = ToSet(list) \ {z}
                      /\ LinkedList(rest, previous', tail2)
  <2> SUFFICES ASSUME me # InitPid
               PROVE  ToSet(rest) = ToSet(list) \ {z} /\ LinkedList(rest, previous', tail2)
    OBVIOUS
  <2>1. LinkedList(list, previous, children_tail[me])
    BY <1>3 DEF LinkInv, ListsInv, Allocated
  <2>2. /\ ToSet(ListWithout(list, previous, i)) = ToSet(list) \ {list[i]}
        /\ LinkedList(ListWithout(list, previous, i), PreviousWithout(list, previous, i),
                      LastWithout(list, previous, children_tail[me], i))
    BY <1>1, <1>4, <1>5, <2>1, LinkedRemove
  <2>3. /\ rest = ListWithout(list, previous, i)
        /\ previous' = PreviousWithout(list, previous, i)
        /\ tail2 = LastWithout(list, previous, children_tail[me], i)
    BY <1>7 DEF ListWithout, PreviousWithout, LastWithout
  <2> HIDE DEF rest, tail2, list
  <2> QED
    BY <2>2, <2>3
<1>10. /\ children'[me] = rest
       /\ children_tail'[me] = tail2
       /\ \A p \in Tasks \ {me} : children'[p] = children[p] /\ children_tail'[p] = children_tail[p]
  BY <1>3, <1>4, <1>7
<1>11. \A u \in Tasks : parent[u] # me => previous'[u] = previous[u]
  <2>1. CASE i < Len(list)
    <3>1. i + 1 \in DOMAIN list
      BY <1>1, <1>5, <2>1
    <3> QED
      BY <1>4, <1>5, <1>7, <2>1, <3>1
  <2>2. CASE ~(i < Len(list))
    BY <1>7, <2>2
  <2> QED
    BY <2>1, <2>2
<1> HIDE DEF rest, tail2, z, list, me
<1>12. SwitchInv'
  <2>1. task_next = me /\ me # z
    BY <1>3, <1>6, <1>8 DEF LinkInv, SwitchInv, me
  <2> QED
    BY <1>2, <1>3, <1>8, <2>1, SameSwitch DEF me
<1>13. ParentsInv'
  <2> SUFFICES ASSUME NEW t \in Tasks, task_state'[t] # "FREE", parent[t] \notin {NoTask, InitPid}
               PROVE  /\ task_state'[parent[t]] # "FREE" /\ task_state'[parent[t]] # "ZOMBIE"
                      /\ t \in ToSet(children'[parent[t]])
    BY <1>2 DEF ParentsInv, Allocated
  <2>1. t # z /\ task_state[t] # "FREE" /\ parent[t] \in Tasks
    BY <1>4, <1>8
  <2>2. /\ task_state[parent[t]] # "FREE" /\ task_state[parent[t]] # "ZOMBIE"
        /\ t \in ToSet(children[parent[t]])
    BY <2>1 DEF LinkInv, ParentsInv, Allocated
  <2>3. task_state'[parent[t]] = task_state[parent[t]]
    BY <1>6, <1>8, <2>1, <2>2
  <2>4. t \in ToSet(children'[parent[t]])
    BY <1>9, <1>10, <2>1, <2>2 DEF list
  <2> QED
    BY <2>2, <2>3, <2>4
<1>14. ListsInv'
  <2>1. ASSUME NEW p \in Tasks \ {InitPid}, task_state'[p] # "FREE", task_state'[p] # "ZOMBIE"
        PROVE  LinkedList(children'[p], previous', children_tail'[p])
    <3>1. CASE p = me
      BY <1>9, <1>10, <3>1
    <3>2. CASE p # me
      <4>1. LinkedList(children[p], previous, children_tail[p])
        BY <1>8, <2>1 DEF LinkInv, ListsInv, Allocated
      <4>2. \A c \in ToSet(children[p]) : c \in Tasks /\ parent[c] = p
        BY <1>4, ToSetType DEF IInv, FamilyInv
      <4>3. \A j \in DOMAIN children[p] : children[p][j] \in ToSet(children[p])
        BY DEF ToSet
      <4>4. \A j \in DOMAIN children[p] : previous'[children[p][j]] = previous[children[p][j]]
        BY <1>11, <3>2, <4>2, <4>3
      <4> QED
        BY <1>10, <3>2, <4>1, <4>4, LinkedStays
    <3> QED
      BY <3>1, <3>2
  <2>2. \A p \in Tasks : p >= task_id => p # me
    BY <1>3 DEF IInv, FamilyInv
  <2>3. \A p \in Tasks : p >= task_id' => children'[p] = <<>> /\ children_tail'[p] = NoTask
    BY <1>2, <1>10, <2>2 DEF LinkInv, ListsInv
  <2> QED
    BY <2>1, <2>3 DEF ListsInv, Allocated
<1>15. \A t \in Tasks : syscall_retry'[t] = IF t = me THEN FALSE ELSE syscall_retry[t]
  BY <1>2, <1>3, <1>4
<1>16. InitWaits'
  BY <1>2, <1>15, ConstantFacts DEF LinkInv, InitWaits, waitVars
<1>17. WaitersCanBeWoken'
  <2> SUFFICES ASSUME NEW t \in Tasks, task_state'[t] = "BLOCKED"
               PROVE  /\ syscall_retry'[t]
                      /\ WaitsOnKeyboard(t)' \/ wait_reason'[t] = "CHILD"
                      /\ wait_reason'[t] = "CHILD" /\ wait_object'[t] # AnyChild =>
                            Contains(children'[t], wait_object'[t])
                      /\ wait_reason'[t] = "CHILD" /\ t # InitPid =>
                            \A j \in DOMAIN children'[t] :
                                wait_object'[t] \in {AnyChild, children'[t][j]} =>
                                    task_state'[children'[t][j]] # "ZOMBIE"
    BY DEF WaitersCanBeWoken
  <2>1. t # z /\ t # me /\ task_state[t] = "BLOCKED" /\ children'[t] = children[t]
    BY <1>3, <1>6, <1>8, <1>10
  <2>2. \A j \in DOMAIN children[t] : children[t][j] \in Tasks
    BY <1>4, LenProperties
  <2>3. \A j \in DOMAIN children[t] :
           task_state'[children[t][j]] = "ZOMBIE" => task_state[children[t][j]] = "ZOMBIE"
    BY <1>8, <2>2
  <2> QED
    BY <1>2, <1>15, <2>1, <2>3 DEF LinkInv, WaitersCanBeWoken, WaitsOnKeyboard, waitVars
<1> QED
  BY <1>12, <1>13, <1>14, <1>16, <1>17 DEF LinkInv

\* The end of a task: init gets every child, so that nobody keeps a zombie as parent, and a
\* parent that waits for the task is woken.
LEMMA ExitLinks ==
    ASSUME IInv, LinkInv, NEW t \in Tasks, Ends(t)
    PROVE  LinkInv'
<1> DEFINE orphans == ToSet(children[t])
<1>1. /\ Running /\ t \in Tasks \ {IdlePid}
      /\ task_state[t] \in {"READY", "RUNNING", "BLOCKED"}
      /\ ExitTask(t)
      /\ UNCHANGED <<task_id, cpuVars, syscall_retry, waitVars>>
  BY DEF Ends
<1>2. /\ task_state \in [Tasks -> States]
      /\ parent \in [Tasks -> Tasks \cup {NoTask}]
      /\ children \in [Tasks -> Seq(Tasks)]
      /\ previous \in [Tasks -> Tasks \cup {NoTask, Wild}]
  BY DEF IInv, TypeOK
<1>3. /\ task_state'[t] = "ZOMBIE"
      /\ \A u \in Tasks \ {t} :
            \/ task_state'[u] = task_state[u]
            \/ task_state[u] = "BLOCKED" /\ task_state'[u] = "READY"
      /\ children_tail' = children_tail
  BY <1>1, ExitFacts
<1>4. WakesParent(t) => task_state'[parent[t]] = "READY"
  <2>1. WakesParent(t) => parent[t] \in Tasks /\ parent[t] # t
    BY <1>2 DEF WakesParent, IInv, FamilyInv
  <2>2. task_state' = [u \in Tasks |-> CASE u = t -> "ZOMBIE"
                                         [] u # t /\ WakesParent(t) /\ u = parent[t] -> "READY"
                                         [] OTHER -> task_state[u]]
    BY <1>1 DEF ExitTask
  <2> QED
    BY <2>1, <2>2
<1>5. /\ children[t] \in Seq(Tasks) /\ orphans \subseteq Tasks
      /\ \A u \in orphans : parent[u] = t
  BY <1>2, ToSetType DEF IInv, FamilyInv
<1>6. /\ \A u \in orphans : parent'[u] = InitPid
      /\ \A u \in Tasks \ orphans : parent'[u] = parent[u]
  <2>1. \A u \in Tasks : AdoptedParent(t, u) = IF u \in orphans THEN InitPid ELSE parent[u]
    BY <1>5, ContainsIsMember DEF AdoptedParent
  <2>2. parent' = [u \in Tasks |-> AdoptedParent(t, u)]
    BY <1>1 DEF ExitTask
  <2> QED
    BY <1>5, <2>1, <2>2
<1>7. \A u \in Tasks \ orphans : previous'[u] = previous[u]
  BY <1>1 DEF ExitTask
<1>8. /\ children'[t] = <<>>
      /\ \A u \in Tasks \ {t, InitPid} : children'[u] = children[u]
  <2>1. children' = [children EXCEPT ![InitPid] = Reverse(children[t]) \o children[InitPid], ![t] = <<>>]
    BY <1>1 DEF ExitTask
  <2> QED
    BY <1>2, <2>1
<1> HIDE DEF orphans
<1>9. SwitchInv'
  <2>1. \A u \in Tasks : task_state'[u] = "FREE" => task_state[u] = "FREE"
    BY <1>3
  <2> QED
    BY <1>1, <2>1, SameSwitch
<1>10. ParentsInv'
  <2> SUFFICES ASSUME NEW u \in Tasks, task_state'[u] # "FREE", parent'[u] \notin {NoTask, InitPid}
               PROVE  /\ task_state'[parent'[u]] # "FREE" /\ task_state'[parent'[u]] # "ZOMBIE"
                      /\ u \in ToSet(children'[parent'[u]])
    BY DEF ParentsInv, Allocated
  <2>1. u \notin orphans /\ parent'[u] = parent[u] /\ parent[u] \in Tasks \ {InitPid}
    BY <1>2, <1>6
  <2>2. task_state[u] # "FREE"
    BY <1>1, <1>3
  <2>3. /\ task_state[parent[u]] # "FREE" /\ task_state[parent[u]] # "ZOMBIE"
        /\ u \in ToSet(children[parent[u]])
    BY <2>1, <2>2, ConstantFacts DEF LinkInv, ParentsInv, Allocated
  <2>4. parent[u] # t
    BY <2>1, <2>3 DEF orphans
  <2> QED
    BY <1>3, <1>8, <2>1, <2>3, <2>4
<1>11. ListsInv'
  <2>1. ASSUME NEW p \in Tasks \ {InitPid}, task_state'[p] # "FREE", task_state'[p] # "ZOMBIE"
        PROVE  LinkedList(children'[p], previous', children_tail'[p])
    <3>1. p # t /\ task_state[p] # "FREE" /\ task_state[p] # "ZOMBIE"
      BY <1>3, <2>1
    <3>2. LinkedList(children[p], previous, children_tail[p])
      BY <3>1 DEF LinkInv, ListsInv, Allocated
    <3>3. \A c \in ToSet(children[p]) : c \in Tasks /\ parent[c] = p
      BY <1>2, ToSetType DEF IInv, FamilyInv
    <3>4. \A j \in DOMAIN children[p] : children[p][j] \in ToSet(children[p])
      BY DEF ToSet
    <3>5. \A j \in DOMAIN children[p] : previous'[children[p][j]] = previous[children[p][j]]
      BY <1>5, <1>7, <3>1, <3>3, <3>4
    <3> QED
      BY <1>3, <1>8, <3>1, <3>2, <3>5, LinkedStays
  <2>2. \A p \in Tasks : p >= task_id => p # t /\ p # InitPid
    BY <1>1 DEF IInv, FamilyInv
  <2>3. \A p \in Tasks : p >= task_id' => children'[p] = <<>> /\ children_tail'[p] = NoTask
    BY <1>1, <1>3, <1>8, <2>2 DEF LinkInv, ListsInv
  <2> QED
    BY <2>1, <2>3 DEF ListsInv, Allocated
<1>12. InitWaits'
  BY <1>1 DEF LinkInv, InitWaits, waitVars
<1>13. WaitersCanBeWoken'
  <2> SUFFICES ASSUME NEW u \in Tasks, task_state'[u] = "BLOCKED"
               PROVE  /\ syscall_retry'[u]
                      /\ WaitsOnKeyboard(u)' \/ wait_reason'[u] = "CHILD"
                      /\ wait_reason'[u] = "CHILD" /\ wait_object'[u] # AnyChild =>
                            Contains(children'[u], wait_object'[u])
                      /\ wait_reason'[u] = "CHILD" /\ u # InitPid =>
                            \A j \in DOMAIN children'[u] :
                                wait_object'[u] \in {AnyChild, children'[u][j]} =>
                                    task_state'[children'[u][j]] # "ZOMBIE"
    BY DEF WaitersCanBeWoken
  <2>1. u # t /\ task_state[u] = "BLOCKED"
    BY <1>3
  <2>2. wait_reason' = wait_reason /\ wait_object' = wait_object /\ syscall_retry' = syscall_retry
    BY <1>1 DEF waitVars
  <2>3. /\ syscall_retry[u]
        /\ WaitsOnKeyboard(u) \/ wait_reason[u] = "CHILD"
        /\ wait_reason[u] = "CHILD" /\ wait_object[u] # AnyChild => Contains(children[u], wait_object[u])
        /\ wait_reason[u] = "CHILD" /\ u # InitPid =>
              \A j \in DOMAIN children[u] :
                  wait_object[u] \in {AnyChild, children[u][j]} => task_state[children[u][j]] # "ZOMBIE"
    BY <2>1 DEF LinkInv, WaitersCanBeWoken
  <2>4. CASE u = InitPid
    <3>1. wait_object[u] = AnyChild
      BY <2>3, <2>4 DEF LinkInv, InitWaits
    <3> QED
      BY <2>2, <2>3, <2>4, <3>1 DEF WaitsOnKeyboard
  <2>5. CASE u # InitPid
    <3>1. children'[u] = children[u]
      BY <1>8, <2>1, <2>5
    <3>2. ASSUME wait_reason[u] = "CHILD", NEW j \in DOMAIN children[u],
                 wait_object[u] \in {AnyChild, children[u][j]}
          PROVE  task_state'[children[u][j]] # "ZOMBIE"
      <4>1. children[u][j] \in ToSet(children[u])
        BY DEF ToSet
      <4>2. children[u][j] \in Tasks /\ parent[children[u][j]] = u
        BY <1>2, <4>1, ToSetType DEF IInv, FamilyInv
      <4>3. task_state[children[u][j]] # "ZOMBIE"
        BY <2>3, <2>5, <3>2
      <4>4. children[u][j] # t
        <5> SUFFICES ASSUME children[u][j] = t
                     PROVE  FALSE
          OBVIOUS
        <5>1. parent[t] = u /\ wait_object[u] \in {AnyChild, t}
          BY <3>2, <4>2
        <5>2. u # NoTask
          BY ConstantFacts
        <5>3. WakesParent(t)
          BY <2>1, <3>2, <5>1, <5>2 DEF WakesParent
        <5> QED
          BY <1>4, <5>1, <5>3
      <4> QED
        BY <1>3, <4>2, <4>3, <4>4
    <3> QED
      BY <2>2, <2>3, <3>1, <3>2 DEF WaitsOnKeyboard
  <2> QED
    BY <2>4, <2>5
<1> QED
  BY <1>9, <1>10, <1>11, <1>12, <1>13 DEF LinkInv

\* The first state: nobody has a parent or a child, and nobody waits.
LEMMA InitLinks == Init => LinkInv
<1> SUFFICES ASSUME Init
             PROVE  LinkInv
  OBVIOUS
<1>1. /\ \A t \in Tasks : /\ parent[t] = NoTask /\ children[t] = <<>>
                          /\ children_tail[t] = NoTask /\ ~syscall_retry[t]
      /\ \A t \in Tasks : task_state[t] \in {"RUNNING", "READY", "FREE"}
      /\ task_state[IdlePid] = "RUNNING"
      /\ task_current = NoTask /\ task_next = IdlePid /\ task_needs_switching
  BY ConstantFacts DEF Init
<1>2. SwitchInv
  BY <1>1 DEF SwitchInv, Allocated
<1>3. ParentsInv
  BY <1>1 DEF ParentsInv
<1>4. ListsInv
  <2>1. \A p \in Tasks : LinkedList(children[p], previous, children_tail[p])
    BY <1>1 DEF LinkedList
  <2> QED
    BY <1>1, <2>1 DEF ListsInv
<1>5. InitWaits /\ WaitersCanBeWoken
  BY <1>1, ConstantFacts DEF InitWaits, WaitersCanBeWoken
<1> QED
  BY <1>2, <1>3, <1>4, <1>5 DEF LinkInv

\* The second invariant holds in every reachable state.
THEOREM FamilyInvariance == Spec => []LinkInv
<1>1. IInv /\ LinkInv /\ [Next]_vars => LinkInv'
  <2> SUFFICES ASSUME IInv, LinkInv, [Next]_vars
               PROVE  LinkInv'
    OBVIOUS
  <2>1. CASE TimerIrq \/ KeyboardIrq
    BY <2>1, QuietLinks
  <2>2. CASE KernelStep
    BY <2>2, QuietLinks, ScheduleLinks, ReturnLinks, WakeLinks DEF KernelStep
  <2>3. CASE Fork
    BY <2>3, ForkLinks
  <2>4. CASE Exit \/ \E t \in Tasks : KillTerminates(t)
    BY <2>4, ExitEnds, ExitLinks
  <2>5. CASE \E pid \in Tasks \cup {AnyChild} : Waitpid(pid)
    <3>1. PICK pid \in Tasks \cup {AnyChild} : WaitpidReaps(pid) \/ WaitpidFails(pid) \/ WaitpidBlocks(pid)
      BY <2>5 DEF Waitpid
    <3> QED
      BY <3>1, ReapLinks, QuietLinks, BlockLinks
  <2>6. CASE Read
    BY <2>6, QuietLinks, BlockLinks DEF Read
  <2>7. CASE \E t \in Tasks : KillHandled(t)
    BY <2>7, WakeLinks
  <2>8. CASE Undefined \/ UNCHANGED vars
    BY <2>8, QuietLinks DEF Undefined
  <2> QED
    BY <2>1, <2>2, <2>3, <2>4, <2>5, <2>6, <2>7, <2>8 DEF Next, Kill
<1> QED
  BY <1>1, InitLinks, Invariance, PTL DEF Spec

\* Nothing the kernel still follows, the CPU's pointers, the parent fields or the child lists,
\* refers to a destroyed task.
THEOREM NothingDanglesInTheTree == Spec => []NoDanglingTask
<1>1. IInv /\ LinkInv => NoDanglingTask
  <2> SUFFICES ASSUME IInv, LinkInv
               PROVE  NoDanglingTask
    OBVIOUS
  <2>1. \A t \in Tasks : Allocated(t) /\ parent[t] # NoTask => Allocated(parent[t])
    <3>1. Allocated(InitPid)
      BY DEF IInv, FamilyInv, Allocated
    <3> QED
      BY <3>1 DEF LinkInv, ParentsInv
  <2>2. \A p \in Tasks : \A i \in DOMAIN children[p] :
           Allocated(children[p][i]) /\ parent[children[p][i]] = p
    <3>1. \A p \in Tasks : \A i \in DOMAIN children[p] : children[p][i] \in ToSet(children[p])
      BY DEF ToSet
    <3> QED
      BY <3>1 DEF IInv, FamilyInv, Allocated
  <2> QED
    BY <2>1, <2>2 DEF LinkInv, SwitchInv, NoDanglingTask
<1> QED
  BY <1>1, Invariance, FamilyInvariance, PTL

\* The child list of every task but init is a well formed doubly linked list of all its
\* children, through every fork, exit and reaping.
THEOREM FamiliesAreLinked == Spec => []FamilyIsLinked
<1>1. IInv /\ LinkInv => FamilyIsLinked
  <2> SUFFICES ASSUME IInv, LinkInv, NEW p \in Tasks \ {InitPid}, Allocated(p), task_state[p] # "ZOMBIE"
               PROVE  /\ \A t \in Tasks : Allocated(t) /\ parent[t] = p => Contains(children[p], t)
                      /\ LinkedList(children[p], previous, children_tail[p])
    BY DEF FamilyIsLinked, LinkedList
  <2>1. ASSUME NEW t \in Tasks, Allocated(t), parent[t] = p
        PROVE  Contains(children[p], t)
    <3>1. t \in ToSet(children[p])
      BY <2>1, ConstantFacts DEF LinkInv, ParentsInv
    <3>2. children[p] \in Seq(Tasks)
      BY DEF IInv, TypeOK
    <3> QED
      BY <3>1, <3>2, ContainsIsMember
  <2>2. LinkedList(children[p], previous, children_tail[p])
    BY DEF LinkInv, ListsInv
  <2> QED
    BY <2>1, <2>2
<1> QED
  BY <1>1, Invariance, FamilyInvariance, PTL

\* Every blocked task has its call to retry and something that will wake it; no task but init
\* sleeps through the end of a child it waits for.
THEOREM BlockedTasksCanBeWoken == Spec => []WaitersCanBeWoken
<1>1. LinkInv => WaitersCanBeWoken
  BY DEF LinkInv
<1> QED
  BY <1>1, FamilyInvariance, PTL
=============================================================================
