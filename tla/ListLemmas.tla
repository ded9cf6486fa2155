----------------------------- MODULE ListLemmas -----------------------------
(***************************************************************************)
(* Lemmas on which the proofs about the components rest: what unlinking    *)
(* and linking an element does to a list, and that a loop over slots that  *)
(* looks for the first one with a property finds it.                       *)
(***************************************************************************)
EXTENDS Naturals, Sequences, SequencesExt, SequenceTheorems, WellFoundedInduction, TLAPS

\* r is s without its element i, and r is s with x at place i.
Removed(r, s, i) ==
  /\ Len(r) = Len(s) - 1
  /\ \A j \in 1 .. Len(s) - 1 : r[j] = IF j < i THEN s[j] ELSE s[j + 1]

Inserted(r, s, i, x) ==
  /\ Len(r) = Len(s) + 1
  /\ \A j \in 1 .. Len(s) + 1 : r[j] = IF j < i THEN s[j] ELSE IF j = i THEN x ELSE s[j - 1]

\* Taking element i out of a sequence (the unlinking of an event).
LEMMA RemoveAtShape ==
  ASSUME NEW S, NEW s \in Seq(S), NEW i \in DOMAIN s
  PROVE  RemoveAt(s, i) \in Seq(S) /\ Removed(RemoveAt(s, i), s, i)
<1>. DEFINE a == SubSeq(s, 1, i - 1)
            b == SubSeq(s, i + 1, Len(s))
<1>1. i \in 1 .. Len(s) /\ Len(s) \in Nat OBVIOUS
<1>2. a \in Seq(S) /\ Len(a) = i - 1 /\ \A j \in 1 .. i - 1 : a[j] = s[j] BY <1>1
<1>3. b \in Seq(S) /\ Len(b) = Len(s) - i /\ \A j \in 1 .. Len(s) - i : b[j] = s[i + j] BY <1>1
<1>. HIDE DEF a, b
<1>4. /\ a \o b \in Seq(S) /\ Len(a \o b) = Len(a) + Len(b)
      /\ \A j \in 1 .. Len(a) + Len(b) : (a \o b)[j] = IF j <= Len(a) THEN a[j] ELSE b[j - Len(a)]
  BY SMTT(30), <1>2, <1>3
<1>5. Len(a \o b) = Len(s) - 1 BY <1>1, <1>2, <1>3, <1>4
<1>6. ASSUME NEW j \in 1 .. Len(s) - 1 PROVE (a \o b)[j] = IF j < i THEN s[j] ELSE s[j + 1]
  <2>1. CASE j < i BY SMTT(30), <2>1, <1>1, <1>2, <1>3, <1>4
  <2>2. CASE ~(j < i)
    <3>1. j - (i - 1) \in 1 .. Len(s) - i /\ i + (j - (i - 1)) = j + 1 BY <2>2, <1>1
    <3>2. j \in 1 .. Len(a) + Len(b) /\ ~(j <= Len(a)) BY <2>2, <1>1, <1>2, <1>3
    <3>3. (a \o b)[j] = b[j - Len(a)] BY <3>2, <1>4
    <3>4. (a \o b)[j] = b[j - (i - 1)] BY <3>3, <1>2
    <3>. QED BY <2>2, <3>1, <3>4, <1>3
  <2>. QED BY <2>1, <2>2
<1>7. RemoveAt(s, i) = a \o b BY DEF RemoveAt, a, b
<1>8. Removed(a \o b, s, i) BY <1>5, <1>6 DEF Removed
<1>. QED BY <1>4, <1>7, <1>8

\* Putting an element in at place i of a sequence (a reordering _add_cmd).
LEMMA InsertAtShape ==
  ASSUME NEW S, NEW s \in Seq(S), NEW i \in 1 .. Len(s) + 1, NEW x \in S
  PROVE  InsertAt(s, i, x) \in Seq(S) /\ Inserted(InsertAt(s, i, x), s, i, x)
<1>. DEFINE a == SubSeq(s, 1, i - 1)
            b == SubSeq(s, i, Len(s))
            ax == a \o <<x>>
<1>1. i \in 1 .. Len(s) + 1 /\ Len(s) \in Nat OBVIOUS
<1>2. a \in Seq(S) /\ Len(a) = i - 1 /\ \A j \in 1 .. i - 1 : a[j] = s[j] BY <1>1
<1>3. b \in Seq(S) /\ Len(b) = Len(s) + 1 - i /\ \A j \in 1 .. Len(b) : b[j] = s[i + j - 1] BY <1>1
<1>. HIDE DEF a, b
<1>4. ax \in Seq(S) /\ Len(ax) = i /\ ax[i] = x /\ \A j \in 1 .. i - 1 : ax[j] = s[j] BY <1>1, <1>2
<1>. HIDE DEF ax
<1>5. /\ ax \o b \in Seq(S) /\ Len(ax \o b) = Len(ax) + Len(b)
      /\ \A j \in 1 .. Len(ax) + Len(b) : (ax \o b)[j] = IF j <= Len(ax) THEN ax[j] ELSE b[j - Len(ax)]
  BY <1>3, <1>4
<1>6. Len(ax \o b) = Len(s) + 1 BY <1>1, <1>3, <1>4, <1>5
<1>7. ASSUME NEW j \in 1 .. Len(s) + 1
      PROVE  (ax \o b)[j] = IF j < i THEN s[j] ELSE IF j = i THEN x ELSE s[j - 1]
  <2>. j \in 1 .. Len(ax) + Len(b) BY <1>1, <1>3, <1>4
  <2>1. CASE j < i
    <3>1. j <= Len(ax) /\ j \in 1 .. i - 1 BY <2>1, <1>1, <1>4
    <3>. QED BY <2>1, <3>1, <1>4, <1>5
  <2>3. CASE j = i
    <3>1. j <= Len(ax) BY <2>3, <1>1, <1>4
    <3>. QED BY <2>3, <3>1, <1>1, <1>4, <1>5
  <2>2. CASE j > i
    <3>1. j - i \in 1 .. Len(b) /\ i + (j - i) - 1 = j - 1 BY <2>2, <1>1, <1>3
    <3>2. (ax \o b)[j] = b[j - i] BY <2>2, <1>1, <1>3, <1>4, <1>5
    <3>. QED BY SMTT(30), <2>2, <3>1, <3>2, <1>3
  <2>. QED BY <2>1, <2>2, <2>3, <1>1
<1>8. InsertAt(s, i, x) = ax \o b BY DEF InsertAt, ax, a, b
<1>9. Inserted(ax \o b, s, i, x) BY <1>6, <1>7 DEF Inserted
<1>. QED BY <1>5, <1>8, <1>9

\* Who is on a list of different elements after one of them was unlinked, after
\* its head was, and after another was put in front.
LEMMA RemovedElements ==
  ASSUME NEW S, NEW s \in Seq(S), NEW p \in DOMAIN s, NEW r \in Seq(S), Removed(r, s, p),
         IsInjective(s)
  PROVE  IsInjective(r) /\ ToSet(r) = ToSet(s) \ {s[p]}
<1>1. \A i \in DOMAIN s, j \in DOMAIN s : s[i] = s[j] => i = j BY DEF IsInjective
<1>2. DOMAIN r = 1 .. Len(s) - 1 /\ DOMAIN s = 1 .. Len(s) /\ Len(s) \in Nat BY DEF Removed
<1>3. \A j \in 1 .. Len(s) - 1 : r[j] = s[IF j < p THEN j ELSE j + 1] BY <1>2 DEF Removed
<1>4. IsInjective(r)
  <2>. SUFFICES ASSUME NEW i \in 1 .. Len(s) - 1, NEW j \in 1 .. Len(s) - 1, r[i] = r[j] PROVE i = j
    BY <1>2 DEF IsInjective
  <2>. DEFINE a == IF i < p THEN i ELSE i + 1
              b == IF j < p THEN j ELSE j + 1
  <2>1. a \in DOMAIN s /\ b \in DOMAIN s /\ s[a] = s[b] BY <1>2, <1>3
  <2>2. a = b BY <2>1, <1>1
  <2>. QED BY <2>2, <1>2
<1>5. ASSUME NEW x \in ToSet(s) \ {s[p]} PROVE x \in ToSet(r)
  <2>1. PICK i \in 1 .. Len(s) : x = s[i] BY <1>2 DEF ToSet
  <2>2. i # p BY <2>1
  <2>3. CASE i < p BY <2>1, <2>3, <1>2, <1>3 DEF ToSet
  <2>4. CASE i > p
    <3>1. i - 1 \in 1 .. Len(s) - 1 /\ ~(i - 1 < p) /\ (i - 1) + 1 = i BY <2>4, <1>2
    <3>2. x = r[i - 1] BY <3>1, <1>3, <2>1
    <3>. QED BY <3>1, <3>2, <1>2 DEF ToSet
  <2>. QED BY <2>2, <2>3, <2>4, <1>2
<1>6. ASSUME NEW x \in ToSet(r) PROVE x \in ToSet(s) \ {s[p]}
  <2>1. PICK i \in 1 .. Len(s) - 1 : x = r[i] BY <1>2 DEF ToSet
  <2>2. PICK j \in DOMAIN s : j # p /\ x = s[j] BY <2>1, <1>2, <1>3
  <2>. QED BY <2>2, <1>1 DEF ToSet
<1>. QED BY <1>4, <1>5, <1>6

\* The tail of a list without repetition loses exactly the head.
LEMMA TailElements ==
  ASSUME NEW S, NEW s \in Seq(S), s # <<>>, IsInjective(s)
  PROVE  /\ Head(s) \in S /\ Head(s) \in ToSet(s) /\ Tail(s) \in Seq(S)
         /\ IsInjective(Tail(s)) /\ ToSet(Tail(s)) = ToSet(s) \ {Head(s)}
<1>1. 1 \in DOMAIN s /\ Head(s) = s[1] OBVIOUS
<1>2. Tail(s) \in Seq(S) /\ Removed(Tail(s), s, 1) BY DEF Removed
<1>3. IsInjective(Tail(s)) /\ ToSet(Tail(s)) = ToSet(s) \ {s[1]} BY <1>1, <1>2, RemovedElements
<1>4. s[1] \in S /\ s[1] \in ToSet(s) BY <1>1 DEF ToSet
<1>. QED BY <1>1, <1>2, <1>3, <1>4

\* Where the elements of a list are after one was put in front.
LEMMA ConsShape ==
  ASSUME NEW S, NEW s \in Seq(S), NEW x \in S
  PROVE  LET r == <<x>> \o s IN
         /\ r \in Seq(S) /\ Len(r) = Len(s) + 1 /\ DOMAIN r = 1 .. Len(s) + 1
         /\ r[1] = x /\ \A i \in 2 .. Len(s) + 1 : r[i] = s[i - 1]
<1>. DEFINE r == <<x>> \o s
<1>1. /\ r \in Seq(S) /\ Len(r) = Len(s) + 1 /\ DOMAIN r = 1 .. Len(s) + 1 /\ Len(s) \in Nat
      /\ r[1] = x /\ \A i \in 1 .. Len(s) : r[i + 1] = s[i]
  OBVIOUS
<1>2. ASSUME NEW i \in 2 .. Len(s) + 1 PROVE r[i] = s[i - 1]
  <2>1. i - 1 \in 1 .. Len(s) /\ (i - 1) + 1 = i BY <1>1
  <2>. QED BY <2>1, <1>1
<1>. QED BY <1>1, <1>2

\* What a list has after an element was put in front.
LEMMA PrependElements ==
  ASSUME NEW S, NEW s \in Seq(S), NEW x \in S
  PROVE  /\ <<x>> \o s \in Seq(S) /\ ToSet(<<x>> \o s) = ToSet(s) \cup {x}
         /\ IsInjective(s) /\ x \notin ToSet(s) => IsInjective(<<x>> \o s)
<1>. DEFINE r == <<x>> \o s
<1>1. /\ r \in Seq(S) /\ DOMAIN r = 1 .. Len(s) + 1 /\ DOMAIN s = 1 .. Len(s) /\ Len(s) \in Nat
      /\ r[1] = x /\ \A i \in 1 .. Len(s) : r[i + 1] = s[i] /\ s[i] \in S
  OBVIOUS
<1>2. \A i \in 1 .. Len(s) + 1 : r[i] = IF i = 1 THEN x ELSE s[i - 1] BY <1>1, ConsShape
<1>. HIDE DEF r
<1>3. ToSet(r) = ToSet(s) \cup {x}
  <2>1. ASSUME NEW y \in ToSet(s) PROVE y \in ToSet(r)
    <3>1. PICK i \in 1 .. Len(s) : y = s[i] BY <1>1 DEF ToSet
    <3>2. i + 1 \in DOMAIN r /\ r[i + 1] = y BY <3>1, <1>1
    <3>. QED BY <3>2 DEF ToSet
  <2>2. x \in ToSet(r) BY <1>1 DEF ToSet
  <2>3. ASSUME NEW y \in ToSet(r) PROVE y \in ToSet(s) \cup {x}
    <3>1. PICK i \in 1 .. Len(s) + 1 : y = r[i] BY <1>1 DEF ToSet
    <3>2. i # 1 => i - 1 \in DOMAIN s /\ y = s[i - 1] BY <3>1, <1>1, <1>2
    <3>. QED BY <3>1, <3>2, <1>1 DEF ToSet
  <2>. QED BY <2>1, <2>2, <2>3
<1>4. IsInjective(s) /\ x \notin ToSet(s) => IsInjective(r)
  <2>. SUFFICES ASSUME IsInjective(s), x \notin ToSet(s), NEW i \in 1 .. Len(s) + 1,
                       NEW j \in 1 .. Len(s) + 1, r[i] = r[j], i # j
                PROVE  FALSE
    BY <1>1 DEF IsInjective
  <2>0. \A k \in 2 .. Len(s) + 1 : k - 1 \in 1 .. Len(s) /\ r[k] = s[k - 1] BY <1>1, <1>2
  <2>1. i # 1 => i - 1 \in DOMAIN s /\ r[i] = s[i - 1] /\ s[i - 1] \in ToSet(s)
    <3>1. i # 1 => i \in 2 .. Len(s) + 1 BY <1>1
    <3>2. \A k \in DOMAIN s : s[k] \in ToSet(s) BY DEF ToSet
    <3>. QED BY <3>1, <3>2, <2>0, <1>1
  <2>2. j # 1 => j - 1 \in DOMAIN s /\ r[j] = s[j - 1] /\ s[j - 1] \in ToSet(s)
    <3>1. j # 1 => j \in 2 .. Len(s) + 1 BY <1>1
    <3>2. \A k \in DOMAIN s : s[k] \in ToSet(s) BY DEF ToSet
    <3>. QED BY <3>1, <3>2, <2>0, <1>1
  <2>3. i # 1 /\ j # 1 BY <2>1, <2>2, <1>2, <1>1
  <2>4. i - 1 = j - 1 BY <2>1, <2>2, <2>3 DEF IsInjective
  <2>. QED BY <2>4
<1>. QED BY <1>1, <1>3, <1>4 DEF r

\* The order of the natural numbers, as a relation.
LessThan == {p \in Nat \X Nat : p[1] < p[2]}

\* It has no infinite descending chain.
LEMMA LessThanWellFounded == IsWellFoundedOn(LessThan, Nat)
<1>1. LessThan = OpToRel(<, Nat) BY DEF LessThan, OpToRel
<1>. QED BY <1>1, NatLessThanWellFounded, Zenon

\* A set of natural numbers that is not empty has a least element (the first
\* empty slot of _client_associate).
LEMMA LeastNatural == ASSUME NEW T \in SUBSET Nat, T # {} PROVE \E x \in T : \A y \in T : x <= y
<1>1. PICK x \in T : \A y \in T : ~(<<y, x>> \in LessThan) BY WFMin, LessThanWellFounded
<1>2. ASSUME NEW y \in T PROVE x <= y
  <2>1. ~(y < x) BY <1>1 DEF LessThan
  <2>. QED BY <2>1
<1>. QED BY <1>2
=============================================================================
