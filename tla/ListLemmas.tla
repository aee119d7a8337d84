----------------------------- MODULE ListLemmas -----------------------------
(***************************************************************************)
(* The kernel's list_t (kernel/misc/list.c) is modelled by a sequence.      *)
(* These lemmas say what its operations do to the set of queued elements.   *)
(***************************************************************************)
EXTENDS Naturals, Sequences, Functions, SequencesExt, SequenceTheorems,
        WellFoundedInduction, TLAPS

\* list_append adds exactly one element, and keeps a list without repetition so
\* if the element was not in it.
LEMMA AppendElems ==
    ASSUME NEW S, NEW s \in Seq(S), NEW e \in S
    PROVE  /\ Append(s, e) \in Seq(S)
           /\ Range(Append(s, e)) = Range(s) \cup {e}
           /\ IsInjective(s) /\ e \notin Range(s) => IsInjective(Append(s, e))
<1>1. Append(s, e) \in Seq(S) /\ Len(Append(s, e)) = Len(s) + 1
      /\ \A i \in 1..Len(s) : Append(s, e)[i] = s[i]
      /\ Append(s, e)[Len(s) + 1] = e
      /\ DOMAIN s = 1..Len(s) /\ DOMAIN Append(s, e) = 1..(Len(s) + 1)
      /\ Len(s) \in Nat
  OBVIOUS
<1>2. Range(Append(s, e)) = Range(s) \cup {e}
  BY <1>1 DEF Range
<1>3. IsInjective(s) /\ e \notin Range(s) => IsInjective(Append(s, e))
  BY <1>1 DEF Range, IsInjective
<1> QED BY <1>1, <1>2, <1>3

\* list_dequeue removes exactly the head.
LEMMA TailElems ==
    ASSUME NEW S, NEW s \in Seq(S), s # <<>>, IsInjective(s)
    PROVE  /\ Tail(s) \in Seq(S)
           /\ Head(s) \in S
           /\ Head(s) \in Range(s)
           /\ Range(Tail(s)) = Range(s) \ {Head(s)}
           /\ IsInjective(Tail(s))
<1>1. /\ Tail(s) \in Seq(S) /\ Len(Tail(s)) = Len(s) - 1 /\ Len(s) \in Nat \ {0}
      /\ \A i \in 1..(Len(s) - 1) : Tail(s)[i] = s[i + 1]
      /\ Head(s) = s[1]
      /\ DOMAIN s = 1..Len(s) /\ DOMAIN Tail(s) = 1..(Len(s) - 1)
  OBVIOUS
<1>2. Head(s) \in Range(s) /\ Head(s) \in S
  BY <1>1 DEF Range
<1>3. IsInjective(Tail(s))
  <2> SUFFICES ASSUME NEW i \in 1..(Len(s) - 1), NEW j \in 1..(Len(s) - 1),
                      Tail(s)[i] = Tail(s)[j]
               PROVE  i = j
    BY <1>1 DEF IsInjective
  <2>1. s[i + 1] = s[j + 1] /\ i + 1 \in DOMAIN s /\ j + 1 \in DOMAIN s
    BY <1>1
  <2> QED BY <2>1, <1>1 DEF IsInjective
<1>4. Range(Tail(s)) \subseteq Range(s) \ {Head(s)}
  <2> SUFFICES ASSUME NEW i \in 1..(Len(s) - 1)
               PROVE  Tail(s)[i] \in Range(s) /\ Tail(s)[i] # Head(s)
    BY <1>1 DEF Range
  <2>1. i + 1 \in DOMAIN s /\ 1 \in DOMAIN s /\ i + 1 # 1 /\ Tail(s)[i] = s[i + 1]
    BY <1>1
  <2> QED BY <2>1, <1>1 DEF Range, IsInjective
<1>5. Range(s) \ {Head(s)} \subseteq Range(Tail(s))
  <2> SUFFICES ASSUME NEW i \in 1..Len(s), s[i] # Head(s)
               PROVE  s[i] \in Range(Tail(s))
    BY <1>1 DEF Range
  <2>1. i - 1 \in 1..(Len(s) - 1) /\ Tail(s)[i - 1] = s[i]
    BY <1>1
  <2> QED BY <2>1, <1>1 DEF Range
<1> QED BY <1>1, <1>2, <1>3, <1>4, <1>5

\* Dequeueing the head and appending it again, as next_ready_process does with
\* the process it pulled too soon, leaves the same elements queued.
LEMMA RotateElems ==
    ASSUME NEW S, NEW s \in Seq(S), s # <<>>, IsInjective(s)
    PROVE  /\ Append(Tail(s), Head(s)) \in Seq(S)
           /\ Range(Append(Tail(s), Head(s))) = Range(s)
           /\ IsInjective(Append(Tail(s), Head(s)))
<1> DEFINE t == Tail(s)
           h == Head(s)
<1>1. /\ t \in Seq(S) /\ h \in S /\ h \in Range(s)
      /\ Range(t) = Range(s) \ {h} /\ IsInjective(t)
  BY TailElems
<1> HIDE DEF t, h
<1>2. /\ Append(t, h) \in Seq(S)
      /\ Range(Append(t, h)) = Range(t) \cup {h}
      /\ h \notin Range(t) => IsInjective(Append(t, h))
  BY <1>1, AppendElems
<1>3. /\ Append(t, h) \in Seq(S)
      /\ Range(Append(t, h)) = Range(s)
      /\ IsInjective(Append(t, h))
  BY <1>1, <1>2
<1> QED BY <1>3 DEF t, h

\* list_pop removes exactly the last element.
LEMMA FrontElems ==
    ASSUME NEW S, NEW s \in Seq(S), s # <<>>, IsInjective(s)
    PROVE  /\ Front(s) \in Seq(S)
           /\ Last(s) \in S
           /\ Last(s) \in Range(s)
           /\ Range(Front(s)) = Range(s) \ {Last(s)}
           /\ IsInjective(Front(s))
<1>1. Len(s) \in Nat \ {0} /\ DOMAIN s = 1..Len(s) /\ Last(s) = s[Len(s)]
  BY DEF Last
<1>2. /\ Front(s) \in Seq(S) /\ Len(Front(s)) = Len(s) - 1
      /\ DOMAIN Front(s) = 1..(Len(s) - 1)
      /\ \A i \in 1..(Len(s) - 1) : Front(s)[i] = s[i]
  BY <1>1 DEF Front
<1>3. Last(s) \in Range(s) /\ Last(s) \in S
  BY <1>1 DEF Range
<1>4. IsInjective(Front(s))
  BY <1>1, <1>2 DEF IsInjective
<1>5. Range(Front(s)) = Range(s) \ {Last(s)}
  BY <1>1, <1>2 DEF IsInjective, Range
<1> QED BY <1>2, <1>3, <1>4, <1>5

\* Dropping the first n entries, as process_reap_later does, removes exactly
\* those elements.
LEMMA DropElems ==
    ASSUME NEW S, NEW s \in Seq(S), IsInjective(s), NEW n \in 0..Len(s)
    PROVE  /\ SubSeq(s, n + 1, Len(s)) \in Seq(S)
           /\ Range(SubSeq(s, n + 1, Len(s))) = Range(s) \ {s[i] : i \in 1..n}
           /\ IsInjective(SubSeq(s, n + 1, Len(s)))
<1> DEFINE t == SubSeq(s, n + 1, Len(s))
<1>1. /\ t \in Seq(S) /\ Len(s) \in Nat /\ n \in Nat
      /\ DOMAIN s = 1..Len(s) /\ DOMAIN t = 1..(Len(s) - n)
      /\ \A i \in 1..(Len(s) - n) : t[i] = s[n + i] /\ n + i \in 1..Len(s)
  OBVIOUS
<1> HIDE DEF t
<1>2. IsInjective(t)
  <2> SUFFICES ASSUME NEW i \in 1..(Len(s) - n), NEW j \in 1..(Len(s) - n), t[i] = t[j]
               PROVE  i = j
    BY <1>1 DEF IsInjective
  <2>1. s[n + i] = s[n + j] /\ n + i \in DOMAIN s /\ n + j \in DOMAIN s
    BY <1>1
  <2>2. n + i = n + j
    BY <2>1 DEF IsInjective
  <2> QED BY <2>2, <1>1
<1>3. Range(t) \subseteq Range(s) \ {s[i] : i \in 1..n}
  <2> SUFFICES ASSUME NEW i \in 1..(Len(s) - n), NEW j \in 1..n
               PROVE  t[i] \in Range(s) /\ t[i] # s[j]
    BY <1>1 DEF Range
  <2>1. n + i \in DOMAIN s /\ j \in DOMAIN s /\ n + i # j /\ t[i] = s[n + i]
    BY <1>1
  <2> QED BY <2>1 DEF Range, IsInjective
<1>4. Range(s) \ {s[i] : i \in 1..n} \subseteq Range(t)
  <2> SUFFICES ASSUME NEW k \in 1..Len(s), s[k] \notin {s[i] : i \in 1..n}
               PROVE  s[k] \in Range(t)
    BY <1>1 DEF Range
  <2>1. k - n \in 1..(Len(s) - n)
    BY <1>1
  <2>2. t[k - n] = s[n + (k - n)] /\ n + (k - n) = k
    BY <2>1, <1>1
  <2> QED BY <2>1, <2>2, <1>1 DEF Range
<1> QED BY <1>1, <1>2, <1>3, <1>4 DEF t

\* list_delete moves up everything behind the element it removes.
LEMMA RemoveAtIs ==
    ASSUME NEW S, NEW s \in Seq(S), NEW k \in DOMAIN s
    PROVE  /\ RemoveAt(s, k) \in Seq(S) /\ Len(RemoveAt(s, k)) = Len(s) - 1
           /\ DOMAIN RemoveAt(s, k) = 1..(Len(s) - 1)
           /\ \A i \in 1..(Len(s) - 1) : RemoveAt(s, k)[i] = s[IF i < k THEN i ELSE i + 1]
<1> DEFINE t == RemoveAt(s, k)
           front == SubSeq(s, 1, k - 1)
           rest == SubSeq(s, k + 1, Len(s))
<1>len. Len(s) \in Nat /\ DOMAIN s = 1..Len(s) /\ k \in 1..Len(s)
  OBVIOUS
<1>front. /\ front \in Seq(S) /\ Len(front) = k - 1
          /\ \A i \in 1..(k - 1) : front[i] = s[i]
  BY <1>len
<1>rest. /\ rest \in Seq(S) /\ Len(rest) = Len(s) - k
         /\ \A i \in 1..(Len(s) - k) : rest[i] = s[k + i]
  BY <1>len
<1>join. t = front \o rest
  BY DEF RemoveAt
<1> HIDE DEF front, rest, t
<1>1. t \in Seq(S) /\ Len(t) = Len(s) - 1 /\ DOMAIN t = 1..(Len(s) - 1)
  <2>1. t \in Seq(S) /\ Len(t) = Len(front) + Len(rest)
    BY <1>front, <1>rest, <1>join, ConcatProperties
  <2>2. Len(t) = Len(s) - 1
    BY <1>len, <1>front, <1>rest, <2>1
  <2> QED BY <2>1, <2>2
<1>2. ASSUME NEW i \in 1..(Len(s) - 1) PROVE t[i] = s[IF i < k THEN i ELSE i + 1]
  <2>1. CASE i < k
    <3>1. t[i] = front[i] /\ i \in 1..(k - 1)
      BY <1>len, <1>front, <1>rest, <1>join, <2>1
    <3> QED BY <1>front, <2>1, <3>1
  <2>2. CASE ~(i < k)
    <3>1. t[i] = rest[i - Len(front)] /\ i - Len(front) \in 1..(Len(s) - k)
      BY SMTT(30), <1>len, <1>front, <1>rest, <1>join, <2>2
    <3>2. i - Len(front) = i - (k - 1) /\ k + (i - (k - 1)) = i + 1
      BY <1>len, <1>front
    <3> QED BY <1>rest, <2>2, <3>1, <3>2
  <2> QED BY <2>1, <2>2
<1> QED BY <1>1, <1>2 DEF t

\* list_delete removes exactly the element it is given.
LEMMA RemoveAtElems ==
    ASSUME NEW S, NEW s \in Seq(S), IsInjective(s), NEW k \in DOMAIN s
    PROVE  /\ RemoveAt(s, k) \in Seq(S)
           /\ Range(RemoveAt(s, k)) = Range(s) \ {s[k]}
           /\ IsInjective(RemoveAt(s, k))
<1> DEFINE t == RemoveAt(s, k)
           at(i) == IF i < k THEN i ELSE i + 1
<1>len. Len(s) \in Nat /\ DOMAIN s = 1..Len(s) /\ k \in 1..Len(s)
  OBVIOUS
<1>1. t \in Seq(S) /\ Len(t) = Len(s) - 1 /\ DOMAIN t = 1..(Len(s) - 1)
  BY RemoveAtIs
<1>2. \A i \in 1..(Len(s) - 1) : t[i] = s[at(i)]
  BY RemoveAtIs
<1> HIDE DEF t
<1>3. \A i \in 1..(Len(s) - 1) : at(i) \in 1..Len(s) /\ at(i) # k
  BY <1>len
<1>4. \A i, j \in 1..(Len(s) - 1) : at(i) = at(j) => i = j
  BY <1>len
<1>5. \A n \in 1..Len(s) : n # k => \E i \in 1..(Len(s) - 1) : at(i) = n
  <2> SUFFICES ASSUME NEW n \in 1..Len(s), n # k
               PROVE  \E i \in 1..(Len(s) - 1) : at(i) = n
    OBVIOUS
  <2>1. CASE n < k
    <3>1. n \in 1..(Len(s) - 1) /\ at(n) = n
      BY <1>len, <2>1
    <3> QED BY <3>1
  <2>2. CASE n > k
    <3>1. n - 1 \in 1..(Len(s) - 1) /\ at(n - 1) = n
      BY <1>len, <2>2
    <3> QED BY <3>1
  <2> QED BY <1>len, <2>1, <2>2
<1> HIDE DEF t, at
<1>6. IsInjective(t)
  BY SMTT(30), <1>len, <1>1, <1>2, <1>3, <1>4 DEF IsInjective
<1>7. Range(t) \subseteq Range(s) \ {s[k]}
  BY <1>len, <1>1, <1>2, <1>3 DEF Range, IsInjective
<1>8. Range(s) \ {s[k]} \subseteq Range(t)
  <2> SUFFICES ASSUME NEW n \in 1..Len(s), s[n] # s[k]
               PROVE  s[n] \in Range(t)
    BY <1>len DEF Range
  <2>1. PICK i \in 1..(Len(s) - 1) : at(i) = n
    BY <1>5
  <2> QED BY <1>1, <1>2, <2>1 DEF Range
<1> QED BY <1>1, <1>6, <1>7, <1>8 DEF t

\* list_insert_after moves down everything behind the new element.
LEMMA InsertAtIs ==
    ASSUME NEW S, NEW s \in Seq(S), NEW k \in 1..Len(s), NEW e \in S
    PROVE  /\ InsertAt(s, k, e) \in Seq(S) /\ Len(InsertAt(s, k, e)) = Len(s) + 1
           /\ \A i \in 1..(k - 1) : InsertAt(s, k, e)[i] = s[i]
           /\ InsertAt(s, k, e)[k] = e
           /\ \A i \in k..Len(s) : InsertAt(s, k, e)[i + 1] = s[i]
<1> DEFINE front == SubSeq(s, 1, k - 1)
           rest == SubSeq(s, k, Len(s))
           head == front \o <<e>>
           t == InsertAt(s, k, e)
<1>len. Len(s) \in Nat /\ k \in Nat \ {0} /\ k <= Len(s)
  OBVIOUS
<1>front. /\ front \in Seq(S) /\ Len(front) = k - 1
          /\ \A i \in 1..(k - 1) : front[i] = s[i]
  BY <1>len
<1>rest. /\ rest \in Seq(S) /\ Len(rest) = Len(s) - k + 1
         /\ \A i \in 1..(Len(s) - k + 1) : rest[i] = s[k + i - 1]
  BY <1>len
<1>join. t = head \o rest
  BY DEF InsertAt
<1>one. <<e>> \in Seq(S) /\ Len(<<e>>) = 1 /\ <<e>>[1] = e
  OBVIOUS
<1> HIDE DEF front, rest, t
<1>head. /\ head \in Seq(S) /\ Len(head) = k
         /\ \A i \in 1..(k - 1) : head[i] = s[i]
         /\ head[k] = e
  <2>1. /\ head \in Seq(S) /\ Len(head) = (k - 1) + 1
        /\ \A i \in 1..((k - 1) + 1) : head[i] = IF i <= k - 1 THEN front[i] ELSE <<e>>[i - (k - 1)]
    BY <1>front, <1>one, ConcatProperties
  <2>2. (k - 1) + 1 = k /\ k - (k - 1) = 1 /\ k \in 1..k /\ ~(k <= k - 1)
    BY <1>len
  <2>3. \A i \in 1..(k - 1) : i \in 1..k /\ i <= k - 1
    BY <1>len
  <2> HIDE DEF head
  <2> QED BY <1>front, <1>one, <2>1, <2>2, <2>3
<1> HIDE DEF head
<1>1. /\ t \in Seq(S) /\ Len(t) = k + (Len(s) - k + 1)
      /\ \A i \in 1..(k + (Len(s) - k + 1)) : t[i] = IF i <= k THEN head[i] ELSE rest[i - k]
  <2>1. /\ t \in Seq(S) /\ Len(t) = Len(head) + Len(rest)
        /\ \A i \in 1..(Len(head) + Len(rest)) :
              t[i] = IF i <= Len(head) THEN head[i] ELSE rest[i - Len(head)]
    BY <1>head, <1>rest, <1>join, ConcatProperties, Zenon
  <2> QED BY <1>head, <1>rest, <2>1, Zenon
<1>2. k + (Len(s) - k + 1) = Len(s) + 1
  BY <1>len
<1>3. \A i \in 1..k : t[i] = head[i]
  <2> TAKE i \in 1..k
  <2>1. i \in 1..(Len(s) + 1) /\ i <= k
    BY <1>len
  <2> QED BY <1>1, <1>2, <2>1
<1>4. \A i \in 1..(k - 1) : t[i] = s[i]
  <2> TAKE i \in 1..(k - 1)
  <2>1. i \in 1..k
    BY <1>len
  <2> QED BY <1>3, <1>head, <2>1
<1>5. t[k] = e
  <2>1. k \in 1..k
    BY <1>len
  <2> QED BY <1>3, <1>head, <2>1
<1>6. \A i \in k..Len(s) : t[i + 1] = s[i]
  <2> TAKE i \in k..Len(s)
  <2>1. i + 1 \in 1..(Len(s) + 1) /\ ~(i + 1 <= k) /\ (i + 1) - k \in 1..(Len(s) - k + 1)
        /\ k + ((i + 1) - k) - 1 = i
    BY <1>len
  <2> QED BY <1>1, <1>2, <1>rest, <2>1
<1> QED BY <1>1, <1>2, <1>4, <1>5, <1>6 DEF t

\* A set of positions has a first one, which a foreach loop finds.
LEMMA MinIs ==
    ASSUME NEW S, S \subseteq Nat, S # {}
    PROVE  Min(S) \in S /\ \A x \in S : Min(S) <= x
<1> DEFINE R == {ss \in Nat \X Nat : ss[1] < ss[2]}
<1>0. IsWellFoundedOn(R, Nat)
  BY NatLessThanWellFounded, Zenon DEF OpToRel
<1>1. PICK x \in S : \A y \in S : ~(<<y, x>> \in R)
  <2> HIDE DEF R
  <2> QED BY <1>0, WFMin
<1>2. \A y \in S : x <= y
  <2> SUFFICES ASSUME NEW y \in S, y < x PROVE FALSE
    OBVIOUS
  <2>1. <<y, x>> \in Nat \X Nat /\ <<y, x>>[1] < <<y, x>>[2]
    OBVIOUS
  <2> QED BY <1>1, <2>1
<1> QED BY <1>2 DEF Min
=============================================================================
