----------------------------- MODULE QueueLemmas -----------------------------
(***************************************************************************)
(* What the proofs about channels, sockets and plans need of sequences: what *)
(* a queue holds when an element is put in, taken out or dropped, and where  *)
(* the elements are in sequences that are joined.                           *)
(***************************************************************************)
EXTENDS Sequences, Integers, SequenceTheorems, TLAPS

(* A queue without its first element holds the others, in their order. *)
LEMMA Dequeued ==
    ASSUME NEW S, NEW s \in Seq(S), s # <<>>
    PROVE  /\ Tail(s) \in Seq(S) /\ Head(s) \in S /\ Head(s) = s[1]
           /\ Len(s) \in Nat \ {0} /\ Len(Tail(s)) = Len(s) - 1
           /\ \A i \in 1..(Len(s) - 1) : Tail(s)[i] = s[i + 1]
           /\ Tail(s) = <<>> <=> Len(s) = 1
  <1>1. Len(s) \in Nat \ {0} /\ Head(s) = s[1]
    BY EmptySeq
  <1>2. Tail(s) = <<>> <=> Len(Tail(s)) = 0
    BY HeadTailProperties, EmptySeq
  <1> QED BY <1>1, <1>2, HeadTailProperties

(* An element goes behind those that the queue holds. *)
LEMMA Enqueued ==
    ASSUME NEW S, NEW s \in Seq(S), NEW e \in S
    PROVE  /\ Append(s, e) \in Seq(S) /\ Append(s, e) # <<>>
           /\ Len(s) \in Nat /\ Len(Append(s, e)) = Len(s) + 1
           /\ \A i \in 1..Len(s) : Append(s, e)[i] = s[i]
           /\ Append(s, e)[Len(s) + 1] = e
           /\ s = <<>> <=> Len(s) = 0
  BY AppendProperties, EmptySeq, LenProperties

(* What follows from two queues in a row is in the one or in the other. *)
LEMMA InConcat ==
    ASSUME NEW S, NEW s \in Seq(S), NEW t \in Seq(S), NEW i \in 1..Len(s \o t)
    PROVE  \/ i \in 1..Len(s) /\ (s \o t)[i] = s[i]
           \/ i - Len(s) \in 1..Len(t) /\ (s \o t)[i] = t[i - Len(s)]
  <1>1. Len(s) \in Nat /\ Len(t) \in Nat /\ Len(s \o t) = Len(s) + Len(t)
    BY ConcatProperties, LenProperties
  <1>2. (s \o t)[i] = IF i <= Len(s) THEN s[i] ELSE t[i - Len(s)]
    BY <1>1, ConcatProperties
  <1>3. i \in 1..Len(s) \/ (~(i <= Len(s)) /\ i - Len(s) \in 1..Len(t))
    BY <1>1
  <1> QED BY <1>1, <1>2, <1>3

(* Where the elements of two sequences are in the one that joins them.      *)
LEMMA ConcatAt ==
    ASSUME NEW S, NEW s \in Seq(S), NEW t \in Seq(S), NEW n, n = Len(s), NEW m, m = Len(t),
           NEW i, NEW j
    PROVE  /\ i \in 1..n => (s \o t)[i] = s[i]
           /\ i \in 1..m /\ j = n + i => (s \o t)[j] = t[i]
  <1>1. n \in Nat /\ m \in Nat
    OBVIOUS
  <1>2. ASSUME i \in 1..n
        PROVE  (s \o t)[i] = s[i]
    <2>1. i \in 1..Len(s) + Len(t) /\ i <= Len(s)
      BY <1>1, <1>2
    <2> QED BY <2>1, ConcatProperties
  <1>3. ASSUME i \in 1..m, j = n + i
        PROVE  (s \o t)[j] = t[i]
    <2>1. j \in 1..Len(s) + Len(t) /\ ~(j <= Len(s)) /\ j - Len(s) = i
      BY <1>1, <1>3
    <2> QED BY <2>1, ConcatProperties
  <1> QED BY <1>2, <1>3

(* Where they are when an element comes before both.                         *)
LEMMA ConcatAround ==
    ASSUME NEW A, NEW h \in A, NEW s \in Seq(A), NEW t \in Seq(A),
           NEW m, m = Len(s), NEW P, P = (<<h>> \o s) \o t
    PROVE  /\ m \in Nat /\ P \in Seq(A) /\ Len(P) = m + 1 + Len(t)
           /\ P[1] = h
           /\ \A i \in 1..m : P[i + 1] = s[i]
           /\ \A i \in 1..Len(t) : P[m + 1 + i] = t[i]
  <1>1. <<h>> \in Seq(A) /\ Len(<<h>>) = 1 /\ <<h>>[1] = h /\ m \in Nat
    OBVIOUS
  <1>2. /\ <<h>> \o s \in Seq(A) /\ Len(<<h>> \o s) = m + 1
        /\ (<<h>> \o s)[1] = h
    BY <1>1, ConcatProperties
  <1>3. P \in Seq(A) /\ Len(P) = m + 1 + Len(t)
    BY <1>1, <1>2, ConcatProperties
  <1>4. ASSUME NEW i \in 1..m
        PROVE  P[i + 1] = s[i]
    <2>1. /\ i \in 1..Len(s) /\ i + 1 = Len(<<h>>) + i
          /\ i + 1 \in 1..Len(<<h>> \o s) /\ 1 \in 1..Len(<<h>> \o s)
      BY <1>1, <1>2
    <2>2. (<<h>> \o s)[i + 1] = s[i]
      BY <1>1, <2>1, ConcatAt
    <2> QED BY <1>2, <2>1, <2>2, ConcatAt
  <1>5. P[1] = h
    <2>1. 1 \in 1..(m + 1)
      BY <1>1
    <2> QED BY <1>2, <2>1, ConcatAt
  <1>6. ASSUME NEW i \in 1..Len(t)
        PROVE  P[m + 1 + i] = t[i]
    BY <1>1, <1>2, ConcatAt
  <1> QED BY <1>1, <1>3, <1>4, <1>5, <1>6

(* A queue whose first n elements are dropped is a queue of the rest. *)
LEMMA Dropped ==
    ASSUME NEW S, NEW s \in Seq(S), NEW n \in 0..Len(s)
    PROVE  /\ SubSeq(s, n + 1, Len(s)) \in Seq(S)
           /\ Len(SubSeq(s, n + 1, Len(s))) = Len(s) - n
           /\ \A i \in 1..(Len(s) - n) : SubSeq(s, n + 1, Len(s))[i] = s[n + i]
  <1>1. Len(s) \in Nat /\ n \in Int /\ n + 1 \in Int /\ Len(s) \in Int
    BY LenProperties
  <1>2. \A i \in (n + 1)..Len(s) : s[i] \in S
    BY <1>1, ElementOfSeq
  <1>3. /\ SubSeq(s, n + 1, Len(s)) \in Seq(S)
        /\ Len(SubSeq(s, n + 1, Len(s))) =
               IF n + 1 <= Len(s) THEN Len(s) - (n + 1) + 1 ELSE 0
        /\ \A i \in 1..(Len(s) - (n + 1) + 1) :
               SubSeq(s, n + 1, Len(s))[i] = s[(n + 1) + i - 1]
    BY <1>1, <1>2, SubSeqProperties
  <1> QED BY <1>1, <1>3
=============================================================================
