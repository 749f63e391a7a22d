---------------------------- MODULE ChannelLemmas ----------------------------
(***************************************************************************)
(* Facts about sequences that move through channels, for StakeHub_proofs.  *)
(***************************************************************************)
EXTENDS Naturals, Sequences, SequenceTheorems, TLAPS

Prefix(s, t) ==
    /\ Len(s) <= Len(t)
    /\ \A n \in 1..Len(s) : s[n] = t[n]

\* Moving the head of a sequence to the end of the one before it leaves
\* their concatenation alone: what a channel operation does.
LEMMA MoveHead ==
    ASSUME NEW S, NEW s \in Seq(S), NEW t \in Seq(S), t # <<>>
    PROVE  /\ Append(s, Head(t)) \in Seq(S)
           /\ Tail(t) \in Seq(S)
           /\ Append(s, Head(t)) \o Tail(t) = s \o t
<1>1. Head(t) \in S /\ Tail(t) \in Seq(S) /\ Len(t) \in Nat \ {0}
  BY HeadTailProperties, EmptySeq
<1>2. t = <<Head(t)>> \o Tail(t)
  <2>1. SubSeq(t, 1, Len(t)) = <<t[1]>> \o SubSeq(t, 2, Len(t))
    BY <1>1, SubSeqRecursiveFirst
  <2>2. SubSeq(t, 1, Len(t)) = t /\ Tail(t) = SubSeq(t, 2, Len(t))
    BY SubSeqFull, TailIsSubSeq
  <2>3. Head(t) = t[1]
    BY HeadTailOfSubSeq, SubSeqFull, <1>1
  <2> QED BY <2>1, <2>2, <2>3
<1>3. Append(s, Head(t)) \in Seq(S) /\ Append(s, Head(t)) = s \o <<Head(t)>>
  BY <1>1, AppendProperties, AppendIsConcat
<1> DEFINE h == <<Head(t)>>
           v == Tail(t)
<1>4. h \in Seq(S) /\ v \in Seq(S)
  BY <1>1
<1> HIDE DEF h, v
<1>5. (s \o h) \o v = s \o (h \o v)
  BY <1>4, ConcatAssociative, SMTT(60)
<1> QED BY <1>1, <1>2, <1>3, <1>5 DEF h, v

\* Associativity, from right to left.
LEMMA Associate ==
    ASSUME NEW S, NEW u \in Seq(S), NEW v \in Seq(S), NEW t \in Seq(S)
    PROVE  u \o (v \o t) = (u \o v) \o t
BY ConcatAssociative

\* The last of four concatenated sequences set apart.
LEMMA AssociateLast ==
    ASSUME NEW S, NEW g \in Seq(S), NEW h \in Seq(S), NEW l \in Seq(S), NEW f \in Seq(S)
    PROVE  g \o (h \o (l \o f)) = (g \o (h \o l)) \o f
<1>1. PICK m \in Seq(S) : m = h \o l
  BY ConcatProperties
<1>2. h \o (l \o f) = m \o f
  BY <1>1, Associate
<1>3. g \o (m \o f) = (g \o m) \o f
  BY Associate, SMTT(60)
<1> QED BY <1>1, <1>2, <1>3

\* What is appended to equal concatenations may be associated to the right.
LEMMA ConcatBoth ==
    ASSUME NEW S, NEW u \in Seq(S), NEW v \in Seq(S), NEW r \in Seq(S),
           NEW s \in Seq(S), NEW t \in Seq(S)
    PROVE  u \o v = r \o s => u \o (v \o t) = r \o (s \o t)
<1>1. u \o (v \o t) = (u \o v) \o t
  BY Associate, SMTT(60)
<1>2. r \o (s \o t) = (r \o s) \o t
  BY Associate, SMTT(60)
<1> QED BY <1>1, <1>2

\* The same through three sequences, for a head that leaves the second one.
LEMMA MoveHeadThrough ==
    ASSUME NEW S, NEW r \in Seq(S), NEW s \in Seq(S), NEW t \in Seq(S), s # <<>>
    PROVE  Append(r, Head(s)) \o (Tail(s) \o t) = r \o (s \o t)
<1>1. /\ Append(r, Head(s)) \in Seq(S)
      /\ Tail(s) \in Seq(S)
      /\ Append(r, Head(s)) \o Tail(s) = r \o s
  BY MoveHead
<1> QED BY <1>1, ConcatBoth

\* Appending to the last of two sequences.
LEMMA AppendLast ==
    ASSUME NEW S, NEW s \in Seq(S), NEW t \in Seq(S), NEW e \in S
    PROVE  s \o Append(t, e) = Append(s \o t, e)
<1>1. s \o t \in Seq(S) /\ <<e>> \in Seq(S)
  BY ConcatProperties
<1>2. Append(t, e) = t \o <<e>> /\ Append(s \o t, e) = (s \o t) \o <<e>>
  BY <1>1, AppendIsConcat
<1> QED BY <1>1, <1>2, ConcatAssociative

\* A sequence is a prefix of itself, and of what is appended to it.
LEMMA PrefixAppend ==
    ASSUME NEW S, NEW s \in Seq(S), NEW t \in Seq(S), Prefix(s, t), NEW e \in S
    PROVE  Prefix(s, t) /\ Prefix(s, Append(t, e))
<1>1. /\ Len(Append(t, e)) = Len(t) + 1
      /\ \A i \in 1..Len(t) : Append(t, e)[i] = t[i]
  BY AppendProperties
<1>2. Len(s) \in Nat /\ Len(t) \in Nat
  OBVIOUS
<1> QED BY <1>1, <1>2 DEF Prefix

\* The first of two concatenated sequences is a prefix of both.
LEMMA PrefixConcat ==
    ASSUME NEW S, NEW s \in Seq(S), NEW t \in Seq(S), NEW u \in Seq(S),
           Prefix(s \o t, u)
    PROVE  Prefix(s, u)
<1>1. /\ Len(s \o t) = Len(s) + Len(t)
      /\ \A i \in 1..Len(s) + Len(t) :
             (s \o t)[i] = IF i <= Len(s) THEN s[i] ELSE t[i - Len(s)]
  BY ConcatProperties
<1>2. Len(s) \in Nat /\ Len(t) \in Nat /\ Len(u) \in Nat
  OBVIOUS
<1>3. ASSUME NEW i \in 1..Len(s) PROVE s[i] = u[i]
  <2>1. i \in 1..Len(s) + Len(t) /\ i <= Len(s)
    BY <1>2
  <2> QED BY <2>1, <1>1 DEF Prefix
<1>4. Len(s) <= Len(u)
  BY <1>1, <1>2 DEF Prefix
<1> QED BY <1>3, <1>4 DEF Prefix

\* The head of a concatenation is the head of its first part.
LEMMA HeadOfConcat ==
    ASSUME NEW S, NEW s \in Seq(S), NEW t \in Seq(S), s # <<>>
    PROVE  s \o t \in Seq(S) /\ s \o t # <<>> /\ Head(s \o t) = Head(s)
<1>1. /\ s \o t \in Seq(S)
      /\ Len(s \o t) = Len(s) + Len(t)
      /\ \A i \in 1..Len(s) + Len(t) :
             (s \o t)[i] = IF i <= Len(s) THEN s[i] ELSE t[i - Len(s)]
  BY ConcatProperties
<1>2. Len(s) \in Nat \ {0} /\ Len(t) \in Nat
  BY EmptySeq
<1>3. 1 \in 1..Len(s) + Len(t) /\ 1 <= Len(s) /\ Len(s) + Len(t) # 0
  BY <1>2
<1>4. (s \o t)[1] = s[1] /\ s \o t # <<>>
  BY <1>1, <1>3, EmptySeq
<1>5. Head(s) = s[1] /\ Head(s \o t) = (s \o t)[1]
  BY <1>1, <1>4
<1> QED BY <1>1, <1>4, <1>5

\* What a pipe loses at its far end leaves a prefix.
LEMMA PrefixWithoutLast ==
    ASSUME NEW S, NEW g \in Seq(S), NEW h \in Seq(S), NEW l \in Seq(S),
           NEW f \in Seq(S)
    PROVE  \A u \in Seq(S) :
               Prefix(g \o (h \o (l \o f)), u) => Prefix(g \o (h \o (l \o <<>>)), u)
<1>1. g \o (h \o (l \o f)) = (g \o (h \o l)) \o f
  BY AssociateLast, SMTT(60)
<1>2. g \o (h \o l) \in Seq(S)
  <2>1. h \o l \in Seq(S)
    BY ConcatProperties
  <2> QED BY <2>1, ConcatProperties
<1>3. \A m, u \in Seq(S) : Prefix(m \o f, u) => Prefix(m, u)
  BY PrefixConcat
<1>4. l \o <<>> = l
  BY ConcatEmptySeq
<1> QED BY <1>1, <1>2, <1>3, <1>4, Zenon

\* The head of what follows s in a prefix of u is the next element of u.
LEMMA NextOfPrefix ==
    ASSUME NEW S, NEW s \in Seq(S), NEW t \in Seq(S), NEW u \in Seq(S),
           t # <<>>, Prefix(s \o t, u)
    PROVE  Len(s) < Len(u) /\ Head(t) = u[Len(s) + 1]
<1>1. /\ Len(s \o t) = Len(s) + Len(t)
      /\ \A i \in 1..Len(s) + Len(t) :
             (s \o t)[i] = IF i <= Len(s) THEN s[i] ELSE t[i - Len(s)]
  BY ConcatProperties
<1>2. Len(s) \in Nat /\ Len(t) \in Nat \ {0} /\ Len(u) \in Nat /\ Head(t) = t[1]
  BY EmptySeq
<1>3. Len(s) + 1 \in 1..Len(s) + Len(t)
  BY <1>2
<1>4. (s \o t)[Len(s) + 1] = t[1]
  BY <1>1, <1>2, <1>3
<1> QED BY <1>1, <1>2, <1>3, <1>4 DEF Prefix

Suffix(s, n) == SubSeq(s, n + 1, Len(s))

\* A suffix grows with its sequence.
LEMMA SuffixAppend ==
    ASSUME NEW S, NEW s \in Seq(S), NEW n \in 0..Len(s), NEW e \in S
    PROVE  /\ Suffix(s, n) \in Seq(S)
           /\ Suffix(Append(s, e), n) = Append(Suffix(s, n), e)
<1> DEFINE t == Append(s, e)
<1>1. /\ t \in Seq(S)
      /\ Len(t) = Len(s) + 1
      /\ \A i \in 1..Len(s) : t[i] = s[i]
      /\ t[Len(s) + 1] = e
  BY AppendProperties
<1> HIDE DEF t
<1>2. Len(s) \in Nat /\ n \in Nat /\ n <= Len(s)
  OBVIOUS
<1>3. ASSUME NEW i \in (n + 1)..Len(s) PROVE i \in 1..Len(s) /\ s[i] \in S
  BY <1>2
<1>4. /\ Suffix(s, n) \in Seq(S)
      /\ Len(Suffix(s, n)) = Len(s) - n
      /\ \A i \in 1..Len(s) - n : Suffix(s, n)[i] = s[n + i]
  <2>1. /\ SubSeq(s, n + 1, Len(s)) \in Seq(S)
        /\ Len(SubSeq(s, n + 1, Len(s))) = IF n + 1 <= Len(s) THEN Len(s) - (n + 1) + 1 ELSE 0
        /\ \A i \in 1..Len(s) - (n + 1) + 1 :
               SubSeq(s, n + 1, Len(s))[i] = s[n + 1 + i - 1]
    BY <1>2, <1>3, SubSeqProperties
  <2> QED BY <2>1, <1>2 DEF Suffix
<1>5. SubSeq(t, n + 1, Len(t)) = SubSeq(t, n + 1, Len(s)) \o <<t[Len(s) + 1]>>
  <2>1. n + 1 \in 1..Len(t) /\ Len(t) \in (n + 1)..Len(t) /\ Len(t) - 1 = Len(s)
    BY <1>1, <1>2
  <2> QED BY <2>1, <1>1, SubSeqRecursiveSecond
<1>6. SubSeq(t, n + 1, Len(s)) = SubSeq(s, n + 1, Len(s))
  <2>1. /\ SubSeq(t, n + 1, Len(s)) \in Seq(S)
        /\ Len(SubSeq(t, n + 1, Len(s))) = IF n + 1 <= Len(s) THEN Len(s) - (n + 1) + 1 ELSE 0
        /\ \A i \in 1..Len(s) - (n + 1) + 1 :
               SubSeq(t, n + 1, Len(s))[i] = t[n + 1 + i - 1]
    <3>1. \A i \in (n + 1)..Len(s) : t[i] \in S
      BY <1>1, <1>3
    <3> QED BY <3>1, <1>2, SubSeqProperties
  <2>2. Len(SubSeq(t, n + 1, Len(s))) = Len(s) - n
    BY <2>1, <1>2
  <2>3. ASSUME NEW i \in 1..Len(s) - n
        PROVE  SubSeq(t, n + 1, Len(s))[i] = Suffix(s, n)[i]
    <3>1. n + 1 + i - 1 = n + i /\ n + i \in 1..Len(s) /\ Len(s) - (n + 1) + 1 = Len(s) - n
      BY <1>2
    <3>2. SubSeq(t, n + 1, Len(s))[i] = t[n + i]
      BY <2>1, <3>1
    <3> QED BY <3>1, <3>2, <1>1, <1>4
  <2>4. SubSeq(t, n + 1, Len(s)) = Suffix(s, n)
    BY <2>1, <2>2, <2>3, <1>4, SeqEqual
  <2> QED BY <2>4 DEF Suffix
<1>7. Suffix(s, n) \o <<e>> = Append(Suffix(s, n), e)
  BY <1>4, AppendIsConcat
<1> QED BY <1>1, <1>4, <1>5, <1>6, <1>7 DEF Suffix, t
=============================================================================
