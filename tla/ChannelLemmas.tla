---------------------------- MODULE ChannelLemmas ----------------------------
(***************************************************************************)
(* Go channels are modelled as sequences: a send appends, a receive takes  *)
(* the head.  These lemmas say what both do to the set of the channel's    *)
(* elements and to the fact that no element is in it twice; the last one   *)
(* is about taking out an element anywhere, as a cache does.               *)
(***************************************************************************)
EXTENDS Integers, Sequences, SequencesExt, SequenceTheorems, TLAPS

\* A send adds its element to the channel's content (every send of the code).
LEMMA SendContent ==
    ASSUME NEW S, NEW s \in Seq(S), NEW e \in S
    PROVE  /\ Append(s, e) \in Seq(S)
           /\ Len(Append(s, e)) = Len(s) + 1
           /\ ToSet(Append(s, e)) = ToSet(s) \cup {e}
<1> DEFINE a == Append(s, e)
<1>1. /\ a \in Seq(S) /\ Len(a) = Len(s) + 1
      /\ \A i \in 1 .. Len(s) : a[i] = s[i]
      /\ a[Len(s) + 1] = e
    BY AppendProperties
<1>2. DOMAIN a = 1 .. Len(s) + 1 /\ DOMAIN s = 1 .. Len(s) /\ Len(s) \in Nat
    BY <1>1
<1>3. ToSet(a) \subseteq ToSet(s) \cup {e}
    <2> SUFFICES ASSUME NEW i \in 1 .. Len(s) + 1
                 PROVE  a[i] \in ToSet(s) \cup {e}
        BY <1>2 DEF ToSet
    <2>1. CASE i = Len(s) + 1
        BY <2>1, <1>1
    <2>2. CASE i # Len(s) + 1
        <3>1. i \in 1 .. Len(s)
            BY <2>2, <1>2
        <3> QED BY <3>1, <1>1, <1>2 DEF ToSet
    <2> QED BY <2>1, <2>2
<1>4. ToSet(s) \cup {e} \subseteq ToSet(a)
    <2>1. e \in ToSet(a)
        <3>1. Len(s) + 1 \in 1 .. Len(s) + 1
            BY <1>2
        <3> QED BY <3>1, <1>1, <1>2 DEF ToSet
    <2>2. ASSUME NEW i \in 1 .. Len(s)
          PROVE  s[i] \in ToSet(a)
        <3>1. i \in 1 .. Len(s) + 1
            BY <1>2
        <3> QED BY <3>1, <1>1, <1>2 DEF ToSet
    <2> QED BY <2>1, <2>2, <1>2 DEF ToSet
<1> QED BY <1>1, <1>3, <1>4

\* A send of an element the channel does not hold keeps its elements distinct.
LEMMA SendInjective ==
    ASSUME NEW S, NEW s \in Seq(S), NEW e \in S,
           IsInjective(s), e \notin ToSet(s)
    PROVE  IsInjective(Append(s, e))
<1> DEFINE a == Append(s, e)
<1>1. /\ a \in Seq(S) /\ Len(a) = Len(s) + 1
      /\ \A i \in 1 .. Len(s) : a[i] = s[i]
      /\ a[Len(s) + 1] = e
    BY AppendProperties
<1>2. DOMAIN a = 1 .. Len(s) + 1 /\ DOMAIN s = 1 .. Len(s) /\ Len(s) \in Nat
    BY <1>1
<1>3. \A i \in 1 .. Len(s) : a[i] # e
    BY <1>1, <1>2 DEF ToSet
<1> SUFFICES ASSUME NEW i \in 1 .. Len(s) + 1, NEW j \in 1 .. Len(s) + 1, a[i] = a[j]
             PROVE  i = j
    BY <1>2 DEF IsInjective
<1>4. CASE i = Len(s) + 1 /\ j = Len(s) + 1
    BY <1>4
<1>5. CASE i = Len(s) + 1 /\ j \in 1 .. Len(s)
    BY <1>5, <1>1, <1>3
<1>6. CASE j = Len(s) + 1 /\ i \in 1 .. Len(s)
    BY <1>6, <1>1, <1>3
<1>7. CASE i \in 1 .. Len(s) /\ j \in 1 .. Len(s)
    BY <1>7, <1>1, <1>2 DEF IsInjective
<1> QED BY <1>2, <1>4, <1>5, <1>6, <1>7

\* A receive yields an element of the channel and leaves the others.
LEMMA ReceiveContent ==
    ASSUME NEW S, NEW s \in Seq(S), s # <<>>
    PROVE  /\ Head(s) \in S /\ Head(s) \in ToSet(s)
           /\ Tail(s) \in Seq(S) /\ Len(Tail(s)) = Len(s) - 1
           /\ ToSet(s) = ToSet(Tail(s)) \cup {Head(s)}
<1> DEFINE t == Tail(s)
<1>1. /\ Head(s) \in S /\ t \in Seq(S) /\ Len(t) = Len(s) - 1
      /\ \A i \in 1 .. Len(t) : t[i] = s[i + 1]
    BY HeadTailProperties
<1>2. Len(s) \in Nat /\ Len(s) >= 1 /\ Head(s) = s[1]
    <2>1. Len(s) \in Nat /\ Len(s) # 0
        BY EmptySeq
    <2> QED BY <2>1
<1>3. DOMAIN s = 1 .. Len(s) /\ DOMAIN t = 1 .. Len(s) - 1
    BY <1>1
<1>4. Head(s) \in ToSet(s)
    <2>1. 1 \in 1 .. Len(s)
        BY <1>2
    <2> QED BY <2>1, <1>2, <1>3 DEF ToSet
<1>5. ToSet(t) \subseteq ToSet(s)
    <2> SUFFICES ASSUME NEW i \in 1 .. Len(s) - 1
                 PROVE  t[i] \in ToSet(s)
        BY <1>3 DEF ToSet
    <2>1. i + 1 \in 1 .. Len(s) /\ t[i] = s[i + 1]
        BY <1>1, <1>2
    <2> QED BY <2>1, <1>3 DEF ToSet
<1>6. ToSet(s) \subseteq ToSet(t) \cup {Head(s)}
    <2> SUFFICES ASSUME NEW i \in 1 .. Len(s)
                 PROVE  s[i] \in ToSet(t) \cup {Head(s)}
        BY <1>3 DEF ToSet
    <2>1. CASE i = 1
        BY <2>1, <1>2
    <2>2. CASE i # 1
        <3>1. i - 1 \in 1 .. Len(s) - 1 /\ t[i - 1] = s[i]
            BY <2>2, <1>1, <1>2
        <3> QED BY <3>1, <1>3 DEF ToSet
    <2> QED BY <2>1, <2>2
<1> QED BY <1>1, <1>4, <1>5, <1>6

\* A receive from a channel of distinct elements takes its element away.
LEMMA ReceiveInjective ==
    ASSUME NEW S, NEW s \in Seq(S), s # <<>>, IsInjective(s)
    PROVE  IsInjective(Tail(s)) /\ Head(s) \notin ToSet(Tail(s))
<1> DEFINE t == Tail(s)
<1>1. /\ t \in Seq(S) /\ Len(t) = Len(s) - 1
      /\ \A i \in 1 .. Len(t) : t[i] = s[i + 1]
    BY HeadTailProperties
<1>2. Len(s) \in Nat /\ Len(s) >= 1 /\ Head(s) = s[1]
    <2>1. Len(s) \in Nat /\ Len(s) # 0
        BY EmptySeq
    <2> QED BY <2>1
<1>3. DOMAIN s = 1 .. Len(s) /\ DOMAIN t = 1 .. Len(s) - 1
    BY <1>1
<1>4. ASSUME NEW i \in 1 .. Len(s) - 1
      PROVE  i + 1 \in 1 .. Len(s) /\ t[i] = s[i + 1] /\ i + 1 # 1
    BY <1>1, <1>2
<1>5. IsInjective(t)
    <2> SUFFICES ASSUME NEW i \in 1 .. Len(s) - 1, NEW j \in 1 .. Len(s) - 1, t[i] = t[j]
                 PROVE  i = j
        BY <1>3 DEF IsInjective
    <2>1. i + 1 = j + 1
        BY <1>3, <1>4 DEF IsInjective
    <2> QED BY <2>1
<1>6. Head(s) \notin ToSet(t)
    <2> SUFFICES ASSUME NEW i \in 1 .. Len(s) - 1
                 PROVE  t[i] # Head(s)
        BY <1>3 DEF ToSet
    <2>1. 1 \in 1 .. Len(s)
        BY <1>2
    <2> QED BY <2>1, <1>2, <1>3, <1>4 DEF IsInjective
<1> QED BY <1>5, <1>6

\* An empty channel holds nothing.
LEMMA EmptyContent == ToSet(<<>>) = {} /\ IsInjective(<<>>)
BY DEF ToSet, IsInjective

\* Taking an entry out of the sequence leaves only entries that were in it.
LEMMA RemoveAtContent ==
    ASSUME NEW S, NEW s \in Seq(S), NEW k \in 1 .. Len(s)
    PROVE  /\ RemoveAt(s, k) \in Seq(S)
           /\ Len(RemoveAt(s, k)) = Len(s) - 1
           /\ ToSet(RemoveAt(s, k)) \subseteq ToSet(s)
<1> DEFINE a == SubSeq(s, 1, k - 1)
           b == SubSeq(s, k + 1, Len(s))
<1>1. Len(s) \in Nat /\ k \in Int /\ 1 <= k /\ k <= Len(s)
    BY LenProperties
<1>2. \A i \in 1 .. Len(s) : s[i] \in S
    BY ElementOfSeq
<1>3. /\ a \in Seq(S) /\ Len(a) = k - 1
      /\ \A i \in 1 .. k - 1 : a[i] = s[i]
    <2>1. \A i \in 1 .. k - 1 : s[i] \in S
        BY <1>1, <1>2
    <2>2. /\ a \in Seq(S) /\ Len(a) = IF 1 <= k - 1 THEN (k - 1) - 1 + 1 ELSE 0
          /\ \A i \in 1 .. (k - 1) - 1 + 1 : a[i] = s[1 + i - 1]
        BY <1>1, <2>1, SubSeqProperties
    <2> QED BY <1>1, <2>2
<1>4. /\ b \in Seq(S) /\ Len(b) = Len(s) - k
      /\ \A i \in 1 .. Len(s) - k : b[i] = s[k + i]
    <2>1. \A i \in k + 1 .. Len(s) : s[i] \in S
        BY <1>1, <1>2
    <2>2. /\ b \in Seq(S) /\ Len(b) = IF k + 1 <= Len(s) THEN Len(s) - (k + 1) + 1 ELSE 0
          /\ \A i \in 1 .. Len(s) - (k + 1) + 1 : b[i] = s[(k + 1) + i - 1]
        BY <1>1, <2>1, SubSeqProperties
    <2> QED BY <1>1, <2>2
<1>5. /\ a \o b \in Seq(S) /\ Len(a \o b) = Len(a) + Len(b)
      /\ \A i \in 1 .. Len(a) + Len(b) :
            (a \o b)[i] = IF i <= Len(a) THEN a[i] ELSE b[i - Len(a)]
    BY <1>3, <1>4, ConcatProperties
<1>6. RemoveAt(s, k) = a \o b
    BY DEF RemoveAt
<1> DEFINE r == a \o b
<1> HIDE DEF a, b
<1>7. ASSUME NEW i \in 1 .. Len(s) - 1
      PROVE  \E j \in 1 .. Len(s) : r[i] = s[j]
    <2>1. CASE i <= k - 1
        <3>1. r[i] = s[i] /\ i \in 1 .. Len(s)
            BY <1>1, <1>3, <1>4, <1>5, <2>1
        <3> QED BY <3>1
    <2>2. CASE i > k - 1
        <3>1. r[i] = b[i - (k - 1)] /\ i - (k - 1) \in 1 .. Len(s) - k
            BY <1>1, <1>3, <1>4, <1>5, <2>2
        <3>2. r[i] = s[i + 1] /\ i + 1 \in 1 .. Len(s)
            BY <1>1, <1>4, <3>1
        <3> QED BY <3>2
    <2>3. i <= k - 1 \/ i > k - 1
        BY <1>1
    <2> QED BY <2>1, <2>2, <2>3
<1>8. r \in Seq(S) /\ Len(r) = Len(s) - 1
    BY <1>1, <1>3, <1>4, <1>5
<1> HIDE DEF r
<1>9. DOMAIN r = 1 .. Len(s) - 1 /\ DOMAIN s = 1 .. Len(s)
    BY <1>8, LenProperties
<1>10. ToSet(r) \subseteq ToSet(s)
    BY <1>7, <1>9 DEF ToSet
<1> QED BY <1>6, <1>8, <1>10 DEF r
=============================================================================
