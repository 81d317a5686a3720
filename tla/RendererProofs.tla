---- MODULE RendererProofs ----
(***************************************************************************)
(* Proofs about a window on the bus, for any requests, tasks and bounds:   *)
(* the invariant of RendererInvariant, and with it what Renderer promises. *)
(*                                                                         *)
(* Every step does one of three things to each direction of the channel:   *)
(* it leaves it, it adds messages at the end, or it takes the first.  What *)
(* that does to the number of messages of a kind, and to the one before a  *)
(* place, is told once, for any sequence; the actions then need no more    *)
(* than what they send and take.                                           *)
(***************************************************************************)
EXTENDS RendererInvariant, FiniteSetTheorems, FunctionTheorems, SequenceTheorems,
        NaturalsInduction, WellFoundedInduction, TLAPS

-----------------------------------------------------------------------------
(* Sequences of messages                                                    *)

\* A sequence with one more at the end.
LEMMA Appended ==
  ASSUME NEW S, NEW s \in Seq(S), NEW m \in S
  PROVE  /\ Len(s) \in Nat /\ DOMAIN s = 1..Len(s)
         /\ Append(s, m) \in Seq(S) /\ Len(Append(s, m)) = Len(s) + 1
         /\ DOMAIN Append(s, m) = 1..(Len(s) + 1)
         /\ \A k \in 1..Len(s) : Append(s, m)[k] = s[k]
         /\ Append(s, m)[Len(s) + 1] = m
  BY LenProperties, AppendProperties

\* A sequence without its first.
LEMMA Shifted ==
  ASSUME NEW S, NEW s \in Seq(S), s # <<>>
  PROVE  /\ Len(s) \in Nat \ {0} /\ DOMAIN s = 1..Len(s) /\ Head(s) = s[1] /\ Head(s) \in S
         /\ Tail(s) \in Seq(S) /\ Len(Tail(s)) = Len(s) - 1 /\ DOMAIN Tail(s) = 1..(Len(s) - 1)
         /\ \A k \in 1..(Len(s) - 1) : Tail(s)[k] = s[k + 1]
  <1>1. Len(s) \in Nat \ {0} /\ DOMAIN s = 1..Len(s)
    BY LenProperties, EmptySeq
  <1>2. Head(s) = s[1] /\ Head(s) \in S
    BY <1>1, HeadTailProperties
  <1>3. /\ Tail(s) \in Seq(S) /\ Len(Tail(s)) = Len(s) - 1
        /\ \A i \in 1..Len(Tail(s)) : Tail(s)[i] = s[i + 1]
    BY HeadTailProperties
  <1>4. DOMAIN Tail(s) = 1..(Len(s) - 1)
    BY <1>3, LenProperties
  <1> QED BY <1>1, <1>2, <1>3, <1>4

\* Two more are one more twice.
LEMMA TwoMore ==
  ASSUME NEW S, NEW s \in Seq(S), NEW a \in S, NEW b \in S
  PROVE  s \o <<a, b>> = Append(Append(s, a), b)
  <1> DEFINE l == s \o <<a, b>>
             d == Append(s, a)
             e == Append(d, b)
  <1>1. Len(s) \in Nat /\ <<a, b>> \in Seq(S) /\ Len(<<a, b>>) = 2 /\ <<a, b>>[1] = a /\ <<a, b>>[2] = b
    BY LenProperties
  <1>2. /\ l \in Seq(S) /\ Len(l) = Len(s) + 2
        /\ \A k \in 1..(Len(s) + 2) : l[k] = IF k <= Len(s) THEN s[k] ELSE <<a, b>>[k - Len(s)]
    BY <1>1, ConcatProperties
  <1>3. /\ d \in Seq(S) /\ Len(d) = Len(s) + 1
        /\ \A k \in 1..Len(s) : d[k] = s[k]
        /\ d[Len(s) + 1] = a
    BY Appended
  <1> HIDE DEF d, l
  <1>4. /\ e \in Seq(S) /\ Len(e) = Len(d) + 1
        /\ \A k \in 1..Len(d) : e[k] = d[k]
        /\ e[Len(d) + 1] = b
    BY <1>3, Appended
  <1> HIDE DEF e
  <1>5. ASSUME NEW k \in 1..(Len(s) + 2) PROVE l[k] = e[k]
    <2>0. /\ \A n \in Nat : n + 1 - n = 1 /\ n + 2 - n = 2 /\ ~(n + 1 <= n) /\ ~(n + 2 <= n)
          /\ Len(d) + 1 = Len(s) + 2
      BY <1>1, <1>3
    <2>1. CASE k <= Len(s)
      <3>1. l[k] = s[k]
        BY <1>2, <2>1
      <3>2. k \in 1..Len(s) /\ k \in 1..Len(d)
        BY <1>1, <1>3, <2>1
      <3> QED BY <1>3, <1>4, <3>1, <3>2
    <2>2. CASE k = Len(s) + 1
      <3>1. l[k] = a
        BY <1>1, <1>2, <2>0, <2>2
      <3>2. e[k] = d[k]
        BY <1>1, <1>3, <1>4, <2>2
      <3> QED BY <1>3, <2>2, <3>1, <3>2
    <2>3. CASE k = Len(s) + 2
      <3>1. l[k] = b
        BY <1>1, <1>2, <2>0, <2>3
      <3> QED BY <1>4, <2>0, <2>3, <3>1
    <2> QED BY <1>1, <2>1, <2>2, <2>3
  <1>6. Len(l) = Len(e)
    BY <1>1, <1>2, <1>3, <1>4
  <1>7. l = e
    BY <1>1, <1>2, <1>4, <1>5, <1>6, SeqEqual
  <1> QED BY <1>7 DEF d, e, l

\* How many messages of a kind there are.
LEMMA CountType ==
  ASSUME NEW S, NEW s \in Seq(S), NEW M
  PROVE  /\ Count(s, M) \in Nat /\ IsFiniteSet({k \in DOMAIN s : s[k] \in M})
         /\ Count(s, M) = 0 <=> \A k \in DOMAIN s : s[k] \notin M
  <1> DEFINE P == {k \in DOMAIN s : s[k] \in M}
  <1>1. Len(s) \in Nat /\ DOMAIN s = 1..Len(s)
    BY LenProperties
  <1>2. IsFiniteSet(1..Len(s))
    BY <1>1, FS_Interval
  <1>3. IsFiniteSet(P)
    BY <1>1, <1>2, FS_Subset
  <1>4. Cardinality(P) \in Nat /\ (Cardinality(P) = 0 <=> P = {})
    BY <1>3, FS_CardinalityType, FS_EmptySet
  <1> QED BY <1>3, <1>4 DEF Count

LEMMA CountEmpty ==
  ASSUME NEW M
  PROVE  Count(<<>>, M) = 0
  <1>1. {k \in DOMAIN <<>> : <<>>[k] \in M} = {}
    OBVIOUS
  <1> QED BY <1>1, FS_EmptySet DEF Count

LEMMA CountAppend ==
  ASSUME NEW S, NEW s \in Seq(S), NEW m \in S, NEW M
  PROVE  Count(Append(s, m), M) = Count(s, M) + IF m \in M THEN 1 ELSE 0
  <1> DEFINE P == {k \in DOMAIN s : s[k] \in M}
             Q == {k \in DOMAIN Append(s, m) : Append(s, m)[k] \in M}
  <1>0. Count(s, M) = Cardinality(P) /\ Count(Append(s, m), M) = Cardinality(Q)
    BY DEF Count
  <1>1. /\ Len(s) \in Nat /\ DOMAIN s = 1..Len(s) /\ DOMAIN Append(s, m) = 1..(Len(s) + 1)
        /\ \A k \in 1..Len(s) : Append(s, m)[k] = s[k]
        /\ Append(s, m)[Len(s) + 1] = m
    BY Appended
  <1>2. IsFiniteSet(P) /\ Cardinality(P) \in Nat
    BY CountType DEF Count
  <1>3. CASE m \in M
    <2>1. Q = P \cup {Len(s) + 1} /\ Len(s) + 1 \notin P
      BY <1>1, <1>3
    <2>2. Cardinality(P \cup {Len(s) + 1}) = Cardinality(P) + 1
      BY <2>1, <1>2, FS_AddElement
    <2> HIDE DEF P, Q
    <2> QED BY <1>0, <1>2, <1>3, <2>1, <2>2
  <1>4. CASE m \notin M
    <2>1. Q = P
      BY <1>1, <1>4
    <2> HIDE DEF P, Q
    <2> QED BY <1>0, <1>2, <1>4, <2>1
  <1> QED BY <1>3, <1>4

LEMMA CountTail ==
  ASSUME NEW S, NEW s \in Seq(S), s # <<>>, NEW M
  PROVE  Count(s, M) = Count(Tail(s), M) + IF Head(s) \in M THEN 1 ELSE 0
  <1> DEFINE P == {k \in DOMAIN s : s[k] \in M}
             T == {k \in DOMAIN Tail(s) : Tail(s)[k] \in M}
             f == [k \in T |-> k + 1]
  <1>0. Count(s, M) = Cardinality(P) /\ Count(Tail(s), M) = Cardinality(T)
    BY DEF Count
  <1>1. /\ Len(s) \in Nat \ {0} /\ DOMAIN s = 1..Len(s) /\ Head(s) = s[1]
        /\ Tail(s) \in Seq(S) /\ DOMAIN Tail(s) = 1..(Len(s) - 1)
        /\ \A k \in 1..(Len(s) - 1) : Tail(s)[k] = s[k + 1]
    BY Shifted
  <1>2. IsFiniteSet(P) /\ IsFiniteSet(T) /\ Cardinality(P) \in Nat /\ Cardinality(T) \in Nat
    BY <1>1, CountType DEF Count
  <1>3. f \in [T -> P \ {1}]
    BY <1>1
  <1>4. \A a, b \in T : f[a] = f[b] => a = b
    BY <1>1
  <1>5. \A p \in P \ {1} : \E k \in T : f[k] = p
    <2> SUFFICES ASSUME NEW p \in P \ {1} PROVE \E k \in T : f[k] = p
      OBVIOUS
    <2>1. p - 1 \in 1..(Len(s) - 1) /\ (p - 1) + 1 = p /\ s[p] \in M
      BY <1>1
    <2>2. p - 1 \in T
      BY <1>1, <2>1
    <2> QED BY <2>1, <2>2
  <1>6. ExistsBijection(T, P \ {1})
    <2>1. f \in Bijection(T, P \ {1})
      BY <1>3, <1>4, <1>5, Fun_IsBij
    <2> QED BY <2>1, Fun_ExistsBij
  <1>7. Cardinality(P \ {1}) = Cardinality(T)
    BY <1>2, <1>6, FS_Bijection
  <1>8. Cardinality(P \ {1}) = IF 1 \in P THEN Cardinality(P) - 1 ELSE Cardinality(P)
    BY <1>2, FS_RemoveElement
  <1>9. 1 \in P <=> Head(s) \in M
    BY <1>1
  <1> HIDE DEF P, T, f
  <1> QED BY <1>0, <1>2, <1>7, <1>8, <1>9

-----------------------------------------------------------------------------
(* The message before a place                                               *)

\* Adding a message leaves what stands before the others.
LEMMA ReachesStays ==
  ASSUME NEW S, NEW q \in Seq(S), NEW m \in S, NEW i, NEW h, NEW n,
         NEW k \in 1..(Len(q) + 1), Reaches(q, i, k, h, n)
  PROVE  Reaches(Append(q, m), i, k, h, n)
  <1>1. Len(q) \in Nat /\ \A b \in 1..(k - 1) : Append(q, m)[b] = q[b]
    BY Appended
  <1> QED BY <1>1 DEF Reaches

\* Behind a chunk comes what it leads to, behind any other message what was due
\* before.
LEMMA ReachesNext ==
  ASSUME NEW S, NEW q \in Seq(S), NEW m \in S, NEW i, NEW h, NEW n,
         IF IsChunkOf(m, i) THEN n = Last(m.val).n ELSE Reaches(q, i, Len(q) + 1, h, n)
  PROVE  Reaches(Append(q, m), i, Len(q) + 2, h, n)
  <1> DEFINE p == Append(q, m)
  <1>1. /\ Len(q) \in Nat /\ p[Len(q) + 1] = m /\ \A b \in 1..Len(q) : p[b] = q[b]
        /\ (Len(q) + 2) - 1 = Len(q) + 1 /\ (Len(q) + 1) - 1 = Len(q)
    BY Appended
  <1> HIDE DEF p
  <1>2. CASE IsChunkOf(m, i)
    <2>1. ~(\A b \in 1..(Len(q) + 1) : ~IsChunkOf(p[b], i))
      BY <1>1, <1>2
    <2>2. ASSUME NEW b \in 1..(Len(q) + 1), \A c \in (b + 1)..(Len(q) + 1) : ~IsChunkOf(p[c], i)
          PROVE  n = Last(p[b].val).n
      <3>1. b = Len(q) + 1
        BY <1>1, <1>2, <2>2
      <3> QED BY <1>1, <1>2, <3>1
    <2>3. Reaches(p, i, Len(q) + 2, h, n)
      BY <1>1, <2>1, <2>2 DEF Reaches
    <2> QED BY <2>3 DEF p
  <1>3. CASE ~IsChunkOf(m, i)
    <2>1. Reaches(q, i, Len(q) + 1, h, n)
      BY <1>3
    <2>2. (\A b \in 1..(Len(q) + 1) : ~IsChunkOf(p[b], i)) => n = h
      BY <1>1, <2>1 DEF Reaches
    <2>3. ASSUME NEW b \in 1..(Len(q) + 1), IsChunkOf(p[b], i),
                 \A c \in (b + 1)..(Len(q) + 1) : ~IsChunkOf(p[c], i)
          PROVE  n = Last(p[b].val).n
      <3>1. b \in 1..Len(q)
        BY <1>1, <1>3, <2>3
      <3>2. IsChunkOf(q[b], i) /\ \A c \in (b + 1)..Len(q) : ~IsChunkOf(q[c], i)
        BY <1>1, <2>3, <3>1
      <3>3. n = Last(q[b].val).n
        BY <1>1, <2>1, <3>1, <3>2 DEF Reaches
      <3> QED BY <1>1, <3>1, <3>3
    <2>4. Reaches(p, i, Len(q) + 2, h, n)
      BY <1>1, <2>2, <2>3 DEF Reaches
    <2> QED BY <2>4 DEF p
  <1> QED BY <1>2, <1>3

\* Who has heard the first message goes on where it ended.
LEMMA ReachesTail ==
  ASSUME NEW S, NEW q \in Seq(S), q # <<>>, NEW i, NEW h, NEW n, NEW k \in 1..Len(q),
         Reaches(q, i, k + 1, h, n)
  PROVE  Reaches(Tail(q), i, k, IF IsChunkOf(Head(q), i) THEN Last(Head(q).val).n ELSE h, n)
  <1> DEFINE p == Tail(q)
             g == IF IsChunkOf(Head(q), i) THEN Last(Head(q).val).n ELSE h
  <1>1. /\ Len(q) \in Nat \ {0} /\ Head(q) = q[1] /\ (k + 1) - 1 = k
        /\ \A b \in 1..(Len(q) - 1) : p[b] = q[b + 1]
    BY Shifted
  <1>2. ASSUME \A b \in 1..(k - 1) : ~IsChunkOf(p[b], i) PROVE n = g
    <2>1. \A c \in 2..k : ~IsChunkOf(q[c], i)
      <3> SUFFICES ASSUME NEW c \in 2..k PROVE ~IsChunkOf(q[c], i)
        OBVIOUS
      <3>1. c - 1 \in 1..(k - 1) /\ c - 1 \in 1..(Len(q) - 1) /\ (c - 1) + 1 = c
        BY <1>1
      <3> HIDE DEF p
      <3> QED BY <1>1, <1>2, <3>1
    <2>2. CASE IsChunkOf(Head(q), i)
      <3>1. 1 \in 1..k /\ IsChunkOf(q[1], i) /\ \A c \in (1 + 1)..k : ~IsChunkOf(q[c], i)
        BY <1>1, <2>1, <2>2
      <3> QED BY <1>1, <2>2, <3>1 DEF Reaches
    <2>3. CASE ~IsChunkOf(Head(q), i)
      <3>1. \A b \in 1..k : ~IsChunkOf(q[b], i)
        BY <1>1, <2>1, <2>3
      <3> QED BY <1>1, <2>3, <3>1 DEF Reaches
    <2> QED BY <2>2, <2>3
  <1>3. ASSUME NEW b \in 1..(k - 1), IsChunkOf(p[b], i), \A c \in (b + 1)..(k - 1) : ~IsChunkOf(p[c], i)
        PROVE  n = Last(p[b].val).n
    <2>1. b + 1 \in 1..k /\ p[b] = q[b + 1] /\ b \in 1..(Len(q) - 1)
      BY <1>1
    <2>2. \A c \in (b + 2)..k : ~IsChunkOf(q[c], i)
      <3> SUFFICES ASSUME NEW c \in (b + 2)..k PROVE ~IsChunkOf(q[c], i)
        OBVIOUS
      <3>1. c - 1 \in (b + 1)..(k - 1) /\ c - 1 \in 1..(Len(q) - 1) /\ (c - 1) + 1 = c
        BY <1>1
      <3> HIDE DEF p
      <3> QED BY <1>1, <1>3, <3>1
    <2>3. IsChunkOf(q[b + 1], i) /\ \A c \in ((b + 1) + 1)..k : ~IsChunkOf(q[c], i)
      BY <1>3, <2>1, <2>2
    <2>4. n = Last(q[b + 1].val).n
      BY <1>1, <2>1, <2>3 DEF Reaches
    <2> QED BY <2>1, <2>4
  <1> HIDE DEF p, g
  <1>4. Reaches(p, i, k, g, n)
    BY <1>2, <1>3 DEF Reaches
  <1> QED BY <1>4 DEF p, g

\* The same of the numbers: adding a message leaves those due before it.
LEMMA LeadsStays ==
  ASSUME NEW S, NEW q \in Seq(S), NEW m \in S, NEW i, NEW h, NEW n,
         NEW k \in 1..(Len(q) + 1), Leads(q, i, k, h, n)
  PROVE  Leads(Append(q, m), i, k, h, n)
  <1>1. Len(q) \in Nat /\ \A b \in 1..(k - 1) : Append(q, m)[b] = q[b]
    BY Appended
  <1> QED BY <1>1 DEF Leads

\* Behind a message of the stream its successor is due, behind any other what
\* was due before.
LEMMA LeadsNext ==
  ASSUME NEW S, NEW q \in Seq(S), NEW m \in S, NEW i, NEW h, NEW n,
         IF IsOf(m, i) THEN n = m.seq + 1 ELSE Leads(q, i, Len(q) + 1, h, n)
  PROVE  Leads(Append(q, m), i, Len(q) + 2, h, n)
  <1> DEFINE p == Append(q, m)
  <1>1. /\ Len(q) \in Nat /\ p[Len(q) + 1] = m /\ \A b \in 1..Len(q) : p[b] = q[b]
        /\ (Len(q) + 2) - 1 = Len(q) + 1 /\ (Len(q) + 1) - 1 = Len(q)
    BY Appended
  <1> HIDE DEF p
  <1>2. CASE IsOf(m, i)
    <2>1. ~(\A b \in 1..(Len(q) + 1) : ~IsOf(p[b], i))
      BY <1>1, <1>2
    <2>2. ASSUME NEW b \in 1..(Len(q) + 1), \A c \in (b + 1)..(Len(q) + 1) : ~IsOf(p[c], i)
          PROVE  n = p[b].seq + 1
      <3>1. b = Len(q) + 1
        BY <1>1, <1>2, <2>2
      <3> QED BY <1>1, <1>2, <3>1
    <2>3. Leads(p, i, Len(q) + 2, h, n)
      BY <1>1, <2>1, <2>2 DEF Leads
    <2> QED BY <2>3 DEF p
  <1>3. CASE ~IsOf(m, i)
    <2>1. Leads(q, i, Len(q) + 1, h, n)
      BY <1>3
    <2>2. (\A b \in 1..(Len(q) + 1) : ~IsOf(p[b], i)) => n = h
      BY <1>1, <2>1 DEF Leads
    <2>3. ASSUME NEW b \in 1..(Len(q) + 1), IsOf(p[b], i),
                 \A c \in (b + 1)..(Len(q) + 1) : ~IsOf(p[c], i)
          PROVE  n = p[b].seq + 1
      <3>1. b \in 1..Len(q)
        BY <1>1, <1>3, <2>3
      <3>2. IsOf(q[b], i) /\ \A c \in (b + 1)..Len(q) : ~IsOf(q[c], i)
        BY <1>1, <2>3, <3>1
      <3>3. n = q[b].seq + 1
        BY <1>1, <2>1, <3>1, <3>2 DEF Leads
      <3> QED BY <1>1, <3>1, <3>3
    <2>4. Leads(p, i, Len(q) + 2, h, n)
      BY <1>1, <2>2, <2>3 DEF Leads
    <2> QED BY <2>4 DEF p
  <1> QED BY <1>2, <1>3

\* Who has taken the first message waits for its successor.
LEMMA LeadsTail ==
  ASSUME NEW S, NEW q \in Seq(S), q # <<>>, NEW i, NEW h, NEW n, NEW k \in 1..Len(q),
         Leads(q, i, k + 1, h, n)
  PROVE  Leads(Tail(q), i, k, IF IsOf(Head(q), i) THEN Head(q).seq + 1 ELSE h, n)
  <1> DEFINE p == Tail(q)
             g == IF IsOf(Head(q), i) THEN Head(q).seq + 1 ELSE h
  <1>1. /\ Len(q) \in Nat \ {0} /\ Head(q) = q[1] /\ (k + 1) - 1 = k
        /\ \A b \in 1..(Len(q) - 1) : p[b] = q[b + 1]
    BY Shifted
  <1>2. ASSUME \A b \in 1..(k - 1) : ~IsOf(p[b], i) PROVE n = g
    <2>1. \A c \in 2..k : ~IsOf(q[c], i)
      <3> SUFFICES ASSUME NEW c \in 2..k PROVE ~IsOf(q[c], i)
        OBVIOUS
      <3>1. c - 1 \in 1..(k - 1) /\ c - 1 \in 1..(Len(q) - 1) /\ (c - 1) + 1 = c
        BY <1>1
      <3> HIDE DEF p
      <3> QED BY <1>1, <1>2, <3>1
    <2>2. CASE IsOf(Head(q), i)
      <3>1. 1 \in 1..k /\ IsOf(q[1], i) /\ \A c \in (1 + 1)..k : ~IsOf(q[c], i)
        BY <1>1, <2>1, <2>2
      <3> QED BY <1>1, <2>2, <3>1 DEF Leads
    <2>3. CASE ~IsOf(Head(q), i)
      <3>1. \A b \in 1..k : ~IsOf(q[b], i)
        BY <1>1, <2>1, <2>3
      <3> QED BY <1>1, <2>3, <3>1 DEF Leads
    <2> QED BY <2>2, <2>3
  <1>3. ASSUME NEW b \in 1..(k - 1), IsOf(p[b], i), \A c \in (b + 1)..(k - 1) : ~IsOf(p[c], i)
        PROVE  n = p[b].seq + 1
    <2>1. b + 1 \in 1..k /\ p[b] = q[b + 1] /\ b \in 1..(Len(q) - 1)
      BY <1>1
    <2>2. \A c \in (b + 2)..k : ~IsOf(q[c], i)
      <3> SUFFICES ASSUME NEW c \in (b + 2)..k PROVE ~IsOf(q[c], i)
        OBVIOUS
      <3>1. c - 1 \in (b + 1)..(k - 1) /\ c - 1 \in 1..(Len(q) - 1) /\ (c - 1) + 1 = c
        BY <1>1
      <3> HIDE DEF p
      <3> QED BY <1>1, <1>3, <3>1
    <2>3. IsOf(q[b + 1], i) /\ \A c \in ((b + 1) + 1)..k : ~IsOf(q[c], i)
      BY <1>3, <2>1, <2>2
    <2>4. n = q[b + 1].seq + 1
      BY <1>1, <2>1, <2>3 DEF Leads
    <2> QED BY <2>1, <2>4
  <1> HIDE DEF p, g
  <1>4. Leads(p, i, k, g, n)
    BY <1>2, <1>3 DEF Leads
  <1> QED BY <1>4 DEF p, g

-----------------------------------------------------------------------------
(* What is said of all messages on the way                                  *)

\* A message is added that has the number that is due.
LEMMA NumberedAppend ==
  ASSUME NEW S, NEW q \in Seq(S), NEW m \in S, NEW i, NEW first, NumberedIn(q, i, first),
         IsOf(m, i) => Leads(q, i, Len(q) + 1, first, m.seq)
  PROVE  NumberedIn(Append(q, m), i, first)
  <1> DEFINE p == Append(q, m)
  <1>1. /\ Len(q) \in Nat /\ DOMAIN q = 1..Len(q) /\ DOMAIN p = 1..(Len(q) + 1)
        /\ p[Len(q) + 1] = m /\ \A b \in 1..Len(q) : p[b] = q[b]
    BY Appended
  <1> SUFFICES ASSUME NEW k \in DOMAIN p, IsOf(p[k], i) PROVE Leads(p, i, k, first, p[k].seq)
    BY DEF NumberedIn
  <1>2. k \in 1..(Len(q) + 1)
    BY <1>1
  <1>3. Leads(q, i, k, first, p[k].seq)
    <2>1. CASE k = Len(q) + 1
      BY <1>1, <2>1
    <2>2. CASE k # Len(q) + 1
      <3>1. k \in DOMAIN q /\ p[k] = q[k]
        BY <1>1, <1>2, <2>2
      <3> HIDE DEF p
      <3> QED BY <3>1 DEF NumberedIn
    <2> QED BY <2>1, <2>2
  <1> QED BY <1>2, <1>3, LeadsStays

\* The first message of a stream has the number that is due first.
LEMMA NumberedTail ==
  ASSUME NEW S, NEW q \in Seq(S), q # <<>>, NEW i, NEW first, NumberedIn(q, i, first)
  PROVE  /\ IsOf(Head(q), i) => Head(q).seq = first
         /\ NumberedIn(Tail(q), i, IF IsOf(Head(q), i) THEN Head(q).seq + 1 ELSE first)
  <1> DEFINE p == Tail(q)
             g == IF IsOf(Head(q), i) THEN Head(q).seq + 1 ELSE first
  <1>1. /\ Len(q) \in Nat \ {0} /\ DOMAIN q = 1..Len(q) /\ Head(q) = q[1]
        /\ DOMAIN p = 1..(Len(q) - 1) /\ \A b \in 1..(Len(q) - 1) : p[b] = q[b + 1]
    BY Shifted
  <1>2. ASSUME IsOf(Head(q), i) PROVE Head(q).seq = first
    <2>1. Leads(q, i, 1, first, q[1].seq)
      BY <1>1, <1>2 DEF NumberedIn
    <2>2. \A b \in 1..(1 - 1) : ~IsOf(q[b], i)
      OBVIOUS
    <2> QED BY <1>1, <2>1, <2>2 DEF Leads
  <1>3. ASSUME NEW k \in DOMAIN p, IsOf(p[k], i) PROVE Leads(p, i, k, g, p[k].seq)
    <2>1. k \in 1..Len(q) /\ k + 1 \in DOMAIN q /\ p[k] = q[k + 1]
      BY <1>1
    <2>2. IsOf(q[k + 1], i)
      BY <1>3, <2>1
    <2>3. Leads(q, i, k + 1, first, p[k].seq)
      BY <2>1, <2>2 DEF NumberedIn
    <2> QED BY <2>1, <2>3, LeadsTail
  <1> HIDE DEF p, g
  <1>4. NumberedIn(p, i, g)
    BY <1>3 DEF NumberedIn
  <1> QED BY <1>2, <1>4 DEF p, g

\* The same of chunks.
LEMMA GoesOnStays ==
  ASSUME NEW S, NEW q \in Seq(S), NEW m \in S, NEW i, NEW h, NEW s, NEW k \in 1..(Len(q) + 1),
         GoesOn(q, i, k, h, s)
  PROVE  GoesOn(Append(q, m), i, k, h, s)
  BY ReachesStays DEF GoesOn

LEMMA ChunksAppend ==
  ASSUME NEW S, NEW q \in Seq(S), NEW m \in S, NEW i, NEW h, ChunksIn(q, i, h),
         IsChunkOf(m, i) => m.val # <<>> /\ GoesOn(q, i, Len(q) + 1, h, m.val)
  PROVE  ChunksIn(Append(q, m), i, h)
  <1> DEFINE p == Append(q, m)
  <1>1. /\ Len(q) \in Nat /\ DOMAIN q = 1..Len(q) /\ DOMAIN p = 1..(Len(q) + 1)
        /\ p[Len(q) + 1] = m /\ \A b \in 1..Len(q) : p[b] = q[b]
    BY Appended
  <1> SUFFICES ASSUME NEW k \in DOMAIN p, IsChunkOf(p[k], i)
               PROVE  p[k].val # <<>> /\ GoesOn(p, i, k, h, p[k].val)
    BY DEF ChunksIn
  <1>2. k \in 1..(Len(q) + 1)
    BY <1>1
  <1>3. p[k].val # <<>> /\ GoesOn(q, i, k, h, p[k].val)
    <2>1. CASE k = Len(q) + 1
      BY <1>1, <2>1
    <2>2. CASE k # Len(q) + 1
      <3>1. k \in DOMAIN q /\ p[k] = q[k]
        BY <1>1, <1>2, <2>2
      <3> HIDE DEF p
      <3> QED BY <3>1 DEF ChunksIn
    <2> QED BY <2>1, <2>2
  <1> QED BY <1>2, <1>3, GoesOnStays

LEMMA GoesOnTail ==
  ASSUME NEW S, NEW q \in Seq(S), q # <<>>, NEW i, NEW h, NEW s, NEW k \in 1..Len(q),
         GoesOn(q, i, k + 1, h, s)
  PROVE  GoesOn(Tail(q), i, k, IF IsChunkOf(Head(q), i) THEN Last(Head(q).val).n ELSE h, s)
  BY ReachesTail DEF GoesOn

LEMMA ChunksTail ==
  ASSUME NEW S, NEW q \in Seq(S), q # <<>>, NEW i, NEW h, ChunksIn(q, i, h)
  PROVE  ChunksIn(Tail(q), i, IF IsChunkOf(Head(q), i) THEN Last(Head(q).val).n ELSE h)
  <1> DEFINE p == Tail(q)
             g == IF IsChunkOf(Head(q), i) THEN Last(Head(q).val).n ELSE h
  <1>1. /\ Len(q) \in Nat \ {0} /\ DOMAIN q = 1..Len(q)
        /\ DOMAIN p = 1..(Len(q) - 1) /\ \A b \in 1..(Len(q) - 1) : p[b] = q[b + 1]
    BY Shifted
  <1>2. ASSUME NEW k \in DOMAIN p, IsChunkOf(p[k], i)
        PROVE  p[k].val # <<>> /\ GoesOn(p, i, k, g, p[k].val)
    <2>1. k \in 1..Len(q) /\ k + 1 \in DOMAIN q /\ p[k] = q[k + 1]
      BY <1>1
    <2>2. IsChunkOf(q[k + 1], i)
      BY <1>2, <2>1
    <2>3. p[k].val # <<>> /\ GoesOn(q, i, k + 1, h, p[k].val)
      BY <2>1, <2>2 DEF ChunksIn
    <2> QED BY <2>1, <2>3, GoesOnTail
  <1> HIDE DEF p, g
  <1>3. ChunksIn(p, i, g)
    BY <1>2 DEF ChunksIn
  <1> QED BY <1>3 DEF p, g

\* What a message says of the data stays true, and a message is added that says
\* what is true.
LEMMA TrueAppend ==
  ASSUME NEW S, NEW q \in Seq(S), NEW m \in S, NEW a, NEW d, TrueIn(q, a, d),
         IsInvalidation(m) => m.val <= a, IsReading(m) => m.val <= d
  PROVE  TrueIn(Append(q, m), a, d)
  <1>1. /\ DOMAIN q = 1..Len(q) /\ Len(q) \in Nat /\ DOMAIN Append(q, m) = 1..(Len(q) + 1)
        /\ Append(q, m)[Len(q) + 1] = m /\ \A b \in 1..Len(q) : Append(q, m)[b] = q[b]
    BY Appended
  <1>2. \A k \in 1..(Len(q) + 1) : k \in DOMAIN q \/ k = Len(q) + 1
    BY <1>1
  <1> QED BY <1>1, <1>2 DEF TrueIn

LEMMA TrueTail ==
  ASSUME NEW S, NEW q \in Seq(S), q # <<>>, NEW a, NEW d, TrueIn(q, a, d)
  PROVE  /\ TrueIn(Tail(q), a, d)
         /\ IsInvalidation(Head(q)) => Head(q).val <= a
         /\ IsReading(Head(q)) => Head(q).val <= d
  <1>1. /\ Len(q) \in Nat \ {0} /\ DOMAIN q = 1..Len(q) /\ Head(q) = q[1] /\ 1 \in DOMAIN q
        /\ DOMAIN Tail(q) = 1..(Len(q) - 1) /\ \A b \in 1..(Len(q) - 1) : Tail(q)[b] = q[b + 1]
    BY Shifted
  <1>2. \A b \in 1..(Len(q) - 1) : b + 1 \in DOMAIN q
    BY <1>1
  <1> QED BY <1>1, <1>2 DEF TrueIn

LEMMA TrueWidens ==
  ASSUME NEW q \in Seq(DownMessage), NEW a \in Nat, NEW d \in Nat, NEW b \in Nat, NEW e \in Nat,
         TrueIn(q, a, d), a <= b, d <= e
  PROVE  TrueIn(q, b, e)
  <1> SUFFICES ASSUME NEW k \in DOMAIN q
               PROVE  /\ IsInvalidation(q[k]) => q[k].val <= b
                      /\ IsReading(q[k]) => q[k].val <= e
    BY DEF TrueIn
  <1>1. q[k] \in DownMessage
    BY LenProperties
  <1>2. IsInvalidation(q[k]) \/ IsReading(q[k]) => q[k].val \in Nat
    BY <1>1 DEF DownMessage, Response, StreamMessage, Notification, IsInvalidation, IsReading
  <1> QED BY <1>2 DEF TrueIn

LEMMA FreshAppend ==
  ASSUME NEW S, NEW q \in Seq(S), NEW m \in S, NEW l, FreshIn(q, l),
         IsReading(m) => /\ m.val >= l
                         /\ \A j \in DOMAIN q : IsInvalidation(q[j]) => q[j].val <= m.val
  PROVE  FreshIn(Append(q, m), l)
  <1> DEFINE p == Append(q, m)
  <1>1. /\ DOMAIN q = 1..Len(q) /\ Len(q) \in Nat /\ DOMAIN p = 1..(Len(q) + 1)
        /\ p[Len(q) + 1] = m /\ \A b \in 1..Len(q) : p[b] = q[b]
    BY Appended
  <1> HIDE DEF p
  <1>2. ASSUME NEW k \in DOMAIN p, IsReading(p[k])
        PROVE  p[k].val >= l /\ \A j \in 1..(k - 1) : IsInvalidation(p[j]) => p[j].val <= p[k].val
    <2>1. CASE k = Len(q) + 1
      BY <1>1, <1>2, <2>1
    <2>2. CASE k # Len(q) + 1
      <3>1. k \in DOMAIN q /\ p[k] = q[k] /\ \A j \in 1..(k - 1) : p[j] = q[j]
        BY <1>1, <2>2
      <3> QED BY <1>2, <3>1 DEF FreshIn
    <2> QED BY <2>1, <2>2
  <1>3. FreshIn(p, l)
    BY <1>2 DEF FreshIn
  <1> QED BY <1>3 DEF p

\* Behind an invalidation every answer is as new as that.
LEMMA FreshTail ==
  ASSUME NEW S, NEW q \in Seq(S), q # <<>>, NEW l, FreshIn(q, l)
  PROVE  /\ FreshIn(Tail(q), l)
         /\ IsInvalidation(Head(q)) /\ Head(q).val \in Nat => FreshIn(Tail(q), Head(q).val)
         /\ IsReading(Head(q)) => Head(q).val >= l
  <1> DEFINE p == Tail(q)
  <1>1. /\ Len(q) \in Nat \ {0} /\ DOMAIN q = 1..Len(q) /\ Head(q) = q[1] /\ 1 \in DOMAIN q
        /\ DOMAIN p = 1..(Len(q) - 1) /\ \A b \in 1..(Len(q) - 1) : p[b] = q[b + 1]
    BY Shifted
  <1> HIDE DEF p
  <1>2. ASSUME NEW k \in DOMAIN p, IsReading(p[k])
        PROVE  /\ p[k].val >= l
               /\ \A j \in 1..(k - 1) : IsInvalidation(p[j]) => p[j].val <= p[k].val
               /\ IsInvalidation(q[1]) => q[1].val <= p[k].val
    <2>1. k + 1 \in DOMAIN q /\ p[k] = q[k + 1] /\ 1 \in 1..((k + 1) - 1)
      BY <1>1
    <2>2. q[k + 1].val >= l /\ \A j \in 1..((k + 1) - 1) : IsInvalidation(q[j]) => q[j].val <= q[k + 1].val
      BY <1>2, <2>1 DEF FreshIn
    <2>3. \A j \in 1..(k - 1) : p[j] = q[j + 1] /\ j + 1 \in 1..((k + 1) - 1)
      BY <1>1
    <2> QED BY <2>1, <2>2, <2>3
  <1>3. FreshIn(p, l)
    BY <1>2 DEF FreshIn
  <1>4. ASSUME IsInvalidation(q[1]), q[1].val \in Nat PROVE FreshIn(p, q[1].val)
    <2>1. \A k \in DOMAIN p : IsReading(p[k]) => q[1].val <= p[k].val
      BY <1>2, <1>4
    <2>2. \A x, y : x <= y <=> y >= x
      OBVIOUS
    <2> QED BY <1>2, <2>1, <2>2 DEF FreshIn
  <1>5. IsReading(q[1]) => q[1].val >= l
    BY <1>1 DEF FreshIn
  <1> QED BY <1>1, <1>3, <1>4, <1>5 DEF p

-----------------------------------------------------------------------------
(* What a step does to the channel                                          *)

\* The messages of the model are messages.
LEMMA Messages ==
  /\ \A i \in Id : Request(i) \in UpMessage /\ CancelOf(i) \in UpMessage
  /\ \A e \in Event : /\ [type |-> "subscribe", name |-> e] \in UpMessage
                      /\ [type |-> "unsubscribe", name |-> e] \in UpMessage
  /\ \A i, j \in Id : Request(i) # CancelOf(j) /\ (Request(i) = Request(j) <=> i = j)
  /\ \A i \in Id, e \in Event : /\ Request(i) # [type |-> "subscribe", name |-> e]
                                /\ Request(i) # [type |-> "unsubscribe", name |-> e]
  <1>1. /\ \A i \in Id : Request(i) \in UpMessage /\ CancelOf(i) \in UpMessage
        /\ \A i, j \in Id : Request(i) # CancelOf(j) /\ (Request(i) = Request(j) <=> i = j)
    BY DEF Request, CancelOf, UpMessage
  <1>2. ASSUME NEW e \in Event
        PROVE  /\ [type |-> "subscribe", name |-> e] \in UpMessage
               /\ [type |-> "unsubscribe", name |-> e] \in UpMessage
    BY DEF UpMessage
  <1>3. ASSUME NEW i \in Id, NEW e \in Event
        PROVE  /\ Request(i) # [type |-> "subscribe", name |-> e]
               /\ Request(i) # [type |-> "unsubscribe", name |-> e]
    BY DEF Request
  <1> QED BY <1>1, <1>2, <1>3

\* The client sends a message.
LEMMA UpSends ==
  ASSUME NEW q \in Seq(UpMessage), NEW m \in UpMessage
  PROVE  /\ Append(q, m) \in Seq(UpMessage)
         /\ \A i \in Id : Count(q, Requests(i)) \in Nat
         /\ \A i \in Id : Count(Append(q, m), Requests(i))
                            = Count(q, Requests(i)) + IF m = Request(i) THEN 1 ELSE 0
  <1>1. Append(q, m) \in Seq(UpMessage)
    BY Appended
  <1>2. ASSUME NEW i \in Id
        PROVE  /\ Count(q, Requests(i)) \in Nat
               /\ Count(Append(q, m), Requests(i)) = Count(q, Requests(i)) + IF m = Request(i) THEN 1 ELSE 0
    <2>1. m \in Requests(i) <=> m = Request(i)
      BY DEF Requests
    <2>2. Count(q, Requests(i)) \in Nat
      BY CountType
    <2>3. Count(Append(q, m), Requests(i)) = Count(q, Requests(i)) + IF m \in Requests(i) THEN 1 ELSE 0
      BY CountAppend
    <2> QED BY <2>1, <2>2, <2>3
  <1> QED BY <1>1, <1>2

\* The host takes one.
LEMMA UpTaken ==
  ASSUME WiresTyped, NEW m, Arrives(m)
  PROVE  /\ attached /\ up' \in Seq(UpMessage) /\ m \in UpMessage
         /\ \A i \in Id : Count(up, Requests(i)) \in Nat /\ Count(up', Requests(i)) \in Nat
         /\ \A i \in Id : Count(up, Requests(i)) = Count(up', Requests(i)) + IF m = Request(i) THEN 1 ELSE 0
  <1>1. up \in Seq(UpMessage) /\ up # <<>> /\ Head(up) = m /\ up' = Tail(up) /\ attached
    BY DEF WiresTyped, Arrives
  <1>2. Tail(up) \in Seq(UpMessage) /\ m \in UpMessage
    BY <1>1, Shifted
  <1>3. ASSUME NEW i \in Id
        PROVE  /\ Count(up, Requests(i)) \in Nat /\ Count(up', Requests(i)) \in Nat
               /\ Count(up, Requests(i)) = Count(up', Requests(i)) + IF m = Request(i) THEN 1 ELSE 0
    <2>1. m \in Requests(i) <=> m = Request(i)
      BY DEF Requests
    <2>2. Count(up, Requests(i)) \in Nat /\ Count(Tail(up), Requests(i)) \in Nat
      BY <1>1, <1>2, CountType
    <2>3. Count(up, Requests(i)) = Count(Tail(up), Requests(i)) + IF Head(up) \in Requests(i) THEN 1 ELSE 0
      BY <1>1, CountTail
    <2> QED BY <1>1, <2>1, <2>2, <2>3
  <1> QED BY <1>1, <1>2, <1>3

\* What an answer and a stream's message count for.
LEMMA Kinds ==
  ASSUME NEW m \in DownMessage
  PROVE  /\ \A i \in Call : m \in Answers(i) <=> m.type = "response" /\ m.id = i
         /\ \A i \in Stream : m \in Lasts(i) <=> m.type = "stream" /\ m.id = i /\ m.kind # "chunk"
         /\ m.type \in {"response", "stream", "event"}
         /\ m.type = "response" <=> m \in Response
         /\ m.type = "stream" <=> m \in StreamMessage
         /\ m.type = "event" <=> m \in Notification
  <1>1. /\ \A i \in Call : m \in Answers(i) <=> m.type = "response" /\ m.id = i
        /\ \A i \in Stream : m \in Lasts(i) <=> m.type = "stream" /\ m.id = i /\ m.kind # "chunk"
    BY DEF Answers, Lasts, IsAnswerOf, IsLastOf, IsOf
  <1>2. /\ m \in Response => m.type = "response"
        /\ m \in StreamMessage => m.type = "stream"
        /\ m \in Notification => m.type = "event"
    BY DEF Response, StreamMessage, Notification
  <1> QED BY <1>1, <1>2 DEF DownMessage

\* The host sends a message to a window that is there.
LEMMA DownSends ==
  ASSUME NEW q \in Seq(DownMessage), NEW m \in DownMessage
  PROVE  /\ Append(q, m) \in Seq(DownMessage) /\ Len(q) \in Nat /\ Len(Append(q, m)) = Len(q) + 1
         /\ \A i \in Call : /\ Count(q, Answers(i)) \in Nat /\ Count(Append(q, m), Answers(i)) \in Nat
                            /\ Count(Append(q, m), Answers(i))
                                 = Count(q, Answers(i)) + IF m.type = "response" /\ m.id = i THEN 1 ELSE 0
         /\ \A i \in Stream : /\ Count(q, Lasts(i)) \in Nat /\ Count(Append(q, m), Lasts(i)) \in Nat
                              /\ Count(Append(q, m), Lasts(i))
                                   = Count(q, Lasts(i)) + IF m.type = "stream" /\ m.id = i /\ m.kind # "chunk" THEN 1 ELSE 0
         /\ \A i \in Stream : ~IsOf(m, i) /\ NoneOf(q, i) => NoneOf(Append(q, m), i)
  <1>1. Append(q, m) \in Seq(DownMessage) /\ Len(q) \in Nat /\ Len(Append(q, m)) = Len(q) + 1
    BY Appended
  <1>2. ASSUME NEW i \in Call
        PROVE  /\ Count(q, Answers(i)) \in Nat /\ Count(Append(q, m), Answers(i)) \in Nat
               /\ Count(Append(q, m), Answers(i))
                    = Count(q, Answers(i)) + IF m.type = "response" /\ m.id = i THEN 1 ELSE 0
    <2>1. Count(q, Answers(i)) \in Nat /\ Count(Append(q, m), Answers(i)) \in Nat
      BY <1>1, CountType
    <2>2. Count(Append(q, m), Answers(i)) = Count(q, Answers(i)) + IF m \in Answers(i) THEN 1 ELSE 0
      BY CountAppend
    <2>3. m \in Answers(i) <=> m.type = "response" /\ m.id = i
      BY Kinds
    <2> QED BY <2>1, <2>2, <2>3
  <1>3. ASSUME NEW i \in Stream
        PROVE  /\ Count(q, Lasts(i)) \in Nat /\ Count(Append(q, m), Lasts(i)) \in Nat
               /\ Count(Append(q, m), Lasts(i))
                    = Count(q, Lasts(i)) + IF m.type = "stream" /\ m.id = i /\ m.kind # "chunk" THEN 1 ELSE 0
    <2>1. Count(q, Lasts(i)) \in Nat /\ Count(Append(q, m), Lasts(i)) \in Nat
      BY <1>1, CountType
    <2>2. Count(Append(q, m), Lasts(i)) = Count(q, Lasts(i)) + IF m \in Lasts(i) THEN 1 ELSE 0
      BY CountAppend
    <2>3. m \in Lasts(i) <=> m.type = "stream" /\ m.id = i /\ m.kind # "chunk"
      BY Kinds
    <2> QED BY <2>1, <2>2, <2>3
  <1>4. ASSUME NEW i \in Stream, ~IsOf(m, i), NoneOf(q, i)
        PROVE  NoneOf(Append(q, m), i)
    <2>1. /\ DOMAIN Append(q, m) = 1..(Len(q) + 1) /\ Append(q, m)[Len(q) + 1] = m
          /\ \A k \in 1..Len(q) : Append(q, m)[k] = q[k] /\ k \in DOMAIN q
      BY Appended
    <2> QED BY <1>1, <1>4, <2>1 DEF NoneOf
  <1> QED BY <1>1, <1>2, <1>3, <1>4

\* The client takes one.
LEMMA DownTaken ==
  ASSUME WiresTyped, down # <<>>
  PROVE  /\ attached /\ Tail(down) \in Seq(DownMessage) /\ Head(down) \in DownMessage
         /\ \A i \in Call : /\ Count(down, Answers(i)) \in Nat /\ Count(Tail(down), Answers(i)) \in Nat
                            /\ Count(down, Answers(i)) = Count(Tail(down), Answers(i))
                                 + IF Head(down).type = "response" /\ Head(down).id = i THEN 1 ELSE 0
         /\ \A i \in Stream : /\ Count(down, Lasts(i)) \in Nat /\ Count(Tail(down), Lasts(i)) \in Nat
                              /\ Count(down, Lasts(i)) = Count(Tail(down), Lasts(i))
                                   + IF Head(down).type = "stream" /\ Head(down).id = i /\ Head(down).kind # "chunk"
                                     THEN 1 ELSE 0
         /\ \A i \in Stream : NoneOf(down, i) => NoneOf(Tail(down), i) /\ ~IsOf(Head(down), i)
  <1>1. down \in Seq(DownMessage) /\ attached
    BY DEF WiresTyped
  <1>2. Tail(down) \in Seq(DownMessage) /\ Head(down) \in DownMessage
    BY <1>1, Shifted
  <1>3. ASSUME NEW i \in Call
        PROVE  /\ Count(down, Answers(i)) \in Nat /\ Count(Tail(down), Answers(i)) \in Nat
               /\ Count(down, Answers(i)) = Count(Tail(down), Answers(i))
                    + IF Head(down).type = "response" /\ Head(down).id = i THEN 1 ELSE 0
    <2>1. Count(down, Answers(i)) \in Nat /\ Count(Tail(down), Answers(i)) \in Nat
      BY <1>1, <1>2, CountType
    <2>2. Count(down, Answers(i)) = Count(Tail(down), Answers(i)) + IF Head(down) \in Answers(i) THEN 1 ELSE 0
      BY <1>1, CountTail
    <2>3. Head(down) \in Answers(i) <=> Head(down).type = "response" /\ Head(down).id = i
      BY <1>2, Kinds
    <2> QED BY <2>1, <2>2, <2>3
  <1>4. ASSUME NEW i \in Stream
        PROVE  /\ Count(down, Lasts(i)) \in Nat /\ Count(Tail(down), Lasts(i)) \in Nat
               /\ Count(down, Lasts(i)) = Count(Tail(down), Lasts(i))
                    + IF Head(down).type = "stream" /\ Head(down).id = i /\ Head(down).kind # "chunk" THEN 1 ELSE 0
    <2>1. Count(down, Lasts(i)) \in Nat /\ Count(Tail(down), Lasts(i)) \in Nat
      BY <1>1, <1>2, CountType
    <2>2. Count(down, Lasts(i)) = Count(Tail(down), Lasts(i)) + IF Head(down) \in Lasts(i) THEN 1 ELSE 0
      BY <1>1, CountTail
    <2>3. Head(down) \in Lasts(i) <=> Head(down).type = "stream" /\ Head(down).id = i /\ Head(down).kind # "chunk"
      BY <1>2, Kinds
    <2> QED BY <2>1, <2>2, <2>3
  <1>5. ASSUME NEW i \in Stream, NoneOf(down, i)
        PROVE  NoneOf(Tail(down), i) /\ ~IsOf(Head(down), i)
    <2>1. /\ 1 \in DOMAIN down /\ Head(down) = down[1] /\ DOMAIN Tail(down) = 1..(Len(down) - 1)
          /\ \A k \in 1..(Len(down) - 1) : Tail(down)[k] = down[k + 1] /\ k + 1 \in DOMAIN down
      BY <1>1, Shifted
    <2> QED BY <1>5, <2>1 DEF NoneOf
  <1> QED BY <1>1, <1>2, <1>3, <1>4, <1>5

-----------------------------------------------------------------------------
(* The hub's chunks                                                         *)

\* A set of naturals below a bound that is not empty has a greatest element.
LEMMA MaxIsIn ==
  ASSUME NEW n \in Nat, NEW S \in SUBSET (1..n), S # {}
  PROVE  Max(S) \in S
  <1> DEFINE T == {n - k : k \in S}
  <1>1. T \subseteq Nat /\ T # {}
    <2>1. \A k \in S : n - k \in Nat
      OBVIOUS
    <2> QED BY <2>1
  <1>2. PICK x \in T : \A y \in T : ~(<<y, x>> \in OpToRel(<, Nat))
    BY <1>1, NatLessThanWellFounded, WFMin
  <1>3. PICK g \in S : x = n - g
    BY <1>2
  <1>4. \A k \in S : g >= k
    <2> SUFFICES ASSUME NEW k \in S PROVE g >= k
      OBVIOUS
    <2>1. n - k \in T /\ n - k \in Nat /\ x \in Nat
      BY <1>1, <1>2
    <2>2. ~(n - k < x)
      BY <1>2, <2>1 DEF OpToRel
    <2> QED BY <1>3, <2>1, <2>2
  <1> HIDE DEF T
  <1> QED BY <1>3, <1>4 DEF Max

\* next() hands over the head of the queue, at least one chunk.
LEMMA BurstIsAPrefix ==
  ASSUME NEW q \in Seq(Chunk), q # <<>>
  PROVE  \E n \in 1..Len(q) :
           /\ Burst(q) \in Seq(Chunk) /\ Burst(q) # <<>> /\ Len(Burst(q)) = n
           /\ \A k \in 1..n : Burst(q)[k] = q[k]
           /\ SubSeq(q, n + 1, Len(q)) \in Seq(Chunk) /\ Len(SubSeq(q, n + 1, Len(q))) = Len(q) - n
           /\ \A k \in 1..(Len(q) - n) : SubSeq(q, n + 1, Len(q))[k] = q[n + k]
  <1> DEFINE texts == {k \in 1..Len(q) : \A j \in 1..k : q[j].kind = "text"}
             n == IF texts = {} THEN 1 ELSE Max(texts)
  <1>1. Len(q) \in Nat \ {0} /\ \A k \in 1..Len(q) : q[k] \in Chunk
    BY LenProperties, EmptySeq
  <1>2. n \in 1..Len(q)
    <2>1. texts # {} => Max(texts) \in texts
      BY <1>1, MaxIsIn
    <2> QED BY <1>1, <2>1
  <1>3. Burst(q) = SubSeq(q, 1, n)
    BY DEF Burst
  <1> HIDE DEF n
  <1>4. /\ SubSeq(q, 1, n) \in Seq(Chunk) /\ Len(SubSeq(q, 1, n)) = n
        /\ \A k \in 1..n : SubSeq(q, 1, n)[k] = q[k]
    <2>1. \A k \in 1..n : q[k] \in Chunk
      BY <1>1, <1>2
    <2>2. /\ SubSeq(q, 1, n) \in Seq(Chunk)
          /\ Len(SubSeq(q, 1, n)) = IF 1 <= n THEN n - 1 + 1 ELSE 0
          /\ \A k \in 1..(n - 1 + 1) : SubSeq(q, 1, n)[k] = q[1 + k - 1]
      BY <1>1, <1>2, <2>1, SubSeqProperties
    <2> QED BY <1>1, <1>2, <2>2
  <1>5. /\ SubSeq(q, n + 1, Len(q)) \in Seq(Chunk) /\ Len(SubSeq(q, n + 1, Len(q))) = Len(q) - n
        /\ \A k \in 1..(Len(q) - n) : SubSeq(q, n + 1, Len(q))[k] = q[n + k]
    <2>1. n + 1 \in Int /\ Len(q) \in Int /\ \A k \in (n + 1)..Len(q) : q[k] \in Chunk
      BY <1>1, <1>2
    <2> DEFINE r == SubSeq(q, n + 1, Len(q))
    <2>2. /\ r \in Seq(Chunk)
          /\ Len(r) = IF n + 1 <= Len(q) THEN Len(q) - (n + 1) + 1 ELSE 0
          /\ \A k \in 1..(Len(q) - (n + 1) + 1) : r[k] = q[(n + 1) + k - 1]
      BY <2>1, SubSeqProperties
    <2> HIDE DEF r
    <2>3. Len(r) = Len(q) - n
      BY <1>1, <1>2, <2>2
    <2>4. ASSUME NEW k \in 1..(Len(q) - n) PROVE r[k] = q[n + k]
      <3>1. k \in 1..(Len(q) - (n + 1) + 1) /\ (n + 1) + k - 1 = n + k
        BY <1>1, <1>2
      <3> QED BY <2>2, <3>1
    <2>5. r \in Seq(Chunk) /\ Len(r) = Len(q) - n /\ \A k \in 1..(Len(q) - n) : r[k] = q[n + k]
      BY <2>2, <2>3, <2>4
    <2> QED BY <2>5 DEF r
  <1>6. Burst(q) # <<>>
    <2>1. Len(Burst(q)) # 0
      BY <1>1, <1>2, <1>3, <1>4
    <2>2. Len(<<>>) = 0
      OBVIOUS
    <2> QED BY <2>1, <2>2
  <1> QED BY <1>2, <1>3, <1>4, <1>5, <1>6

Topics == [buffer : Seq(Chunk), is : {"absent", "open", "closed"}]

\* What publish() of one chunk makes of a topic that is not closed.
LEMMA ExtendedByOne ==
  ASSUME NEW tp \in Topics, NEW kind \in {"text", "step", "done"}
  PROVE  IF tp.is = "closed" THEN Extended(tp, <<kind>>) = tp
         ELSE Extended(tp, <<kind>>) =
                [buffer |-> Append(tp.buffer, [n |-> Len(tp.buffer) + 1, kind |-> kind]),
                 is |-> IF kind = "done" THEN "closed" ELSE "open"]
  <1>1. CASE tp.is = "closed"
    BY <1>1 DEF Extended
  <1>2. CASE tp.is # "closed"
    <2> DEFINE c == [n |-> Len(tp.buffer) + 1, kind |-> kind]
               f == [k \in DOMAIN <<kind>> |-> [n |-> Len(tp.buffer) + k, kind |-> <<kind>>[k]]]
    <2>1. tp.buffer \in Seq(Chunk) /\ Len(tp.buffer) \in Nat
      BY LenProperties DEF Topics
    <2>2. c \in Chunk
      BY <2>1 DEF Chunk
    <2>3. f = <<c>>
      BY <2>1
    <2>4. Append(tp.buffer, c) = tp.buffer \o <<c>>
      BY <2>1, <2>2, AppendIsConcat
    <2>5. Contains(<<kind>>, "done") <=> kind = "done"
      BY DEF Contains
    <2>6. Extended(tp, <<kind>>) =
            [buffer |-> tp.buffer \o f, is |-> IF Contains(<<kind>>, "done") THEN "closed" ELSE "open"]
      BY <1>2 DEF Extended
    <2> HIDE DEF f
    <2> QED BY <1>2, <2>3, <2>4, <2>5, <2>6
  <1> QED BY <1>1, <1>2

IsWhole(tp) == /\ tp \in Topics
               /\ \A k \in DOMAIN tp.buffer : tp.buffer[k].n = k
               /\ tp.is = "absent" => tp.buffer = <<>>

\* It stays whole, and is there.
LEMMA ExtendedIsWhole ==
  ASSUME NEW tp, IsWhole(tp), NEW kind \in {"text", "step", "done"}
  PROVE  /\ IsWhole(Extended(tp, <<kind>>))
         /\ Extended(tp, <<kind>>).is = IF tp.is = "closed" \/ kind = "done" THEN "closed" ELSE "open"
  <1>0. tp \in Topics /\ tp.buffer \in Seq(Chunk)
    BY DEF IsWhole, Topics
  <1>1. CASE tp.is = "closed"
    BY <1>0, <1>1, ExtendedByOne
  <1>2. CASE tp.is # "closed"
    <2> DEFINE c == [n |-> Len(tp.buffer) + 1, kind |-> kind]
               b == Append(tp.buffer, c)
               e == IF kind = "done" THEN "closed" ELSE "open"
    <2>1. Len(tp.buffer) \in Nat /\ DOMAIN tp.buffer = 1..Len(tp.buffer)
      BY <1>0, LenProperties
    <2>2. c \in Chunk /\ c.n = Len(tp.buffer) + 1
      BY <2>1 DEF Chunk
    <2>3. /\ b \in Seq(Chunk) /\ DOMAIN b = 1..(Len(tp.buffer) + 1)
          /\ \A k \in 1..Len(tp.buffer) : b[k] = tp.buffer[k]
          /\ b[Len(tp.buffer) + 1] = c
      BY <1>0, <2>2, Appended
    <2>4. Extended(tp, <<kind>>) = [buffer |-> b, is |-> e]
      BY <1>0, <1>2, ExtendedByOne
    <2> HIDE DEF c, b
    <2>5. \A k \in DOMAIN b : b[k].n = k
      BY <2>1, <2>2, <2>3 DEF IsWhole
    <2>6. [buffer |-> b, is |-> e] \in Topics
      BY <2>3 DEF Topics
    <2> QED BY <1>2, <2>4, <2>5, <2>6 DEF IsWhole
  <1> QED BY <1>1, <1>2

\* stream() without a topic replays the row into one.
LEMMA SnapshotIsWhole ==
  ASSUME NEW t, IsWhole(topic[t])
  PROVE  /\ IsWhole(Snapshot(t)) /\ Snapshot(t).is \in {"open", "closed"}
         /\ topic[t].is # "absent" => Snapshot(t) = topic[t]
  <1>1. CASE topic[t].is # "absent"
    BY <1>1 DEF Snapshot, IsWhole, Topics
  <1>2. CASE topic[t].is = "absent"
    <2> DEFINE one == [n |-> 1, kind |-> "step"]
               two == [n |-> 2, kind |-> "done"]
    <2>1. Len(<<>>) = 0 /\ one \in Chunk /\ two \in Chunk
      BY DEF Chunk
    <2>2. Extended(Gone, <<"step">>) = [buffer |-> <<one>>, is |-> "open"]
      <3>1. [k \in DOMAIN <<"step">> |-> [n |-> 0 + k, kind |-> <<"step">>[k]]] = <<one>>
        OBVIOUS
      <3>2. ~Contains(<<"step">>, "done")
        BY DEF Contains
      <3>3. <<>> \o <<one>> = <<one>>
        BY <2>1, ConcatEmptySeq
      <3> QED BY <2>1, <3>1, <3>2, <3>3 DEF Extended, Gone
    <2>3. Extended(Gone, <<"step", "done">>) = [buffer |-> <<one, two>>, is |-> "closed"]
      <3>1. [k \in DOMAIN <<"step", "done">> |-> [n |-> 0 + k, kind |-> <<"step", "done">>[k]]] = <<one, two>>
        OBVIOUS
      <3>2. Contains(<<"step", "done">>, "done")
        <4>1. 2 \in 1..Len(<<"step", "done">>) /\ <<"step", "done">>[2] = "done"
          OBVIOUS
        <4> QED BY <4>1 DEF Contains
      <3>3. <<>> \o <<one, two>> = <<one, two>>
        BY <2>1, ConcatEmptySeq
      <3> QED BY <2>1, <3>1, <3>2, <3>3 DEF Extended, Gone
    <2>4. IsWhole([buffer |-> <<one>>, is |-> "open"])
      BY <2>1 DEF IsWhole, Topics
    <2>5. IsWhole([buffer |-> <<one, two>>, is |-> "closed"])
      BY <2>1 DEF IsWhole, Topics
    <2>6. \/ Snapshot(t) = [buffer |-> <<one>>, is |-> "open"]
          \/ Snapshot(t) = [buffer |-> <<one, two>>, is |-> "closed"]
      BY <1>2, <2>2, <2>3 DEF Snapshot
    <2> HIDE DEF one, two
    <2> QED BY <1>2, <2>4, <2>5, <2>6
  <1> QED BY <1>1, <1>2

-----------------------------------------------------------------------------
(* What a step leaves to a stream or a call                                 *)

\* Whatever holds of the messages of stream i in q holds of those in p.
Passes(q, p, i) ==
  /\ \A f : NumberedIn(q, i, f) => NumberedIn(p, i, f)
  /\ \A f, n : Leads(q, i, Len(q) + 1, f, n) => Leads(p, i, Len(p) + 1, f, n)
  /\ \A h : ChunksIn(q, i, h) => ChunksIn(p, i, h)
  /\ \A h, n : Reaches(q, i, Len(q) + 1, h, n) => Reaches(p, i, Len(p) + 1, h, n)
  /\ NoneOf(q, i) => NoneOf(p, i)

\* A message of somebody else is added,
LEMMA PassesAppend ==
  ASSUME NEW q \in Seq(DownMessage), NEW m \in DownMessage, NEW i \in Stream, ~IsOf(m, i)
  PROVE  Passes(q, Append(q, m), i)
  <1>1. ~IsChunkOf(m, i) /\ Len(q) \in Nat /\ Len(Append(q, m)) + 1 = Len(q) + 2
    BY Appended DEF IsChunkOf, IsOf
  <1>2. \A f : NumberedIn(q, i, f) => NumberedIn(Append(q, m), i, f)
    BY NumberedAppend
  <1>3. \A f, n : Leads(q, i, Len(q) + 1, f, n) => Leads(Append(q, m), i, Len(q) + 2, f, n)
    BY LeadsNext
  <1>4. \A h : ChunksIn(q, i, h) => ChunksIn(Append(q, m), i, h)
    BY <1>1, ChunksAppend
  <1>5. \A h, n : Reaches(q, i, Len(q) + 1, h, n) => Reaches(Append(q, m), i, Len(q) + 2, h, n)
    BY <1>1, ReachesNext
  <1>6. NoneOf(q, i) => NoneOf(Append(q, m), i)
    BY DownSends
  <1> QED BY <1>1, <1>2, <1>3, <1>4, <1>5, <1>6 DEF Passes

\* or taken.
LEMMA PassesTail ==
  ASSUME NEW q \in Seq(DownMessage), q # <<>>, NEW i \in Stream, ~IsOf(Head(q), i)
  PROVE  Passes(q, Tail(q), i)
  <1>1. /\ ~IsChunkOf(Head(q), i) /\ Len(q) \in Nat \ {0} /\ Len(Tail(q)) + 1 = Len(q)
        /\ Len(q) \in 1..Len(q) /\ DOMAIN q = 1..Len(q)
        /\ DOMAIN Tail(q) = 1..(Len(q) - 1) /\ \A k \in 1..(Len(q) - 1) : Tail(q)[k] = q[k + 1]
    BY Shifted DEF IsChunkOf, IsOf
  <1>2. \A f : NumberedIn(q, i, f) => NumberedIn(Tail(q), i, f)
    BY NumberedTail
  <1>3. \A f, n : Leads(q, i, Len(q) + 1, f, n) => Leads(Tail(q), i, Len(q), f, n)
    BY <1>1, LeadsTail
  <1>4. \A h : ChunksIn(q, i, h) => ChunksIn(Tail(q), i, h)
    BY <1>1, ChunksTail
  <1>5. \A h, n : Reaches(q, i, Len(q) + 1, h, n) => Reaches(Tail(q), i, Len(q), h, n)
    BY <1>1, ReachesTail
  <1>6. NoneOf(q, i) => NoneOf(Tail(q), i)
    BY <1>1 DEF NoneOf
  <1> QED BY <1>1, <1>2, <1>3, <1>4, <1>5, <1>6 DEF Passes

LEMMA PassesOn ==
  ASSUME NEW q, NEW r, NEW p, NEW i, Passes(q, r, i), Passes(r, p, i)
  PROVE  Passes(q, p, i)
  BY DEF Passes

LEMMA PassesItself ==
  ASSUME NEW q, NEW i
  PROVE  Passes(q, q, i)
  BY DEF Passes

\* A stream is left alone.
LeavesStream(i) ==
  /\ Passes(down, down', i) /\ Count(down', Lasts(i)) = Count(down, Lasts(i))
  /\ Count(up', Requests(i)) = Count(up, Requests(i)) /\ handler'[i] = handler[i]
  /\ i \in used' <=> i \in used
  /\ emitted'[i] = emitted[i] /\ heardTo'[i] = heardTo[i]
  /\ i \in DOMAIN streams' <=> i \in DOMAIN streams
  /\ i \in DOMAIN streams => streams'[i] = streams[i]

\* It stays where it is.
LEMMA StreamStaysPlaced ==
  ASSUME NEW i \in Stream, LeavesStream(i), StreamIsPlaced(i)
  PROVE  StreamIsPlaced(i)'
  BY DEF LeavesStream, StreamIsPlaced

LEMMA StreamStaysNumbered ==
  ASSUME NEW i \in Stream, LeavesStream(i)
  PROVE  /\ Asks(i)' <=> Asks(i)
         /\ i \in DOMAIN streams /\ Numbered(i) => Numbered(i)'
         /\ Unheard(i) => Unheard(i)'
  <1>1. Asks(i)' <=> Asks(i)
    BY DEF LeavesStream, Asks
  <1>2. Speaks(i)' <=> Speaks(i)
    BY <1>1 DEF LeavesStream, Speaks
  <1>3. i \in DOMAIN streams /\ Numbered(i) => Numbered(i)'
    BY <1>2 DEF LeavesStream, Numbered, Passes
  <1>4. Unheard(i) => Unheard(i)'
    BY DEF LeavesStream, Unheard, Passes
  <1> QED BY <1>1, <1>3, <1>4

LeavesSub(i) ==
  /\ sub'[i] = sub[i]
  /\ \A t \in Task : sub[i].task = {t} /\ ~sub[i].closed => topic'[t].buffer = topic[t].buffer

LEMMA StreamStaysChunked ==
  ASSUME NEW i \in Stream, LeavesStream(i), LeavesSub(i), Chunked(i)
  PROVE  Chunked(i)'
  <1>1. ChunksIn(down, i, heardTo[i])'
    BY DEF LeavesStream, Chunked, Passes
  <1>2. GoesOn(down, i, Len(down) + 1, heardTo[i], sub[i].queue)'
    BY DEF LeavesStream, LeavesSub, Chunked, Passes, GoesOn
  <1>3. UpToDate(i)'
    BY DEF LeavesStream, LeavesSub, Chunked, Passes, UpToDate
  <1> QED BY <1>1, <1>2, <1>3 DEF Chunked

\* What is to be shown of a stream a step has to do with.
Keeps(i) ==
  attached' => /\ StreamIsPlaced(i)'
               /\ i \in DOMAIN streams' => Numbered(i)' /\ Chunked(i)'
               /\ (i \notin used \/ Asks(i))' => Unheard(i)'

\* It is enough to look at the streams a step has to do with.
LEMMA StreamsKept ==
  ASSUME Typed, Placed, InOrder, Whole, attached' => attached, DOMAIN streams' \subseteq Stream,
         \A i \in Stream : (LeavesStream(i) /\ LeavesSub(i)) \/ Keeps(i), TopicsAreWhole'
  PROVE  /\ attached' => \A i \in Stream : StreamIsPlaced(i)'
         /\ InOrder' /\ Whole'
  <1>1. ASSUME NEW i \in Stream, attached' PROVE StreamIsPlaced(i)'
    BY <1>1, StreamStaysPlaced DEF Placed, Keeps
  <1>2. \A i \in Stream : LeavesStream(i) => (i \in DOMAIN streams' <=> i \in DOMAIN streams)
    BY DEF LeavesStream
  <1>3. ASSUME attached', NEW i \in DOMAIN streams' PROVE Numbered(i)'
    BY <1>2, <1>3, StreamStaysNumbered DEF InOrder, Keeps
  <1>4. ASSUME attached', NEW i \in Stream, (i \notin used \/ Asks(i))' PROVE Unheard(i)'
    <2>1. CASE LeavesStream(i)
      <3>1. i \notin used \/ Asks(i)
        BY <1>4, <2>1, StreamStaysNumbered DEF LeavesStream
      <3> QED BY <1>4, <2>1, <3>1, StreamStaysNumbered DEF InOrder
    <2> QED BY <1>4, <2>1 DEF Keeps
  <1>5. ASSUME attached', NEW i \in DOMAIN streams' PROVE Chunked(i)'
    BY <1>2, <1>5, StreamStaysChunked DEF Whole, Keeps
  <1> QED BY <1>1, <1>3, <1>4, <1>5 DEF InOrder, Whole

\* A step that has to do with calls or events only.
LEMMA StreamsRest ==
  ASSUME Typed, Placed, InOrder, Whole, attached' => attached, UNCHANGED hubVars,
         DOMAIN streams' \subseteq Stream, \A i \in Stream : LeavesStream(i)
  PROVE  /\ attached' => \A i \in Stream : StreamIsPlaced(i)'
         /\ InOrder' /\ Whole'
  <1>1. \A i \in Stream : LeavesSub(i)
    BY DEF LeavesSub, hubVars
  <1>2. TopicsAreWhole'
    BY StreamsAssumption DEF Whole, TopicsAreWhole, hubVars, LeavesStream
  <1> QED BY <1>1, <1>2, StreamsKept

\* A call is left alone.
LeavesCall(i) ==
  /\ Count(up', Requests(i)) = Count(up, Requests(i))
  /\ Count(down', Answers(i)) = Count(down, Answers(i))
  /\ inflight'[i] = inflight[i] /\ (i \in pending' <=> i \in pending)

LEMMA CallStaysPlaced ==
  ASSUME NEW i \in Call, LeavesCall(i), CallIsPlaced(i)
  PROVE  CallIsPlaced(i)'
  BY DEF LeavesCall, CallIsPlaced

-----------------------------------------------------------------------------
(* What the client sends                                                    *)

\* Every call that is waited for from now on is on the way.
CallsOnce ==
  /\ up' \in Seq(UpMessage) /\ (~attached => up' = <<>>)
  /\ \A j \in Stream : Count(up', Requests(j)) = Count(up, Requests(j)) /\ (j \in used' <=> j \in used)
  /\ \A j \in Call : Count(up', Requests(j)) + (IF j \in pending THEN 1 ELSE 0)
                       = Count(up, Requests(j)) + (IF j \in pending' THEN 1 ELSE 0)
  /\ used' \subseteq Id /\ deaf' \subseteq used' /\ pending' \subseteq Call /\ pending' \subseteq used'
  /\ used \subseteq used'

LEMMA QuietCalls ==
  ASSUME WiresTyped, ClientTyped, Quiet
  PROVE  CallsOnce
  BY DEF WiresTyped, ClientTyped, Quiet, CallsOnce

LEMMA CallsCalls ==
  ASSUME WiresTyped, ClientTyped, NEW i, NEW aborted, Calls(i, aborted)
  PROVE  CallsOnce
  <1>1. /\ i \in Call /\ i \notin used /\ i \in Id /\ attached /\ up \in Seq(UpMessage)
        /\ pending' = pending \cup {i} /\ used' = used \cup {i} /\ (deaf' = deaf \/ deaf' = deaf \cup {i})
    BY DEF WiresTyped, Calls, Id
  <1>2. Request(i) \in UpMessage /\ CancelOf(i) \in UpMessage
    BY <1>1, Messages
  <1>3. \/ up' = Append(up, Request(i))
        \/ up' = Append(Append(up, CancelOf(i)), Request(i))
    <2>1. up \o <<Request(i)>> = Append(up, Request(i)) /\ up \o <<CancelOf(i)>> = Append(up, CancelOf(i))
      BY <1>1, <1>2, AppendIsConcat
    <2>6. up \o <<CancelOf(i), Request(i)>> = Append(Append(up, CancelOf(i)), Request(i))
      BY <1>1, <1>2, TwoMore
    <2>7. up' = up \o <<CancelOf(i), Request(i)>> \/ up' = up \o <<Request(i)>>
      BY DEF Calls
    <2> QED BY <2>1, <2>6, <2>7
  <1>4. /\ up' \in Seq(UpMessage)
        /\ \A j \in Id : /\ Count(up, Requests(j)) \in Nat
                         /\ Count(up', Requests(j)) = Count(up, Requests(j)) + IF j = i THEN 1 ELSE 0
    <2>1. \A j \in Id : CancelOf(i) # Request(j) /\ (Request(i) = Request(j) <=> i = j)
      BY <1>1, Messages
    <2>2. CASE up' = Append(up, Request(i))
      BY <1>1, <1>2, <2>1, <2>2, UpSends
    <2>3. CASE up' = Append(Append(up, CancelOf(i)), Request(i))
      <3> DEFINE r == Append(up, CancelOf(i))
      <3>1. /\ r \in Seq(UpMessage)
            /\ \A j \in Id : Count(up, Requests(j)) \in Nat /\ Count(r, Requests(j)) = Count(up, Requests(j))
        BY <1>1, <1>2, <2>1, UpSends
      <3>2. up' = Append(r, Request(i))
        BY <2>3
      <3> HIDE DEF r
      <3> QED BY <1>2, <2>1, <3>1, <3>2, UpSends
    <2> QED BY <1>3, <2>2, <2>3
  <1>5. i \notin pending /\ pending \subseteq Call /\ pending \subseteq used /\ used \subseteq Id /\ deaf \subseteq used
    BY <1>1 DEF ClientTyped
  <1>6. i \notin Stream
    BY <1>1, KindsAssumption DEF Call
  <1>7. \A j \in Stream : Count(up', Requests(j)) = Count(up, Requests(j)) /\ (j \in used' <=> j \in used)
    BY <1>1, <1>4, <1>6 DEF Id
  <1>8. ASSUME NEW j \in Call
        PROVE  Count(up', Requests(j)) + (IF j \in pending THEN 1 ELSE 0)
                 = Count(up, Requests(j)) + (IF j \in pending' THEN 1 ELSE 0)
    BY <1>1, <1>4, <1>5 DEF Id
  <1>9. used' \subseteq Id /\ deaf' \subseteq used' /\ pending' \subseteq Call /\ pending' \subseteq used'
    BY <1>1, <1>5
  <1> QED BY <1>1, <1>4, <1>7, <1>8, <1>9 DEF CallsOnce

\* invalidate() and fetch(): the record shows what it did, or is being fetched.
LEMMA FetchCalls ==
  ASSUME WiresTyped, ClientTyped, CacheTyped, NEW q, Fetch(q)
  PROVE  /\ CallsOnce
         /\ rec' = rec \/ rec'.fetch # {}
         /\ rec'.fetch # {}
         /\ \A d : rec.data \in 0..d =>
              rec' \in [status : {"absent", "loading", "success", "error"}, data : 0..d, fetch : SUBSET Query]
  <1>1. CASE Fetching
    BY <1>1, QuietCalls DEF Fetch, Fetching, CacheTyped
  <1>2. CASE ~Fetching
    <2>1. CallsOnce
      BY <1>2, CallsCalls DEF Fetch
    <2>2. rec' = [rec EXCEPT !.fetch = {q}, !.status = IF @ = "absent" THEN "loading" ELSE @] /\ q \in Query
      BY <1>2 DEF Fetch
    <2> QED BY <2>1, <2>2 DEF CacheTyped
  <1> QED BY <1>1, <1>2

LEMMA InvalidateCalls ==
  ASSUME WiresTyped, ClientTyped, CacheTyped, NEW q, Invalidate(q)
  PROVE  /\ CallsOnce
         /\ rec' = rec \/ rec'.fetch # {}
         /\ rec'.status = "absent" \/ rec'.fetch # {}
         /\ \A d : rec.data \in 0..d =>
              rec' \in [status : {"absent", "loading", "success", "error"}, data : 0..d, fetch : SUBSET Query]
  <1>1. CASE rec.status = "absent"
    BY <1>1, QuietCalls DEF Invalidate, CacheTyped
  <1>2. CASE rec.status # "absent"
    BY <1>2, FetchCalls DEF Invalidate
  <1> QED BY <1>1, <1>2

\* In which place a stream is.
LEMMA StreamPlaces ==
  ASSUME WiresTyped, NEW i \in Stream, StreamIsPlaced(i)
  PROVE  /\ Count(up, Requests(i)) \in Nat /\ Count(down, Lasts(i)) \in Nat
         /\ Asks(i) => /\ Count(up, Requests(i)) = 1 /\ Count(down, Lasts(i)) = 0
                       /\ handler[i] # "running" /\ i \in DOMAIN streams
         /\ handler[i] = "running" => /\ Count(up, Requests(i)) = 0 /\ Count(down, Lasts(i)) = 0
                                      /\ i \in DOMAIN streams
         /\ i \notin DOMAIN streams => /\ Count(up, Requests(i)) = 0 /\ Count(down, Lasts(i)) = 0
                                       /\ handler[i] # "running"
  <1> DEFINE a == Count(up, Requests(i))
             b == Count(down, Lasts(i))
             r == IF handler[i] = "running" THEN 1 ELSE 0
             o == IF i \in DOMAIN streams THEN 1 ELSE 0
  <1>1. a \in Nat /\ b \in Nat
    BY CountType DEF WiresTyped
  <1>2. r \in {0, 1} /\ o \in {0, 1} /\ (r = 1 <=> handler[i] = "running") /\ (o = 1 <=> i \in DOMAIN streams)
    OBVIOUS
  <1>3. a + r + b = o /\ (Asks(i) <=> a # 0)
    BY DEF StreamIsPlaced, Asks
  <1> HIDE DEF a, b, r, o
  <1>4. /\ a # 0 => a = 1 /\ b = 0 /\ r = 0 /\ o = 1
        /\ r = 1 => a = 0 /\ b = 0 /\ o = 1
        /\ o = 0 => a = 0 /\ b = 0 /\ r = 0
    BY <1>1, <1>2, <1>3
  <1>5. /\ a \in Nat /\ b \in Nat
        /\ Asks(i) => a = 1 /\ b = 0 /\ handler[i] # "running" /\ i \in DOMAIN streams
        /\ handler[i] = "running" => a = 0 /\ b = 0 /\ i \in DOMAIN streams
        /\ i \notin DOMAIN streams => a = 0 /\ b = 0 /\ handler[i] # "running"
    BY <1>1, <1>2, <1>3, <1>4
  <1> QED BY <1>5 DEF a, b

\* Nothing else has to do with what is said of the messages of a stream.
LEMMA CallsLeaveStreams ==
  ASSUME CallsOnce, UNCHANGED <<down, handler, streams, emitted, heardTo>>
  PROVE  \A i \in Stream : LeavesStream(i)
  BY PassesItself DEF CallsOnce, LeavesStream

\* A step of the client that sends something.
LEMMA ClientSends ==
  ASSUME RendererInv, CallsOnce,
         UNCHANGED <<down, host, streams, lastSeq, told, hubVars, hostData, asked, view, heardTo, known>>,
         cancels' \in 0..MaxCancels, listening' \subseteq Event, listens' \in 0..MaxListens,
         rec' \in [status : {"absent", "loading", "success", "error"}, data : 0..data, fetch : SUBSET Query],
         rec' = rec \/ rec'.fetch # {}
  PROVE  RendererInv'
  <1>0. /\ Typed /\ Placed /\ InOrder /\ Whole /\ Fresh
        /\ WiresTyped /\ HostTyped /\ ClientTyped /\ HubTypeOK /\ ViewTyped /\ CacheTyped
    BY DEF RendererInv, Typed
  <1>1. UNCHANGED <<attached, subscribed, inflight, handler, emitted, eventSeq>>
    BY DEF host
  <1>2. WiresTyped'
    BY <1>0, <1>1 DEF WiresTyped, CallsOnce
  <1>3. HostTyped'
    BY <1>0, <1>1 DEF HostTyped
  <1>4. ClientTyped'
    BY <1>0 DEF ClientTyped, CallsOnce
  <1>5. HubTypeOK'
    BY <1>0 DEF HubTypeOK, hubVars
  <1>6. ViewTyped'
    BY <1>0 DEF ViewTyped
  <1>7. CacheTyped'
    BY <1>0 DEF CacheTyped, hostData
  <1>8. TrueIn(down, announced, data)'
    BY <1>0 DEF Typed, hostData
  <1>9. Typed'
    BY <1>2, <1>3, <1>4, <1>5, <1>6, <1>7, <1>8 DEF Typed
  <1>10. /\ attached' => \A i \in Stream : StreamIsPlaced(i)'
         /\ InOrder' /\ Whole'
    BY <1>0, <1>1, CallsLeaveStreams, StreamsRest DEF ClientTyped
  <1>11. ASSUME attached', NEW i \in Call PROVE CallIsPlaced(i)'
    <2>1. /\ Count(up', Requests(i)) + (IF i \in pending THEN 1 ELSE 0)
               = Count(up, Requests(i)) + (IF i \in pending' THEN 1 ELSE 0)
          /\ CallIsPlaced(i)
      BY <1>0, <1>1, <1>11 DEF CallsOnce, Placed
    <2>2. Count(up', Requests(i)) \in Nat /\ Count(up, Requests(i)) \in Nat /\ Count(down, Answers(i)) \in Nat
      BY <1>0, <1>2, CountType DEF WiresTyped
    <2> QED BY <1>1, <2>1, <2>2 DEF CallIsPlaced
  <1>12. Placed'
    BY <1>10, <1>11 DEF Placed
  <1>13. Fresh'
    BY <1>0, <1>1 DEF Fresh, FreshAtRest, Fetching
  <1> QED BY <1>9, <1>10, <1>12, <1>13 DEF RendererInv

LEMMA ReadKeeps ==
  ASSUME RendererInv, NEW q, Read(q)
  PROVE  RendererInv'
  <1>0. WiresTyped /\ ClientTyped /\ ViewTyped /\ CacheTyped /\ rec.data \in 0..data
    BY DEF RendererInv, Typed, CacheTyped
  <1>1. CallsOnce /\ rec'.fetch # {}
    BY <1>0, FetchCalls DEF Read
  <1>2. rec' \in [status : {"absent", "loading", "success", "error"}, data : 0..data, fetch : SUBSET Query]
    BY <1>0, FetchCalls DEF Read
  <1> QED BY <1>0, <1>1, <1>2, ClientSends DEF Read, ClientTyped, ViewTyped

LEMMA RunCommandKeeps ==
  ASSUME RendererInv, NEW c, NEW aborted, RunCommand(c, aborted)
  PROVE  RendererInv'
  <1>0. WiresTyped /\ ClientTyped /\ ViewTyped /\ CacheTyped
    BY DEF RendererInv, Typed
  <1>1. CallsOnce
    BY <1>0, CallsCalls DEF RunCommand, Dispatch
  <1>2. cancels' \in 0..MaxCancels
    BY <1>0, BoundsAssumption DEF RunCommand, ViewTyped
  <1> QED BY <1>0, <1>1, <1>2, ClientSends
          DEF RunCommand, Dispatch, ClientTyped, CacheTyped, elsewhere, cacheVars

LEMMA AbortCallKeeps ==
  ASSUME RendererInv, NEW i, AbortCall(i)
  PROVE  RendererInv'
  <1>0. WiresTyped /\ ClientTyped /\ ViewTyped /\ CacheTyped
    BY DEF RendererInv, Typed
  <1>1. i \in Id /\ CancelOf(i) \in UpMessage /\ up' = Append(up, CancelOf(i)) /\ attached /\ up \in Seq(UpMessage)
        /\ UNCHANGED <<pending, used, deaf>>
    BY <1>0, Messages DEF AbortCall, Cancel, Id, WiresTyped, client, history
  <1>2. CallsOnce
    <2>1. up' \in Seq(UpMessage) /\ \A j \in Id : Count(up', Requests(j)) = Count(up, Requests(j))
      BY <1>1, UpSends, Messages
    <2> QED BY <1>0, <1>1, <2>1 DEF CallsOnce, ClientTyped, Id
  <1>3. cancels' \in 0..MaxCancels
    BY <1>0, BoundsAssumption DEF AbortCall, ViewTyped
  <1> QED BY <1>0, <1>2, <1>3, ClientSends
          DEF AbortCall, Cancel, ClientTyped, CacheTyped, elsewhere, cacheVars, client, history

LEMMA OnOffKeeps ==
  ASSUME RendererInv, OnOff
  PROVE  RendererInv'
  <1>0. WiresTyped /\ ClientTyped /\ ViewTyped /\ CacheTyped /\ up \in Seq(UpMessage)
    BY DEF RendererInv, Typed, WiresTyped
  <1> DEFINE e == "task.changed"
  <1>1. PICK m \in {[type |-> "subscribe", name |-> e], [type |-> "unsubscribe", name |-> e]} :
           up' = Append(up, m)
    BY DEF OnOff, Listen, Unlisten
  <1>2. attached /\ UNCHANGED <<down, host, pending, streams, lastSeq, used, deaf, told>>
    BY DEF OnOff, Listen, Unlisten, history
  <1>3. m \in UpMessage /\ \A j \in Id : m # Request(j)
    BY <1>1, EventsAssumption, Messages
  <1>4. CallsOnce
    <2>1. up' \in Seq(UpMessage) /\ \A j \in Id : Count(up', Requests(j)) = Count(up, Requests(j))
      BY <1>0, <1>1, <1>3, UpSends
    <2> QED BY <1>0, <1>2, <2>1 DEF CallsOnce, ClientTyped, Id
  <1>5. listening' \subseteq Event /\ listens' \in 0..MaxListens
    BY <1>0, KindsAssumption DEF OnOff, Listen, Unlisten, ClientTyped, history
  <1>6. UNCHANGED <<hubVars, hostData, asked, rec, known, view, heardTo, cancels>>
    BY DEF OnOff, elsewhere, cacheVars
  <1> QED BY <1>0, <1>2, <1>4, <1>5, <1>6, ClientSends DEF ViewTyped, CacheTyped

-----------------------------------------------------------------------------
(* The view is opened for a task                                            *)

\* The handle of the view is the only one, if there is one.
LEMMA OnlyOne ==
  ASSUME NEW j
  PROVE  SetToSeq({j}) = <<j>>
  <1> DEFINE f == [k \in 1..1 |-> j]
  <1>1. Cardinality({j}) = 1
    BY FS_Singleton
  <1>2. f \in [1..1 -> {j}] /\ IsInjective(f)
    BY DEF IsInjective
  <1>3. \A g \in [1..1 -> {j}] : g = f
    OBVIOUS
  <1>4. SetToSeq({j}) = f
    BY <1>1, <1>2, <1>3 DEF SetToSeq
  <1>5. f = <<j>>
    OBVIOUS
  <1> QED BY <1>4, <1>5

LEMMA NoneAtAll == SetToSeq({}) = <<>>
  <1> DEFINE f == [k \in 1..0 |-> k]
  <1>1. Cardinality({}) = 0
    BY FS_EmptySet
  <1>2. f \in [1..0 -> {}] /\ IsInjective(f)
    BY DEF IsInjective
  <1>3. \A g \in [1..0 -> {}] : g = f
    OBVIOUS
  <1>4. SetToSeq({}) = f
    BY <1>1, <1>2, <1>3 DEF SetToSeq
  <1>5. f = <<>>
    OBVIOUS
  <1> QED BY <1>4, <1>5

\* Of requests only the new stream's is added.
LEMMA OpenSends ==
  ASSUME WiresTyped, ViewTyped, NEW i, OpenStream(i, SetToSeq(view.handle))
  PROVE  /\ up' \in Seq(UpMessage) /\ attached
         /\ \A j \in Id : /\ Count(up, Requests(j)) \in Nat
                          /\ Count(up', Requests(j)) = Count(up, Requests(j)) + IF j = i THEN 1 ELSE 0
  <1> DEFINE old == SetToSeq(view.handle)
             back == [k \in DOMAIN old |-> CancelOf(old[k])]
             r == up \o back
  <1>1. i \in Id /\ attached /\ up \in Seq(UpMessage) /\ up' = r \o <<Request(i)>>
    BY DEF OpenStream, WiresTyped, Id
  <1>2. \A j \in Id : /\ Request(j) \in UpMessage /\ CancelOf(j) \in UpMessage
                      /\ \A k \in Id : CancelOf(k) # Request(j) /\ (Request(k) = Request(j) <=> j = k)
    BY Messages
  <1>3. r \in Seq(UpMessage) /\ \A j \in Id : Count(r, Requests(j)) = Count(up, Requests(j))
    <2>1. CASE view.handle = {}
      <3>1. back = <<>>
        BY <2>1, NoneAtAll
      <3>2. r = up
        BY <1>1, <3>1, ConcatEmptySeq
      <3> QED BY <1>1, <3>2
    <2>2. ASSUME NEW j \in Stream, view.handle = {j}
          PROVE  r \in Seq(UpMessage) /\ \A k \in Id : Count(r, Requests(k)) = Count(up, Requests(k))
      <3>1. old = <<j>>
        BY <2>2, OnlyOne
      <3>2. back = <<CancelOf(j)>>
        BY <3>1
      <3>3. j \in Id /\ CancelOf(j) \in UpMessage
        BY <1>2 DEF Id
      <3>4. Append(up, CancelOf(j)) = up \o <<CancelOf(j)>>
        BY <1>1, <3>3, AppendIsConcat
      <3>5. r = Append(up, CancelOf(j))
        BY <3>2, <3>4
      <3> HIDE DEF r
      <3> QED BY <1>1, <1>2, <3>3, <3>5, UpSends
    <2> QED BY <2>1, <2>2 DEF ViewTyped
  <1> HIDE DEF r
  <1>4. up' = Append(r, Request(i)) /\ Request(i) \in UpMessage
    BY <1>1, <1>2, <1>3, AppendIsConcat
  <1>5. up' \in Seq(UpMessage)
    BY <1>3, <1>4, UpSends
  <1>6. \A j \in Id : Count(up, Requests(j)) \in Nat
    BY <1>1, CountType
  <1>7. \A j \in Id : Count(up', Requests(j)) = Count(r, Requests(j)) + IF Request(i) = Request(j) THEN 1 ELSE 0
    BY <1>3, <1>4, UpSends
  <1> QED BY <1>1, <1>2, <1>3, <1>5, <1>6, <1>7

LEMMA SelectKeeps ==
  ASSUME RendererInv, NEW t \in Task, NEW i, Select(t, i)
  PROVE  RendererInv'
  <1>0. /\ Typed /\ Placed /\ InOrder /\ Whole /\ Fresh
        /\ WiresTyped /\ HostTyped /\ ClientTyped /\ HubTypeOK /\ ViewTyped /\ CacheTyped
    BY DEF RendererInv, Typed
  <1>1. /\ up' \in Seq(UpMessage) /\ attached
        /\ \A j \in Id : /\ Count(up, Requests(j)) \in Nat
                         /\ Count(up', Requests(j)) = Count(up, Requests(j)) + IF j = i THEN 1 ELSE 0
    BY <1>0, OpenSends DEF Select
  <1>2. /\ i \in Stream /\ i \notin used /\ i \in Id /\ i \notin DOMAIN streams
        /\ used' = used \cup {i} /\ UNCHANGED <<down, host, pending, listening, lastSeq, deaf, told, listens>>
        /\ streams' = [j \in DOMAIN streams \cup {i} |-> IF j = i THEN 0 ELSE streams[j]]
    BY <1>0 DEF Select, OpenStream, Id, ClientTyped
  <1>3. UNCHANGED <<attached, subscribed, inflight, handler, emitted, eventSeq>>
    BY <1>2 DEF host
  <1>4. UNCHANGED <<row, topic, sub, data, acted, seen, announced, rec, known, heardTo, cancels>>
    BY DEF Select, hubVars, hostData, cacheVars
  <1>5. WiresTyped'
    BY <1>0, <1>1, <1>2, <1>3 DEF WiresTyped
  <1>6. HostTyped'
    BY <1>0, <1>3 DEF HostTyped
  <1>7. ClientTyped'
    <2>1. streams' \in [DOMAIN streams' -> Nat] /\ DOMAIN streams' = DOMAIN streams \cup {i}
      BY <1>0, <1>2 DEF ClientTyped
    <2> QED BY <1>0, <1>2, <2>1 DEF ClientTyped
  <1>8. HubTypeOK'
    BY <1>0, <1>4 DEF HubTypeOK
  <1>9. ViewTyped'
    <2>1. view' = [Empty EXCEPT !.task = {t}, !.handle = {i}] /\ asked' = [asked EXCEPT ![i] = {t}]
      BY DEF Select
    <2>2. view' \in [task : SUBSET Task, handle : SUBSET Stream, done : BOOLEAN, error : BOOLEAN,
                     from : SUBSET Stream] /\ view'.handle = {i}
      BY <1>2, <2>1 DEF Empty
    <2> QED BY <1>0, <1>2, <1>4, <2>1, <2>2 DEF ViewTyped
  <1>10. CacheTyped'
    BY <1>0, <1>4 DEF CacheTyped
  <1>11. Typed'
    BY <1>0, <1>2, <1>4, <1>5, <1>6, <1>7, <1>8, <1>9, <1>10 DEF Typed
  <1>12. \A j \in Stream : LeavesSub(j)
    BY <1>4 DEF LeavesSub
  <1>13. \A j \in Stream \ {i} : LeavesStream(j)
    BY <1>1, <1>2, <1>3, <1>4, PassesItself DEF LeavesStream, Id
  <1>14. Keeps(i)
    <2>1. StreamIsPlaced(i) /\ Unheard(i) /\ Chunked(i)'
      <3>1. StreamIsPlaced(i) /\ Unheard(i)
        BY <1>0, <1>1, <1>2 DEF Placed, InOrder
      <3>2. handler[i] # "running"
        BY <1>0, <1>2, <3>1, StreamPlaces
      <3>3. sub[i] = None
        BY <1>0, <1>2, <3>2, StreamsAssumption DEF Whole, TopicsAreWhole
      <3>4. \A k \in DOMAIN down : ~IsChunkOf(down[k], i)
        BY <3>1 DEF Unheard, NoneOf, IsChunkOf, IsOf
      <3>5. sub'[i].queue = <<>> /\ sub'[i].closed
        BY <1>4, <3>3 DEF None
      <3> QED BY <1>2, <3>1, <3>4, <3>5 DEF Chunked, ChunksIn, GoesOn, UpToDate
    <2>2. StreamIsPlaced(i)'
      <3>1. Count(up, Requests(i)) \in Nat /\ Count(down, Lasts(i)) \in Nat
        BY <1>0, CountType DEF WiresTyped
      <3> QED BY <1>1, <1>2, <1>3, <2>1, <3>1 DEF StreamIsPlaced
    <2>3. Unheard(i)'
      BY <1>2, <1>3, <1>4, <2>1 DEF Unheard
    <2>4. Numbered(i)'
      <3>1. NoneOf(down, i) /\ emitted[i] = 0 /\ streams'[i] = 0
        BY <1>2, <2>1 DEF Unheard
      <3>2. NumberedIn(down', i, streams'[i])
        BY <1>2, <3>1 DEF NumberedIn, NoneOf
      <3>3. Len(down) \in Nat /\ DOMAIN down = 1..Len(down)
        BY <1>0, LenProperties DEF WiresTyped
      <3>4. \A b \in 1..((Len(down) + 1) - 1) : ~IsOf(down[b], i)
        BY <3>1, <3>3 DEF NoneOf
      <3>5. Leads(down, i, Len(down) + 1, 0, 0)
        BY <3>4 DEF Leads
      <3> QED BY <1>2, <1>3, <3>1, <3>2, <3>5 DEF Numbered
    <2> QED BY <2>1, <2>2, <2>3, <2>4 DEF Keeps
  <1>15. TopicsAreWhole'
    BY <1>0, <1>3, <1>4 DEF Whole, TopicsAreWhole
  <1>16. /\ attached' => \A j \in Stream : StreamIsPlaced(j)'
         /\ InOrder' /\ Whole'
    BY <1>0, <1>3, <1>7, <1>12, <1>13, <1>14, <1>15, StreamsKept DEF ClientTyped
  <1>17. \A j \in Call : LeavesCall(j)
    <2>1. i \notin Call
      BY <1>2, KindsAssumption DEF Call
    <2> QED BY <1>1, <1>2, <1>3, <2>1 DEF LeavesCall, Id
  <1>18. Placed'
    BY <1>0, <1>1, <1>16, <1>17, CallStaysPlaced DEF Placed
  <1>19. Fresh'
    BY <1>0, <1>2, <1>3, <1>4 DEF Fresh, FreshAtRest, Fetching
  <1> QED BY <1>11, <1>16, <1>18, <1>19 DEF RendererInv

\* The window is closed: there is nothing on the way, and nothing to be said of it.
LEMMA CloseKeeps ==
  ASSUME RendererInv, Close
  PROVE  RendererInv'
  <1>0. /\ Typed /\ Placed /\ InOrder /\ Whole /\ Fresh
        /\ WiresTyped /\ HostTyped /\ ClientTyped /\ HubTypeOK /\ ViewTyped /\ CacheTyped
    BY DEF RendererInv, Typed
  <1>1. /\ attached' = FALSE /\ subscribed' = {} /\ up' = <<>> /\ down' = <<>>
        /\ inflight' = [i \in Id |-> IF inflight[i] = "live" /\ i \in Stream THEN "aborted" ELSE "no"]
        /\ UNCHANGED <<handler, emitted, eventSeq, client, history>>
    BY DEF Close, Detach
  <1>2. UNCHANGED <<row, topic, sub, data, acted, seen, announced, asked, rec, known, view, heardTo, cancels>>
    BY DEF Close, elsewhere, hubVars, hostData, cacheVars
  <1>3. WiresTyped'
    <2>1. <<>> \in Seq(UpMessage) /\ <<>> \in Seq(DownMessage)
      OBVIOUS
    <2> QED BY <1>1, <2>1 DEF WiresTyped
  <1>4. HostTyped'
    <2>1. \A i \in Call : i \in Id /\ i \notin Stream
      BY KindsAssumption DEF Call, Id
    <2> QED BY <1>0, <1>1, <2>1 DEF HostTyped
  <1>5. ClientTyped'
    BY <1>0, <1>1 DEF ClientTyped, client, history
  <1>6. HubTypeOK' /\ ViewTyped' /\ CacheTyped' /\ TopicsAreWhole'
    BY <1>0, <1>1, <1>2 DEF HubTypeOK, ViewTyped, CacheTyped, Whole, TopicsAreWhole
  <1>7. DOMAIN down' = {}
    BY <1>1
  <1>8. TrueIn(down, announced, data)' /\ Fresh'
    BY <1>0, <1>1, <1>2, <1>7 DEF TrueIn, Fresh, FreshIn, FreshAtRest, Fetching
  <1> QED BY <1>1, <1>3, <1>4, <1>5, <1>6, <1>8 DEF RendererInv, Typed, Placed, InOrder, Whole

-----------------------------------------------------------------------------
(* What the host sends                                                      *)

\* An answer or an event is no stream's.
LEMMA OtherSent ==
  ASSUME NEW q \in Seq(DownMessage), NEW m \in DownMessage, m.type # "stream"
  PROVE  /\ Append(q, m) \in Seq(DownMessage)
         /\ \A j \in Stream : Passes(q, Append(q, m), j) /\ Count(Append(q, m), Lasts(j)) = Count(q, Lasts(j))
         /\ \A j \in Call : /\ Count(q, Answers(j)) \in Nat
                            /\ Count(Append(q, m), Answers(j))
                                 = Count(q, Answers(j)) + IF m.type = "response" /\ m.id = j THEN 1 ELSE 0
  <1>1. \A j \in Stream : Passes(q, Append(q, m), j)
    BY PassesAppend DEF IsOf
  <1>2. \A j \in Stream : Count(Append(q, m), Lasts(j)) = Count(q, Lasts(j))
    BY DownSends
  <1> QED BY <1>1, <1>2, DownSends

\* A stream's last message comes with the number that is due, and it sends no
\* other.
LEMMA StreamEnds ==
  ASSUME Typed, Placed, InOrder, Whole, attached, NEW i \in Stream, Speaks(i),
         NEW m \in StreamMessage, m.id = i, m.seq = emitted[i], m.kind # "chunk", down' = Append(down, m),
         UNCHANGED <<streams, heardTo, used>>,
         Count(up', Requests(i)) = 0, handler'[i] # "running", sub'[i] = None
  PROVE  Keeps(i)
  <1>0. WiresTyped /\ ClientTyped /\ down \in Seq(DownMessage) /\ m \in DownMessage
    BY DEF Typed, WiresTyped, DownMessage
  <1>1. m.type = "stream" /\ IsOf(m, i) /\ ~IsChunkOf(m, i)
    BY DEF StreamMessage, IsOf, IsChunkOf
  <1>2. StreamIsPlaced(i)
    BY DEF Placed
  <1>3. Count(down, Lasts(i)) = 0 /\ i \in DOMAIN streams
    BY <1>0, <1>2, StreamPlaces DEF Speaks
  <1>4. Count(down', Lasts(i)) = Count(down, Lasts(i)) + 1
    BY <1>0, <1>1, DownSends
  <1>5. StreamIsPlaced(i)'
    BY <1>3, <1>4 DEF StreamIsPlaced
  <1>6. ~Speaks(i)' /\ i \in used
    BY <1>0, <1>3 DEF Speaks, Asks, ClientTyped
  <1>7. NumberedIn(down', i, streams[i])
    <2>1. NumberedIn(down, i, streams[i]) /\ Leads(down, i, Len(down) + 1, streams[i], emitted[i])
      BY <1>3 DEF InOrder, Numbered
    <2> QED BY <1>0, <2>1, NumberedAppend
  <1>8. Numbered(i)'
    BY <1>6, <1>7 DEF Numbered
  <1>9. ChunksIn(down', i, heardTo[i])
    BY <1>0, <1>1, <1>3, ChunksAppend DEF Whole, Chunked
  <1>10. Chunked(i)'
    BY <1>9 DEF Chunked, GoesOn, UpToDate, None
  <1> QED BY <1>5, <1>6, <1>8, <1>10 DEF Keeps, Speaks

\* What is to be shown of a step of the host.
LEMMA HostKeeps ==
  ASSUME RendererInv, UNCHANGED <<attached, client, history, asked, rec, known, view, heardTo, cancels>>,
         up' \in Seq(UpMessage), down' \in Seq(DownMessage), ~attached => up' = <<>> /\ down' = <<>>,
         HostTyped', HubTypeOK', CacheTyped', TrueIn(down, announced, data)', Fresh', TopicsAreWhole',
         attached => \A i \in Call : LeavesCall(i) \/ CallIsPlaced(i)',
         \A i \in Stream : (LeavesStream(i) /\ LeavesSub(i)) \/ Keeps(i)
  PROVE  RendererInv'
  <1>0. /\ Typed /\ Placed /\ InOrder /\ Whole
        /\ WiresTyped /\ ClientTyped /\ HubTypeOK /\ ViewTyped
    BY DEF RendererInv, Typed
  <1>1. WiresTyped'
    BY <1>0 DEF WiresTyped
  <1>2. ClientTyped'
    BY <1>0 DEF ClientTyped, client, history
  <1>3. ViewTyped'
    BY <1>0 DEF ViewTyped
  <1>4. Typed'
    BY <1>1, <1>2, <1>3 DEF Typed
  <1>5. /\ attached' => \A i \in Stream : StreamIsPlaced(i)'
        /\ InOrder' /\ Whole'
    BY <1>0, <1>2, StreamsKept DEF ClientTyped
  <1>6. Placed'
    BY <1>0, <1>5, CallStaysPlaced DEF Placed
  <1> QED BY <1>4, <1>5, <1>6 DEF RendererInv

\* Nothing happens to the hub.
LEMMA HubRests ==
  ASSUME Typed, Whole, UNCHANGED hubVars, \A i \in Stream : handler'[i] = handler[i]
  PROVE  HubTypeOK' /\ TopicsAreWhole' /\ \A i \in Stream : LeavesSub(i)
  BY StreamsAssumption DEF Typed, Whole, HubTypeOK, TopicsAreWhole, LeavesSub, hubVars

-----------------------------------------------------------------------------
(* The host takes a request                                                 *)

\* In which place a call is.
LEMMA CallPlaces ==
  ASSUME WiresTyped, NEW i \in Call, CallIsPlaced(i)
  PROVE  /\ Count(up, Requests(i)) \in Nat /\ Count(down, Answers(i)) \in Nat
         /\ Count(up, Requests(i)) # 0 => /\ Count(up, Requests(i)) = 1 /\ inflight[i] # "live"
                                          /\ Count(down, Answers(i)) = 0 /\ i \in pending
         /\ inflight[i] = "live" => /\ Count(up, Requests(i)) = 0 /\ Count(down, Answers(i)) = 0
                                    /\ i \in pending
         /\ Count(down, Answers(i)) # 0 => /\ Count(up, Requests(i)) = 0 /\ inflight[i] # "live"
                                           /\ Count(down, Answers(i)) = 1 /\ i \in pending
  <1> DEFINE a == Count(up, Requests(i))
             b == Count(down, Answers(i))
             r == IF inflight[i] = "live" THEN 1 ELSE 0
             o == IF i \in pending THEN 1 ELSE 0
  <1>1. a \in Nat /\ b \in Nat
    BY CountType DEF WiresTyped
  <1>2. r \in {0, 1} /\ o \in {0, 1} /\ (r = 1 <=> inflight[i] = "live") /\ (o = 1 <=> i \in pending)
    OBVIOUS
  <1>3. a + r + b = o
    BY DEF CallIsPlaced
  <1> HIDE DEF a, b, r, o
  <1>4. /\ a # 0 => a = 1 /\ b = 0 /\ r = 0 /\ o = 1
        /\ r = 1 => a = 0 /\ b = 0 /\ o = 1
        /\ b # 0 => a = 0 /\ b = 1 /\ r = 0 /\ o = 1
    BY <1>1, <1>2, <1>3
  <1>5. /\ a \in Nat /\ b \in Nat
        /\ a # 0 => a = 1 /\ inflight[i] # "live" /\ b = 0 /\ i \in pending
        /\ inflight[i] = "live" => a = 0 /\ b = 0 /\ i \in pending
        /\ b # 0 => a = 0 /\ inflight[i] # "live" /\ b = 1 /\ i \in pending
    BY <1>1, <1>2, <1>3, <1>4
  <1> QED BY <1>5 DEF a, b

\* It leaves all but what it is about.
LEMMA RequestTaken ==
  ASSUME RendererInv, NEW i \in Id, Arrives(Request(i))
  PROVE  /\ attached /\ up' \in Seq(UpMessage)
         /\ \A j \in Id : Count(up, Requests(j)) \in Nat
         /\ \A j \in Id \ {i} : Count(up', Requests(j)) = Count(up, Requests(j))
         /\ Count(up, Requests(i)) # 0 /\ Count(up', Requests(i)) = 0
         /\ i \in Call => /\ inflight[i] = "no" /\ i \in pending /\ Count(down, Answers(i)) = 0
         /\ i \in Stream => Speaks(i) /\ handler[i] # "running" /\ sub[i] = None /\ Unheard(i)
                            /\ i \in DOMAIN streams
  <1>0. WiresTyped /\ HostTyped /\ Placed /\ InOrder /\ Whole
    BY DEF RendererInv, Typed
  <1>1. /\ attached /\ up' \in Seq(UpMessage)
        /\ \A j \in Id : Count(up, Requests(j)) \in Nat /\ Count(up', Requests(j)) \in Nat
        /\ \A j \in Id : Count(up, Requests(j)) = Count(up', Requests(j)) + IF Request(i) = Request(j) THEN 1 ELSE 0
    BY <1>0, UpTaken
  <1>2. \A j \in Id : Request(i) = Request(j) <=> i = j
    BY Messages
  <1>3. \A j \in Id \ {i} : Count(up', Requests(j)) = Count(up, Requests(j))
    BY <1>1, <1>2
  <1>4. Count(up, Requests(i)) = Count(up', Requests(i)) + 1
    BY <1>1, <1>2
  <1>5. Count(up, Requests(i)) # 0
    BY <1>1, <1>4
  <1>6. ASSUME i \in Call
        PROVE  /\ inflight[i] = "no" /\ i \in pending /\ Count(down, Answers(i)) = 0
               /\ Count(up, Requests(i)) = 1
    <2>1. CallIsPlaced(i)
      BY <1>0, <1>1, <1>6 DEF Placed
    <2> QED BY <1>0, <1>5, <1>6, <2>1, CallPlaces DEF HostTyped
  <1>7. ASSUME i \in Stream
        PROVE  /\ Speaks(i) /\ handler[i] # "running" /\ sub[i] = None /\ Unheard(i) /\ i \in DOMAIN streams
               /\ Count(up, Requests(i)) = 1
    <2>1. StreamIsPlaced(i) /\ Asks(i)
      BY <1>0, <1>1, <1>5, <1>7 DEF Placed, Asks
    <2>2. Count(up, Requests(i)) = 1 /\ handler[i] # "running" /\ i \in DOMAIN streams
      BY <1>0, <1>7, <2>1, StreamPlaces
    <2>3. sub[i] = None
      BY <1>0, <1>7, <2>2, StreamsAssumption DEF Whole, TopicsAreWhole
    <2>4. Unheard(i)
      BY <1>0, <1>1, <1>7, <2>1 DEF InOrder
    <2> QED BY <2>1, <2>2, <2>3, <2>4 DEF Speaks
  <1>8. Count(up', Requests(i)) = 0
    <2>1. Count(up, Requests(i)) = 1
      BY <1>6, <1>7 DEF Id
    <2> QED BY <1>1, <1>4, <2>1
  <1> QED BY <1>1, <1>3, <1>5, <1>6, <1>7, <1>8

LEMMA HostRefusesKeeps ==
  ASSUME RendererInv, NEW i \in Id, HostRefuses(i)
  PROVE  RendererInv'
  <1>0. /\ Typed /\ Placed /\ InOrder /\ Whole /\ Fresh /\ down \in Seq(DownMessage)
        /\ WiresTyped /\ HostTyped /\ ClientTyped /\ HubTypeOK /\ ViewTyped /\ CacheTyped
    BY DEF RendererInv, Typed, WiresTyped
  <1>1. Arrives(Request(i)) /\ UNCHANGED <<host, client, history>>
    BY DEF HostRefuses, Refuse
  <1>2. UNCHANGED <<hubVars, hostData, asked, rec, known, view, heardTo, cancels>>
    BY DEF HostRefuses, elsewhere, cacheVars
  <1>3. UNCHANGED <<attached, subscribed, inflight, handler, emitted, eventSeq, pending, streams, used, deaf>>
    BY <1>1 DEF host, client, history
  <1>4. /\ attached /\ up' \in Seq(UpMessage)
        /\ \A j \in Id : Count(up, Requests(j)) \in Nat
        /\ \A j \in Id \ {i} : Count(up', Requests(j)) = Count(up, Requests(j))
        /\ Count(up, Requests(i)) # 0 /\ Count(up', Requests(i)) = 0
        /\ i \in Call => /\ inflight[i] = "no" /\ i \in pending /\ Count(down, Answers(i)) = 0
        /\ i \in Stream => Speaks(i) /\ handler[i] # "running" /\ sub[i] = None
    BY <1>1, RequestTaken
  <1>5. HostTyped' /\ CacheTyped' /\ \A j \in Stream : handler'[j] = handler[j]
    BY <1>0, <1>2, <1>3 DEF HostTyped, CacheTyped, hostData
  <1>6. HubTypeOK' /\ TopicsAreWhole' /\ \A j \in Stream : LeavesSub(j)
    BY <1>0, <1>2, <1>5, HubRests
  <1>7. Call \subseteq Id /\ Stream \subseteq Id /\ Call \cap Stream = {}
    BY KindsAssumption DEF Call, Id
  <1>8. CASE i \in Call
    <2> DEFINE m == Answer(i, "error", 0)
    <2>1. m \in DownMessage /\ m.type = "response" /\ m.id = i /\ m.kind = "error"
      BY <1>8 DEF Answer, DownMessage, Response
    <2>2. down' = Append(down, m)
      BY <1>4, <1>7, <1>8 DEF HostRefuses, Refuse, Send
    <2>3. ~IsReading(m) /\ ~IsInvalidation(m)
      BY <2>1 DEF IsReading, IsInvalidation
    <2> HIDE DEF m
    <2>4. /\ down' \in Seq(DownMessage)
          /\ \A j \in Stream : Passes(down, down', j) /\ Count(down', Lasts(j)) = Count(down, Lasts(j))
          /\ \A j \in Call : /\ Count(down, Answers(j)) \in Nat
                             /\ Count(down', Answers(j)) = Count(down, Answers(j)) + IF i = j THEN 1 ELSE 0
      BY <1>0, <2>1, <2>2, OtherSent
    <2>5. TrueIn(down, announced, data)' /\ Fresh'
      BY <1>0, <1>2, <1>3, <2>1, <2>2, <2>3, TrueAppend, FreshAppend
         DEF Typed, Fresh, FreshAtRest, Fetching, hostData
    <2>6. \A j \in Stream : LeavesStream(j)
      BY <1>2, <1>3, <1>4, <1>7, <1>8, <2>4 DEF LeavesStream
    <2>7. \A j \in Call \ {i} : LeavesCall(j)
      BY <1>3, <1>4, <1>7, <2>4 DEF LeavesCall
    <2>8. CallIsPlaced(i)'
      BY <1>3, <1>4, <1>8, <2>4 DEF CallIsPlaced
    <2> QED BY <1>1, <1>2, <1>3, <1>4, <1>5, <1>6, <2>4, <2>5, <2>6, <2>7, <2>8, HostKeeps
  <1>9. CASE i \in Stream
    <2> DEFINE m == Message(i, "error", <<>>)
    <2>1. m \in StreamMessage /\ m.type = "stream" /\ m.id = i /\ m.kind = "error" /\ m.seq = emitted[i]
      BY <1>0, <1>9 DEF Message, StreamMessage, HostTyped
    <2>2. down' = Append(down, m)
      BY <1>4, <1>7, <1>9 DEF HostRefuses, Refuse, Send
    <2>3. ~IsReading(m) /\ ~IsInvalidation(m) /\ m \in DownMessage /\ \A j \in Stream \ {i} : ~IsOf(m, j)
      BY <2>1 DEF IsReading, IsInvalidation, DownMessage, IsOf
    <2> HIDE DEF m
    <2>4. /\ down' \in Seq(DownMessage)
          /\ \A j \in Stream \ {i} : Passes(down, down', j) /\ Count(down', Lasts(j)) = Count(down, Lasts(j))
          /\ \A j \in Call : Count(down', Answers(j)) = Count(down, Answers(j))
      BY <1>0, <2>1, <2>2, <2>3, DownSends, PassesAppend
    <2>5. TrueIn(down, announced, data)' /\ Fresh'
      BY <1>0, <1>2, <1>3, <2>2, <2>3, TrueAppend, FreshAppend
         DEF Typed, Fresh, FreshAtRest, Fetching, hostData
    <2>6. \A j \in Stream \ {i} : LeavesStream(j)
      BY <1>2, <1>3, <1>4, <1>7, <2>4 DEF LeavesStream
    <2>7. \A j \in Call : LeavesCall(j)
      BY <1>3, <1>4, <1>7, <1>9, <2>4 DEF LeavesCall
    <2>8. Keeps(i)
      <3>1. handler'[i] # "running" /\ sub'[i] = None /\ m.kind # "chunk"
        BY <1>2, <1>3, <1>4, <1>9, <2>1 DEF hubVars
      <3> QED BY <1>0, <1>2, <1>3, <1>4, <1>9, <2>1, <2>2, <3>1, StreamEnds
    <2> QED BY <1>1, <1>2, <1>3, <1>4, <1>5, <1>6, <2>4, <2>5, <2>6, <2>7, <2>8, HostKeeps
  <1> QED BY <1>8, <1>9 DEF Id

\* A handler that does not await reads what is newer than all the window was,
\* or will be, told of.
LEMMA ReadsNow ==
  ASSUME RendererInv, NEW m \in DownMessage, m.type = "response", m.val = data, down' = Append(down, m),
         UNCHANGED <<data, announced, known, rec>>, \A q \in Query : handler'[q] = "running" => handler[q] = "running"
  PROVE  TrueIn(down, announced, data)' /\ Fresh'
  <1>0. /\ down \in Seq(DownMessage) /\ TrueIn(down, announced, data) /\ Fresh /\ CacheTyped
        /\ data \in Nat /\ announced \in Nat /\ known \in Nat /\ known <= announced /\ announced <= data
    BY DEF RendererInv, Typed, WiresTyped, CacheTyped
  <1>1. ~IsInvalidation(m) /\ data <= data /\ data >= known
    BY <1>0 DEF IsInvalidation
  <1>2. TrueIn(down', announced, data)
    BY <1>0, <1>1, TrueAppend
  <1>3. \A j \in DOMAIN down : IsInvalidation(down[j]) => down[j].val <= data
    <2> SUFFICES ASSUME NEW j \in DOMAIN down, IsInvalidation(down[j]) PROVE down[j].val <= data
      OBVIOUS
    <2>1. down[j] \in DownMessage
      BY <1>0, LenProperties
    <2>2. down[j].val \in Nat
      BY <2>1 DEF DownMessage, Response, StreamMessage, Notification, IsInvalidation
    <2>3. down[j].val <= announced
      BY <1>0 DEF TrueIn
    <2> QED BY <1>0, <2>2, <2>3
  <1>4. ~Async => FreshIn(down', known)
    BY <1>0, <1>1, <1>3, FreshAppend DEF Fresh
  <1> QED BY <1>0, <1>2, <1>4 DEF Fresh, FreshAtRest, Fetching

LEMMA HostStartsKeeps ==
  ASSUME RendererInv, NEW i \in Call, HostStarts(i)
  PROVE  RendererInv'
  <1>0. /\ Typed /\ Placed /\ InOrder /\ Whole /\ Fresh /\ down \in Seq(DownMessage)
        /\ WiresTyped /\ HostTyped /\ ClientTyped /\ HubTypeOK /\ ViewTyped /\ CacheTyped
    BY DEF RendererInv, Typed, WiresTyped
  <1>1. Call \subseteq Id /\ Stream \subseteq Id /\ Call \cap Stream = {} /\ i \in Id /\ Query \subseteq Call
    BY KindsAssumption DEF Call, Id
  <1>2. Arrives(Request(i))
    BY DEF HostStarts, Start, StartAndAnswer
  <1>3. UNCHANGED <<hubVars, data, announced, acted, seen, asked, rec, known, view, heardTo, cancels, client,
                    history, attached, subscribed, emitted, eventSeq, pending, streams, used, deaf>>
    BY DEF HostStarts, Start, StartAndAnswer, elsewhere, cacheVars, hostData, client, history
  <1>4. /\ attached /\ up' \in Seq(UpMessage)
        /\ \A j \in Id : Count(up, Requests(j)) \in Nat
        /\ \A j \in Id \ {i} : Count(up', Requests(j)) = Count(up, Requests(j))
        /\ Count(up, Requests(i)) # 0 /\ Count(up', Requests(i)) = 0
        /\ inflight[i] = "no" /\ i \in pending /\ Count(down, Answers(i)) = 0
    BY <1>1, <1>2, RequestTaken
  <1>5. CASE i \in Query /\ ~Async
    <2> DEFINE m == Answer(i, "ok", data)
    <2>1. m \in DownMessage /\ m.type = "response" /\ m.id = i /\ m.val = data
      BY <1>0 DEF Answer, DownMessage, Response, CacheTyped
    <2>2. down' = Append(down, m) /\ handler' = [handler EXCEPT ![i] = "done"] /\ inflight' = inflight
      BY <1>4, <1>5 DEF HostStarts, StartAndAnswer, Send
    <2> HIDE DEF m
    <2>3. /\ down' \in Seq(DownMessage)
          /\ \A j \in Stream : Passes(down, down', j) /\ Count(down', Lasts(j)) = Count(down, Lasts(j))
          /\ \A j \in Call : /\ Count(down, Answers(j)) \in Nat
                             /\ Count(down', Answers(j)) = Count(down, Answers(j)) + IF i = j THEN 1 ELSE 0
      BY <1>0, <2>1, <2>2, OtherSent
    <2>4. HostTyped'
      BY <1>0, <1>1, <1>3, <1>4, <2>2 DEF HostTyped
    <2>5. CacheTyped' /\ \A j \in Stream : handler'[j] = handler[j]
      BY <1>0, <1>1, <1>3, <2>2 DEF HostTyped, CacheTyped
    <2>6. HubTypeOK' /\ TopicsAreWhole' /\ \A j \in Stream : LeavesSub(j)
      BY <1>0, <1>3, <2>5, HubRests
    <2>7. \A q \in Query : handler'[q] = "running" => handler[q] = "running"
      BY <1>0, <1>1, <2>2 DEF HostTyped
    <2>8. TrueIn(down, announced, data)' /\ Fresh'
      BY <1>3, <2>1, <2>2, <2>7, ReadsNow
    <2>9. \A j \in Stream : LeavesStream(j)
      BY <1>1, <1>3, <1>4, <2>3, <2>5 DEF LeavesStream
    <2>10. \A j \in Call \ {i} : LeavesCall(j)
      BY <1>1, <1>3, <1>4, <2>2, <2>3 DEF LeavesCall
    <2>11. CallIsPlaced(i)'
      BY <1>3, <1>4, <2>2, <2>3 DEF CallIsPlaced
    <2> QED BY <1>3, <1>4, <2>3, <2>4, <2>5, <2>6, <2>8, <2>9, <2>10, <2>11, HostKeeps
  <1>6. CASE ~(i \in Query /\ ~Async)
    <2>1. /\ inflight' = [inflight EXCEPT ![i] = "live"] /\ handler' = [handler EXCEPT ![i] = "running"]
          /\ down' = down
      BY <1>6 DEF HostStarts, Start
    <2>2. HostTyped'
      BY <1>0, <1>1, <1>3, <2>1 DEF HostTyped
    <2>3. CacheTyped' /\ \A j \in Stream : handler'[j] = handler[j]
      BY <1>0, <1>1, <1>3, <2>1 DEF HostTyped, CacheTyped
    <2>4. HubTypeOK' /\ TopicsAreWhole' /\ \A j \in Stream : LeavesSub(j)
      BY <1>0, <1>3, <2>3, HubRests
    <2>5. TrueIn(down, announced, data)' /\ Fresh'
      <3>1. ~Async => \A q \in Query : handler'[q] # "running"
        BY <1>0, <1>1, <1>6, <2>1 DEF HostTyped, Fresh
      <3> QED BY <1>0, <1>3, <2>1, <3>1 DEF Typed, Fresh, FreshAtRest, Fetching
    <2>6. \A j \in Stream : LeavesStream(j)
      BY <1>1, <1>3, <1>4, <2>1, <2>3, PassesItself DEF LeavesStream
    <2>7. \A j \in Call \ {i} : LeavesCall(j)
      BY <1>1, <1>3, <1>4, <2>1 DEF LeavesCall
    <2>8. inflight'[i] = "live"
      BY <1>0, <1>1, <2>1 DEF HostTyped
    <2>9. CallIsPlaced(i)'
      BY <1>3, <1>4, <2>1, <2>8 DEF CallIsPlaced
    <2> QED BY <1>0, <1>3, <1>4, <2>1, <2>2, <2>3, <2>4, <2>5, <2>6, <2>7, <2>9, HostKeeps
  <1> QED BY <1>5, <1>6

\* An abort of a call answers it, and takes its handler's right to.
LEMMA AbortKeeps ==
  ASSUME RendererInv, NEW i \in Call, inflight[i] = "live",
         NEW kind \in {"cancelled", "timeout"}, Abort(i, kind, 0),
         up' \in Seq(UpMessage), ~attached => up' = <<>>,
         \A j \in Id : Count(up', Requests(j)) = Count(up, Requests(j)),
         UNCHANGED <<attached, subscribed, handler, emitted, eventSeq, client, history, hubVars, hostData, asked,
                     rec, known, view, heardTo, cancels>>
  PROVE  RendererInv'
  <1>0. /\ Typed /\ Placed /\ InOrder /\ Whole /\ Fresh /\ down \in Seq(DownMessage) /\ (~attached => down = <<>>)
        /\ WiresTyped /\ HostTyped /\ ClientTyped /\ HubTypeOK /\ ViewTyped /\ CacheTyped
    BY DEF RendererInv, Typed, WiresTyped
  <1>1. Call \subseteq Id /\ Stream \subseteq Id /\ Call \cap Stream = {} /\ i \in Id /\ Query \subseteq Call
    BY KindsAssumption DEF Call, Id
  <1>2. UNCHANGED <<pending, streams, used, deaf, data, announced, acted, seen>>
    BY DEF client, history, hostData
  <1>3. HostTyped' /\ CacheTyped' /\ \A j \in Stream : handler'[j] = handler[j]
    BY <1>0, <1>1, <1>2 DEF HostTyped, CacheTyped, Abort
  <1>4. HubTypeOK' /\ TopicsAreWhole' /\ \A j \in Stream : LeavesSub(j)
    BY <1>0, <1>3, HubRests
  <1> DEFINE m == Answer(i, kind, 0)
  <1>5. m \in DownMessage /\ m.type = "response" /\ m.id = i /\ m.kind = kind
    BY DEF Answer, DownMessage, Response
  <1>6. ~IsReading(m) /\ ~IsInvalidation(m)
    BY <1>5 DEF IsReading, IsInvalidation
  <1>7. /\ attached => down' = Append(down, m)
        /\ ~attached => down' = down
    BY DEF Abort, Send
  <1> HIDE DEF m
  <1>8. ASSUME attached PROVE RendererInv'
    <2>1. down' = Append(down, m)
      BY <1>7, <1>8
    <2>2. /\ down' \in Seq(DownMessage)
          /\ \A j \in Stream : Passes(down, down', j) /\ Count(down', Lasts(j)) = Count(down, Lasts(j))
          /\ \A j \in Call : /\ Count(down, Answers(j)) \in Nat
                             /\ Count(down', Answers(j)) = Count(down, Answers(j)) + IF i = j THEN 1 ELSE 0
      BY <1>0, <1>5, <2>1, OtherSent
    <2>3. TrueIn(down, announced, data)' /\ Fresh'
      BY <1>0, <1>2, <1>6, <1>5, <2>1, TrueAppend, FreshAppend DEF Typed, Fresh, FreshAtRest, Fetching
    <2>4. \A j \in Stream : LeavesStream(j)
      BY <1>1, <1>2, <1>3, <2>2 DEF LeavesStream
    <2>5. \A j \in Call \ {i} : LeavesCall(j)
      BY <1>1, <1>2, <2>2 DEF LeavesCall, Abort
    <2>6. CallIsPlaced(i)'
      <3>1. CallIsPlaced(i)
        BY <1>0, <1>8 DEF Placed
      <3>2. Count(up, Requests(i)) = 0 /\ Count(down, Answers(i)) = 0 /\ i \in pending
        BY <1>0, <3>1, CallPlaces
      <3>3. inflight'[i] = "no"
        BY <1>0, <1>1 DEF HostTyped, Abort
      <3> QED BY <1>1, <1>2, <2>2, <3>2, <3>3 DEF CallIsPlaced
    <2> QED BY <1>0, <1>3, <1>4, <1>8, <2>2, <2>3, <2>4, <2>5, <2>6, HostKeeps
  <1>9. ASSUME ~attached PROVE RendererInv'
    <2>1. TrueIn(down, announced, data)' /\ Fresh'
      BY <1>0, <1>2, <1>7, <1>9 DEF Typed, Fresh, FreshAtRest, Fetching
    <2>2. \A j \in Stream : LeavesStream(j)
      BY <1>1, <1>2, <1>3, <1>7, <1>9, PassesItself DEF LeavesStream
    <2> QED BY <1>0, <1>3, <1>4, <1>7, <1>9, <2>1, <2>2, HostKeeps
  <1> QED BY <1>8, <1>9

LEMMA HostTimesOutKeeps ==
  ASSUME RendererInv, NEW i, HostTimesOut(i)
  PROVE  RendererInv'
  <1>1. up \in Seq(UpMessage) /\ (~attached => up = <<>>)
    BY DEF RendererInv, Typed, WiresTyped
  <1>2. /\ i \in Call /\ inflight[i] = "live" /\ Abort(i, "timeout", 0) /\ up' = up
        /\ UNCHANGED <<attached, subscribed, handler, emitted, eventSeq, client, history, hubVars, hostData, asked,
                       rec, known, view, heardTo, cancels>>
    BY DEF HostTimesOut, Timeout, elsewhere, cacheVars
  <1> QED BY <1>1, <1>2, AbortKeeps

\* A step of the host that sends nothing and takes no request.
LEMMA HostRests ==
  ASSUME RendererInv, down' = down, up' \in Seq(UpMessage), ~attached => up' = <<>>,
         \A j \in Id : Count(up', Requests(j)) = Count(up, Requests(j)),
         \A j \in Call : inflight'[j] = inflight[j], \A j \in Id : handler'[j] = handler[j],
         UNCHANGED <<attached, emitted, client, history, hubVars, announced, asked, rec, known, view, heardTo,
                     cancels>>,
         HostTyped', CacheTyped', data <= data'
  PROVE  RendererInv'
  <1>0. /\ Typed /\ Placed /\ InOrder /\ Whole /\ Fresh /\ down \in Seq(DownMessage) /\ (~attached => down = <<>>)
        /\ WiresTyped /\ HostTyped /\ CacheTyped
    BY DEF RendererInv, Typed, WiresTyped
  <1>1. Call \subseteq Id /\ Stream \subseteq Id /\ Query \subseteq Call
    BY DEF Call, Id
  <1>2. UNCHANGED <<pending, streams, used, deaf>>
    BY DEF client, history
  <1>3. HubTypeOK' /\ TopicsAreWhole' /\ \A j \in Stream : LeavesSub(j)
    BY <1>0, <1>1, HubRests
  <1>4. TrueIn(down, announced, data)'
    <2>1. announced \in Nat /\ data \in Nat /\ data' \in Nat /\ announced <= announced
      BY <1>0 DEF CacheTyped
    <2>2. TrueIn(down, announced, data)
      BY <1>0 DEF Typed
    <2>3. TrueIn(down, announced, data')
      BY <1>0, <2>1, <2>2, TrueWidens
    <2> QED BY <2>3
  <1>5. Fresh'
    BY <1>0, <1>1 DEF Fresh, FreshAtRest, Fetching
  <1>6. \A j \in Stream : LeavesStream(j)
    BY <1>1, <1>2, PassesItself DEF LeavesStream
  <1>7. \A j \in Call : LeavesCall(j)
    BY <1>1, <1>2 DEF LeavesCall
  <1> QED BY <1>0, <1>3, <1>4, <1>5, <1>6, <1>7, HostKeeps

LEMMA HostStopsKeeps ==
  ASSUME RendererInv, NEW i \in Id, HostStops(i)
  PROVE  RendererInv'
  <1>0. WiresTyped /\ HostTyped /\ CacheTyped
    BY DEF RendererInv, Typed
  <1>1. Call \subseteq Id /\ Stream \subseteq Id /\ Call \cap Stream = {}
    BY KindsAssumption DEF Call, Id
  <1>2. /\ Arrives(CancelOf(i))
        /\ UNCHANGED <<attached, subscribed, handler, emitted, eventSeq, client, history, hubVars, hostData, asked,
                       rec, known, view, heardTo, cancels>>
    BY DEF HostStops, HostCancel, elsewhere, cacheVars
  <1>3. \A j \in Id : CancelOf(i) # Request(j)
    BY Messages
  <1>4. attached /\ up' \in Seq(UpMessage) /\ \A j \in Id : Count(up', Requests(j)) = Count(up, Requests(j))
    BY <1>0, <1>2, <1>3, UpTaken
  <1>5. CASE inflight[i] = "live" /\ i \in Call /\ Abort(i, "cancelled", 0)
    BY <1>2, <1>4, <1>5, AbortKeeps
  <1>6. CASE /\ down' = down
             /\ \/ inflight[i] = "live" /\ i \in Stream /\ inflight' = [inflight EXCEPT ![i] = "aborted"]
                \/ inflight' = inflight
    <2>1. HostTyped'
      BY <1>0, <1>1, <1>2, <1>6 DEF HostTyped
    <2>2. CacheTyped' /\ data <= data' /\ announced' = announced
      BY <1>0, <1>2 DEF CacheTyped, hostData
    <2>3. \A j \in Call : inflight'[j] = inflight[j]
      BY <1>0, <1>1, <1>6 DEF HostTyped
    <2> QED BY <1>2, <1>4, <1>6, <2>1, <2>2, <2>3, HostRests
  <1> QED BY <1>5, <1>6 DEF HostStops, HostCancel

LEMMA HostListensKeeps ==
  ASSUME RendererInv, NEW e \in Event, HostListens(e)
  PROVE  RendererInv'
  <1>0. WiresTyped /\ HostTyped /\ CacheTyped
    BY DEF RendererInv, Typed
  <1>1. PICK m \in {[type |-> "subscribe", name |-> e], [type |-> "unsubscribe", name |-> e]} : Arrives(m)
    BY DEF HostListens, HostSubscribe, HostUnsubscribe
  <1>2. \A j \in Id : m # Request(j)
    BY <1>1, Messages
  <1>3. attached /\ up' \in Seq(UpMessage) /\ \A j \in Id : Count(up', Requests(j)) = Count(up, Requests(j))
    BY <1>0, <1>1, <1>2, UpTaken
  <1>4. /\ UNCHANGED <<down, attached, inflight, handler, emitted, eventSeq, client, history, hubVars, hostData,
                       asked, rec, known, view, heardTo, cancels>>
        /\ subscribed' = IF e \in subscribed' THEN subscribed \cup {e} ELSE subscribed \ {e}
    BY DEF HostListens, HostSubscribe, HostUnsubscribe, elsewhere, cacheVars
  <1>5. HostTyped'
    BY <1>0, <1>4 DEF HostTyped
  <1>6. CacheTyped' /\ data <= data' /\ announced' = announced
    BY <1>0, <1>4 DEF CacheTyped, hostData
  <1> QED BY <1>3, <1>4, <1>5, <1>6, HostRests

LEMMA HandlerActsKeeps ==
  ASSUME RendererInv, NEW i, HandlerActs(i)
  PROVE  RendererInv'
  <1>0. WiresTyped /\ HostTyped /\ CacheTyped /\ up \in Seq(UpMessage) /\ (~attached => up = <<>>)
    BY DEF RendererInv, Typed, WiresTyped
  <1>1. UNCHANGED <<up, down, attached, subscribed, inflight, handler, emitted, eventSeq, client, history, hubVars,
                    announced, asked, rec, known, view, heardTo, cancels>>
    BY DEF HandlerActs, busVars, channel, host, cacheVars
  <1>2. HostTyped'
    BY <1>0, <1>1 DEF HostTyped
  <1>3. CacheTyped' /\ data <= data'
    <2>1. i \in Call /\ acted' = acted \cup {i}
      BY DEF HandlerActs
    <2>2. CASE i \in Command /\ data' = data + 1 /\ seen' = seen
      BY <1>0, <1>1, <2>1, <2>2 DEF CacheTyped
    <2>3. CASE i \in Query /\ seen' = [seen EXCEPT ![i] = data] /\ data' = data
      BY <1>0, <1>1, <2>1, <2>3 DEF CacheTyped
    <2> QED BY <2>1, <2>2, <2>3 DEF HandlerActs, Call
  <1> QED BY <1>0, <1>1, <1>2, <1>3, HostRests

\* A handler that settles tells of the change it made before it answers.
LEMMA HandlerReturnsKeeps ==
  ASSUME RendererInv, NEW i, NEW kind, HandlerReturns(i, kind)
  PROVE  RendererInv'
  <1>0. /\ Typed /\ Placed /\ InOrder /\ Whole /\ Fresh /\ down \in Seq(DownMessage) /\ (~attached => down = <<>>)
        /\ WiresTyped /\ HostTyped /\ ClientTyped /\ HubTypeOK /\ ViewTyped /\ CacheTyped
        /\ up \in Seq(UpMessage) /\ (~attached => up = <<>>)
    BY DEF RendererInv, Typed, WiresTyped
  <1> DEFINE v == IF i \in Query THEN seen[i] ELSE data
             e == "cache.invalidate"
             m == Answer(i, kind, v)
             notice == [type |-> "event", name |-> e, seq |-> eventSeq[e] + 1, val |-> v]
  <1>1. /\ i \in Call /\ kind \in {"ok", "error"} /\ handler[i] = "running"
        /\ handler' = [handler EXCEPT ![i] = "done"]
        /\ UNCHANGED <<up, attached, subscribed, emitted, client, history, hubVars, data, acted, seen, asked, rec,
                       known, view, heardTo, cancels>>
        /\ announced' = IF i \in Command /\ kind = "ok" /\ inflight[i] = "live" THEN data ELSE announced
    BY DEF HandlerReturns, Settle, cacheVars
  <1>2. Call \subseteq Id /\ Stream \subseteq Id /\ Call \cap Stream = {} /\ i \in Id /\ Query \subseteq Call
        /\ Command \cap Query = {}
    BY <1>1, KindsAssumption DEF Call, Id
  <1>3. v \in Nat /\ v <= data /\ (i \notin Query => v = data)
    BY <1>0 DEF CacheTyped
  <1>4. UNCHANGED <<pending, streams, used, deaf>>
    BY <1>1 DEF client, history
  <1>5. CacheTyped' /\ announced <= announced' /\ announced' \in Nat /\ announced \in Nat /\ data \in Nat
    BY <1>0, <1>1 DEF CacheTyped
  <1>6. \A j \in Stream : handler'[j] = handler[j]
    BY <1>0, <1>1, <1>2 DEF HostTyped
  <1>7. HubTypeOK' /\ TopicsAreWhole' /\ \A j \in Stream : LeavesSub(j)
    BY <1>0, <1>1, <1>6, HubRests
  <1>8. \A q \in Query : handler'[q] = "running" => handler[q] = "running"
    BY <1>0, <1>1, <1>2 DEF HostTyped
  <1>9. CASE inflight[i] # "live"
    <2>1. UNCHANGED <<inflight, eventSeq, down, announced>>
      BY <1>1, <1>9 DEF HandlerReturns, Settle
    <2>2. inflight[i] = "no"
      BY <1>0, <1>1, <1>2, <1>9 DEF HostTyped
    <2>3. HostTyped'
      BY <1>0, <1>1, <1>2, <2>1, <2>2 DEF HostTyped
    <2>4. TrueIn(down, announced, data)' /\ Fresh'
      BY <1>0, <1>1, <1>8, <2>1 DEF Typed, Fresh, FreshAtRest, Fetching
    <2>5. \A j \in Stream : LeavesStream(j)
      BY <1>1, <1>4, <1>6, <2>1, PassesItself DEF LeavesStream
    <2>6. \A j \in Call : LeavesCall(j)
      BY <1>1, <1>4, <2>1 DEF LeavesCall
    <2> QED BY <1>0, <1>1, <1>5, <1>7, <2>1, <2>3, <2>4, <2>5, <2>6, HostKeeps
  <1>10. CASE inflight[i] = "live"
    <2> DEFINE tells == kind = "ok" /\ i \in Command
    <2>1. /\ inflight' = [inflight EXCEPT ![i] = "no"]
          /\ eventSeq' = IF tells THEN [eventSeq EXCEPT ![e] = @ + 1] ELSE eventSeq
          /\ down' = IF attached THEN down \o ((IF tells THEN Notice(e, v) ELSE <<>>) \o <<m>>) ELSE down
      BY <1>10 DEF HandlerReturns, Settle, SendAll
    <2>2. HostTyped'
      BY <1>0, <1>1, <1>2, <2>1, EventsAssumption DEF HostTyped
    <2>3. m \in DownMessage /\ m.type = "response" /\ m.id = i /\ m.kind = kind /\ m.val = v
      BY <1>1, <1>3 DEF Answer, DownMessage, Response
    <2>4. notice \in DownMessage /\ notice.type = "event" /\ notice.val = v
      BY <1>0, <1>3, EventsAssumption DEF DownMessage, Notification, HostTyped
    <2>5. /\ IsReading(m) => ~tells /\ i \in Query
          /\ ~IsInvalidation(m) /\ ~IsReading(notice)
      BY <1>2, <2>3, <2>4 DEF IsReading, IsInvalidation
    <2>6. \A j \in Call \ {i} : inflight'[j] = inflight[j]
      BY <1>0, <1>2, <2>1 DEF HostTyped
    <2>7. TrueIn(down, announced', data)
      <3>1. TrueIn(down, announced, data) /\ data <= data
        BY <1>0, <1>5 DEF Typed
      <3> QED BY <1>0, <1>5, <3>1, TrueWidens
    <2>8. ~Async => i \notin Query
      BY <1>0, <1>1 DEF Fresh
    <2>9. CASE ~attached
      <3>1. down' = down
        BY <2>1, <2>9
      <3>2. TrueIn(down, announced, data)' /\ Fresh'
        BY <1>0, <1>1, <1>8, <2>7, <3>1 DEF Fresh, FreshAtRest, Fetching
      <3>3. \A j \in Stream : LeavesStream(j)
        BY <1>1, <1>4, <1>6, <3>1, PassesItself DEF LeavesStream
      <3> QED BY <1>0, <1>1, <1>5, <1>7, <2>2, <2>9, <3>1, <3>2, <3>3, HostKeeps
    <2>10. CASE attached
      <3> DEFINE before == Append(down, notice)
      <3>1. PICK q \in Seq(DownMessage) :
               /\ down' = Append(q, m)
               /\ q = down \/ (q = before /\ tells)
        <4>1. Notice(e, v) \in {<<>>, <<notice>>}
          BY DEF Notice
        <4>2. \/ down' = down \o (<<>> \o <<m>>)
              \/ tells /\ down' = down \o (<<notice>> \o <<m>>)
          BY <2>1, <2>10, <4>1
        <4>3. <<m>> \in Seq(DownMessage) /\ <<notice>> \in Seq(DownMessage)
          BY <2>3, <2>4
        <4>4. <<>> \o <<m>> = <<m>>
          BY <4>3, ConcatEmptySeq
        <4>5. down \o <<m>> = Append(down, m)
          BY <1>0, <2>3, AppendIsConcat
        <4>6. down \o (<<notice>> \o <<m>>) = (down \o <<notice>>) \o <<m>>
          BY <1>0, <4>3, ConcatAssociative
        <4>7. down \o <<notice>> = before /\ before \in Seq(DownMessage)
          BY <1>0, <2>4, AppendIsConcat, Appended
        <4>8. before \o <<m>> = Append(before, m)
          BY <2>3, <4>7, AppendIsConcat
        <4> HIDE DEF m, notice, before, tells
        <4>9. down' = Append(down, m) \/ (tells /\ down' = Append(before, m))
          BY <4>2, <4>4, <4>5, <4>6, <4>7, <4>8
        <4> QED BY <1>0, <4>7, <4>9
      <3>2. /\ \A j \in Stream : Passes(down, q, j) /\ Count(q, Lasts(j)) = Count(down, Lasts(j))
            /\ \A j \in Call : Count(down, Answers(j)) \in Nat /\ Count(q, Answers(j)) = Count(down, Answers(j))
            /\ TrueIn(q, announced', data)
            /\ ~Async => FreshIn(q, known)
        <4>1. CASE q = down
          BY <1>0, <2>7, <4>1, PassesItself, CountType DEF Fresh
        <4>2. CASE q = before /\ tells
          <5>1. v = data /\ announced' = data
            BY <1>1, <1>2, <1>3, <1>10, <4>2
          <5>2. TrueIn(before, announced', data)
            BY <1>0, <1>5, <2>4, <2>5, <2>7, <5>1, TrueAppend
          <5>3. ~Async => FreshIn(before, known)
            BY <1>0, <2>4, <2>5, FreshAppend DEF Fresh
          <5>4. /\ \A j \in Stream : /\ Passes(down, before, j)
                                     /\ Count(before, Lasts(j)) = Count(down, Lasts(j))
                /\ \A j \in Call : /\ Count(down, Answers(j)) \in Nat
                                   /\ Count(before, Answers(j)) = Count(down, Answers(j))
            <6> HIDE DEF notice
            <6>1. notice.type # "stream" /\ notice.type # "response"
              BY <2>4
            <6>2. \A j \in Call : Count(down, Answers(j)) + 0 = Count(down, Answers(j))
              <7>1. \A n \in Nat : n + 0 = n
                OBVIOUS
              <7>2. \A j \in Call : Count(down, Answers(j)) \in Nat
                BY <1>0, CountType
              <7> QED BY <7>1, <7>2
            <6> QED BY <1>0, <2>4, <6>1, <6>2, OtherSent
          <5> HIDE DEF before, tells
          <5> QED BY <4>2, <5>2, <5>3, <5>4
        <4> QED BY <3>1, <4>1, <4>2
      <3> HIDE DEF m, notice, before, tells, v
      <3>3. /\ down' \in Seq(DownMessage)
            /\ \A j \in Stream : Passes(q, down', j) /\ Count(down', Lasts(j)) = Count(q, Lasts(j))
            /\ \A j \in Call : Count(down', Answers(j)) = Count(q, Answers(j)) + IF i = j THEN 1 ELSE 0
        BY <2>3, <3>1, OtherSent
      <3>4. TrueIn(down, announced, data)'
        BY <1>1, <1>3, <2>3, <2>5, <3>1, <3>2, TrueAppend
      <3>5. ~Async => FreshIn(down', known)
        BY <2>3, <2>5, <2>8, <3>1, <3>2, FreshAppend
      <3>6. Fresh'
        BY <1>0, <1>1, <1>8, <3>5 DEF Fresh, FreshAtRest, Fetching
      <3>7. \A j \in Stream : LeavesStream(j)
        BY <1>1, <1>4, <1>6, <3>2, <3>3, PassesOn DEF LeavesStream
      <3>8. \A j \in Call \ {i} : LeavesCall(j)
        BY <1>1, <1>4, <2>6, <3>2, <3>3 DEF LeavesCall
      <3>9. CallIsPlaced(i)'
        <4>1. CallIsPlaced(i)
          BY <1>0, <1>1, <2>10 DEF Placed
        <4>2. Count(up, Requests(i)) = 0 /\ Count(down, Answers(i)) = 0 /\ i \in pending
          BY <1>0, <1>1, <1>10, <4>1, CallPlaces
        <4>3. inflight'[i] = "no"
          BY <1>0, <1>2, <2>1 DEF HostTyped
        <4> QED BY <1>1, <1>4, <3>2, <3>3, <4>2, <4>3 DEF CallIsPlaced
      <3> QED BY <1>0, <1>1, <1>5, <1>7, <2>2, <2>10, <3>3, <3>4, <3>6, <3>7, <3>8, <3>9, HostKeeps
    <2> QED BY <2>9, <2>10
  <1> QED BY <1>9, <1>10

-----------------------------------------------------------------------------
(* The hub publishes                                                        *)

Listens(i, t) == sub[i].task = {t} /\ ~sub[i].closed

\* Who listens to a topic gets the chunk that is added to it.
Gets(i, t, c) ==
  /\ Listens(i, t) /\ topic[t].is # "closed"
  /\ c \in Chunk /\ c.n = Len(topic[t].buffer) + 1
  /\ topic'[t].buffer = Append(topic[t].buffer, c)
  /\ sub'[i].task = {t} /\ sub'[i].queue = Append(sub[i].queue, c)

LEMMA TopicWhole ==
  ASSUME HubTypeOK, TopicsAreWhole, NEW t \in Task
  PROVE  IsWhole(topic[t])
  BY DEF HubTypeOK, TopicsAreWhole, IsWhole, Topics

LEMMA Publishes ==
  ASSUME HubTypeOK, TopicsAreWhole, NEW t \in Task, NEW kind \in {"text", "step", "done"},
         Publish(t, <<kind>>), \A i \in Stream : handler'[i] = handler[i]
  PROVE  /\ topic' \in [Task -> Topics] /\ sub' \in [Sub -> [task : SUBSET Task, queue : Seq(Chunk), closed : BOOLEAN]]
         /\ TopicsAreWhole'
         /\ \A i \in Stream : LeavesSub(i) \/ \E c \in Chunk : Gets(i, t, c)
  <1> DEFINE old == topic[t]
             tp == Extended(old, <<kind>>)
             c == [n |-> Len(old.buffer) + 1, kind |-> kind]
             new == SubSeq(tp.buffer, Len(old.buffer) + 1, Len(tp.buffer))
             Subs == [task : SUBSET Task, queue : Seq(Chunk), closed : BOOLEAN]
  <1>1. IsWhole(old) /\ old \in Topics /\ old.buffer \in Seq(Chunk) /\ Len(old.buffer) \in Nat
    <2>1. IsWhole(old)
      BY TopicWhole
    <2>2. old.buffer \in Seq(Chunk)
      BY <2>1 DEF IsWhole, Topics
    <2> QED BY <2>1, <2>2, LenProperties DEF IsWhole
  <1>2. IsWhole(tp) /\ tp.is = IF old.is = "closed" \/ kind = "done" THEN "closed" ELSE "open"
    BY <1>1, ExtendedIsWhole
  <1>3. c \in Chunk /\ c.n = Len(old.buffer) + 1
    BY <1>1 DEF Chunk
  <1>4. /\ topic \in [Task -> Topics] /\ topic' = [topic EXCEPT ![t] = tp]
        /\ sub \in [Sub -> Subs]
        /\ sub' = [i \in Sub |-> IF sub[i].task = {t} /\ ~sub[i].closed
                                 THEN [sub[i] EXCEPT !.queue = @ \o new, !.closed = tp.is = "closed"]
                                 ELSE sub[i]]
    BY DEF HubTypeOK, Publish, Notified, Topics
  <1>5. old.is # "closed" => tp.buffer = Append(old.buffer, c) /\ new = <<c>>
    <2> SUFFICES ASSUME old.is # "closed" PROVE tp.buffer = Append(old.buffer, c) /\ new = <<c>>
      OBVIOUS
    <2>1. tp.buffer = Append(old.buffer, c)
      <3> DEFINE is == IF kind = "done" THEN "closed" ELSE "open"
      <3>1. Extended(old, <<kind>>) = [buffer |-> Append(old.buffer, c), is |-> is]
        BY <1>1, ExtendedByOne
      <3> HIDE DEF is, c, old
      <3> QED BY <3>1
    <2>2. /\ tp.buffer \in Seq(Chunk) /\ Len(tp.buffer) = Len(old.buffer) + 1
          /\ tp.buffer[Len(old.buffer) + 1] = c
      <3> HIDE DEF tp, c, old
      <3> QED BY <1>1, <1>3, <2>1, Appended
    <2> DEFINE n == Len(old.buffer) + 1
    <2>3. n \in Int /\ Len(tp.buffer) = n /\ \A k \in n..n : tp.buffer[k] \in Chunk
      BY <1>1, <1>3, <2>2
    <2>4. /\ SubSeq(tp.buffer, n, n) \in Seq(Chunk)
          /\ Len(SubSeq(tp.buffer, n, n)) = IF n <= n THEN n - n + 1 ELSE 0
          /\ \A k \in 1..(n - n + 1) : SubSeq(tp.buffer, n, n)[k] = tp.buffer[n + k - 1]
      BY <2>3, SubSeqProperties
    <2>5. n - n + 1 = 1 /\ n + 1 - 1 = n /\ n <= n
      BY <2>3
    <2>6. new = SubSeq(tp.buffer, n, n) /\ tp.buffer[n] = c
      BY <2>2, <2>3
    <2> HIDE DEF n, tp, new, c
    <2>7. new \in Seq(Chunk) /\ Len(new) = 1 /\ new[1] = c
      BY <2>3, <2>4, <2>5, <2>6
    <2>8. new = <<c>>
      <3>1. <<c>> \in Seq(Chunk) /\ Len(<<c>>) = 1 /\ <<c>>[1] = c
        BY <1>3
      <3>2. \A k \in 1..Len(new) : new[k] = <<c>>[k]
        BY <2>7, <3>1
      <3> QED BY <2>7, <3>1, <3>2, SeqEqual
    <2> QED BY <2>1, <2>8
  <1>6. \A i \in Sub : Listens(i, t) => old.is = "open" /\ sub[i] # None
    <2> SUFFICES ASSUME NEW i \in Sub, Listens(i, t) PROVE old.is = "open" /\ sub[i] # None
      OBVIOUS
    <2>1. PICK u \in Task : sub[i].task = {u} /\ topic[u].is = "open"
      BY DEF TopicsAreWhole, Listens
    <2>2. u = t
      BY <2>1 DEF Listens
    <2> QED BY <2>1, <2>2 DEF Listens, None
  <1> HIDE DEF tp, new, c, old
  <1>7. ASSUME NEW i \in Sub, Listens(i, t)
        PROVE  /\ sub'[i] \in Subs /\ sub'[i].task = {t} /\ sub'[i].queue = Append(sub[i].queue, c)
               /\ sub'[i].closed <=> tp.is = "closed"
    <2>1. sub[i] \in Subs /\ sub'[i] = [sub[i] EXCEPT !.queue = @ \o new, !.closed = tp.is = "closed"]
      BY <1>4, <1>7 DEF Listens
    <2>2. sub[i].queue \in Seq(Chunk) /\ sub[i].queue \o new = Append(sub[i].queue, c)
          /\ Append(sub[i].queue, c) \in Seq(Chunk)
      <3>1. sub[i].queue \in Seq(Chunk) /\ new = <<c>>
        BY <1>5, <1>6, <1>7, <2>1
      <3>2. Append(sub[i].queue, c) = sub[i].queue \o <<c>>
        BY <1>3, <3>1, AppendIsConcat
      <3>3. Append(sub[i].queue, c) \in Seq(Chunk)
        BY <1>3, <3>1, Appended
      <3> QED BY <3>1, <3>2, <3>3
    <2>3. (tp.is = "closed") \in BOOLEAN
      OBVIOUS
    <2> QED BY <1>7, <2>1, <2>2, <2>3 DEF Listens
  <1>8. ASSUME NEW i \in Sub, ~Listens(i, t) PROVE sub'[i] = sub[i] /\ sub'[i] \in Subs
    BY <1>4, <1>8 DEF Listens
  <1>9. topic' \in [Task -> Topics] /\ sub' \in [Sub -> Subs]
    <2>1. topic' \in [Task -> Topics]
      BY <1>2, <1>4 DEF IsWhole
    <2>2. DOMAIN sub' = Sub /\ \A i \in Sub : sub'[i] \in Subs
      BY <1>4, <1>7, <1>8
    <2>3. sub' = [i \in Sub |-> sub'[i]]
      BY <1>4
    <2> QED BY <2>1, <2>2, <2>3
  <1>10. topic'[t] = tp /\ \A u \in Task \ {t} : topic'[u] = topic[u]
    BY <1>4
  <1>11. TopicsAreWhole'
    <2>1. ASSUME NEW u \in Task
          PROVE  /\ \A k \in DOMAIN topic'[u].buffer : topic'[u].buffer[k].n = k
                 /\ topic'[u].is = "absent" => topic'[u].buffer = <<>>
      <3>1. IsWhole(topic'[u])
        BY <1>2, <1>10, TopicWhole
      <3> QED BY <3>1 DEF IsWhole
    <2>2. ASSUME NEW i \in Sub, ~sub'[i].closed
          PROVE  \E u \in Task : sub'[i].task = {u} /\ topic'[u].is = "open"
      <3>1. CASE Listens(i, t)
        BY <1>2, <1>7, <1>10, <2>2, <3>1
      <3>2. CASE ~Listens(i, t)
        <4>1. sub'[i] = sub[i]
          BY <1>8, <3>2
        <4>2. PICK u \in Task : sub[i].task = {u} /\ topic[u].is = "open"
          BY <2>2, <4>1 DEF TopicsAreWhole
        <4>3. u # t
          BY <2>2, <3>2, <4>1, <4>2 DEF Listens
        <4> QED BY <1>10, <4>1, <4>2, <4>3
      <3> QED BY <3>1, <3>2
    <2>3. ASSUME NEW i \in Sub, sub'[i] # None PROVE handler'[i] = "running"
      <3>1. sub[i] # None
        BY <1>6, <1>8, <2>3
      <3> QED BY <3>1, StreamsAssumption DEF TopicsAreWhole
    <2> QED BY <2>1, <2>2, <2>3 DEF TopicsAreWhole
  <1>12. ASSUME NEW i \in Stream PROVE LeavesSub(i) \/ \E d \in Chunk : Gets(i, t, d)
    <2>0. i \in Sub
      BY StreamsAssumption
    <2>1. CASE Listens(i, t)
      <3>1. topic'[t].buffer = Append(topic[t].buffer, c) /\ topic[t].is # "closed"
        BY <1>5, <1>6, <1>10, <2>0, <2>1 DEF old
      <3>2. sub'[i].task = {t} /\ sub'[i].queue = Append(sub[i].queue, c)
        BY <1>7, <2>0, <2>1
      <3>3. Gets(i, t, c)
        BY <1>3, <2>1, <3>1, <3>2 DEF Gets, old
      <3> QED BY <1>3, <3>3
    <2>2. CASE ~Listens(i, t)
      <3>1. sub'[i] = sub[i]
        BY <1>8, <2>0, <2>2
      <3>2. \A u \in Task : sub[i].task = {u} /\ ~sub[i].closed => u # t
        BY <2>2 DEF Listens
      <3> QED BY <1>10, <3>1, <3>2 DEF LeavesSub
    <2> QED BY <2>1, <2>2
  <1> QED BY <1>9, <1>11, <1>12

\* Who has, or will have, all of a topic has it with the next chunk, too.
LEMMA ChunkedGets ==
  ASSUME Typed, NEW i \in Stream, NEW t \in Task, NEW c \in Chunk,
         Gets(i, t, c), LeavesStream(i), Chunked(i)
  PROVE  Chunked(i)'
  <1> DEFINE q == sub[i].queue
             b == topic[t].buffer
             p == Append(q, c)
  <1>1. q \in Seq(Chunk) /\ b \in Seq(Chunk) /\ Len(b) \in Nat /\ Len(q) \in Nat
    <2>1. q \in Seq(Chunk) /\ b \in Seq(Chunk)
      BY StreamsAssumption DEF Typed, HubTypeOK
    <2> QED BY <2>1, LenProperties
  <1>2. /\ DOMAIN q = 1..Len(q) /\ DOMAIN p = 1..(Len(q) + 1) /\ Len(p) = Len(q) + 1
        /\ \A k \in 1..Len(q) : p[k] = q[k] /\ q[k] \in Chunk
        /\ p[Len(q) + 1] = c
    BY <1>1, Appended, LenProperties
  <1>3. Len(Append(b, c)) = Len(b) + 1
    BY <1>1, Appended
  <1>4. /\ Listens(i, t) /\ c.n = Len(b) + 1 /\ topic'[t].buffer = Append(b, c)
        /\ sub'[i].task = {t} /\ sub'[i].queue = p
    BY DEF Gets
  <1>5. IF q = <<>> THEN Reaches(down, i, Len(down) + 1, heardTo[i], Len(b)) ELSE Last(q).n = Len(b)
    BY <1>4 DEF Chunked, UpToDate, Listens
  <1>6. GoesOn(down, i, Len(down) + 1, heardTo[i], q)
    BY DEF Chunked
  <1> HIDE DEF q, b, p
  <1>7. ChunksIn(down, i, heardTo[i])'
    BY DEF LeavesStream, Chunked, Passes
  <1>8. GoesOn(down', i, Len(down') + 1, heardTo'[i], p)
    <2>1. CASE q = <<>>
      <3>1. Len(q) = 0
        BY <2>1
      <3>2. p[1] = c /\ DOMAIN p = 1..1 /\ c.n - 1 = Len(b)
        BY <1>1, <1>2, <1>4, <3>1
      <3>3. Reaches(down', i, Len(down') + 1, heardTo'[i], p[1].n - 1)
        BY <1>5, <2>1, <3>2 DEF LeavesStream, Passes
      <3>4. \A j \in DOMAIN p : p[j].n = p[1].n + j - 1
        BY <1>1, <1>4, <3>2
      <3> QED BY <3>3, <3>4 DEF GoesOn
    <2>2. CASE q # <<>>
      <3>1. Len(q) \in Nat \ {0}
        BY <1>1, <2>2, EmptySeq
      <3>2. /\ Reaches(down, i, Len(down) + 1, heardTo[i], q[1].n - 1)
            /\ \A j \in 1..Len(q) : q[j].n = q[1].n + j - 1
        BY <1>2, <1>6, <2>2 DEF GoesOn
      <3>3. p[1] = q[1] /\ q[1].n \in Nat
        BY <1>2, <3>1 DEF Chunk
      <3>4. Reaches(down', i, Len(down') + 1, heardTo'[i], p[1].n - 1)
        BY <3>2, <3>3 DEF LeavesStream, Passes
      <3>5. q[Len(q)].n = q[1].n + Len(q) - 1 /\ q[Len(q)].n = Len(b)
        BY <1>5, <2>2, <3>1, <3>2 DEF Last
      <3>6. ASSUME NEW j \in DOMAIN p PROVE p[j].n = p[1].n + j - 1
        <4>1. CASE j \in 1..Len(q)
          BY <1>2, <3>2, <3>3, <4>1
        <4>2. CASE j = Len(q) + 1
          <5>1. p[j].n = Len(b) + 1
            BY <1>2, <1>4, <4>2
          <5>2. \A a, l \in Nat : (a + l - 1) + 1 = a + (l + 1) - 1
            OBVIOUS
          <5> QED BY <1>1, <3>1, <3>3, <3>5, <4>2, <5>1, <5>2
        <4> QED BY <1>1, <1>2, <4>1, <4>2
      <3> QED BY <3>4, <3>6 DEF GoesOn
    <2> QED BY <2>1, <2>2
  <1>9. UpToDate(i)'
    <2>1. Len(p) # 0 /\ p # <<>>
      <3>1. Len(p) # 0 /\ Len(<<>>) = 0
        BY <1>1, <1>2
      <3> QED BY <3>1
    <2>2. Last(p).n = Len(topic'[t].buffer)
      BY <1>2, <1>3, <1>4 DEF Last
    <2> QED BY <1>4, <2>1, <2>2 DEF UpToDate
  <1> QED BY <1>4, <1>7, <1>8, <1>9 DEF Chunked

\* A step of a task.
LEMMA TaskKeeps ==
  ASSUME RendererInv,
         HubTypeOK', TopicsAreWhole',
         \A i \in Stream : LeavesSub(i) \/ \E t \in Task : \E c \in Chunk : Gets(i, t, c),
         eventSeq' \in [Event -> Nat],
         UNCHANGED <<up, attached, subscribed, inflight, handler, emitted, client, history, hostData, asked, cacheVars,
                     view, heardTo, cancels>>,
         \/ down' = down
         \/ /\ attached
            /\ \E m \in DownMessage : m.type = "event" /\ m.name # "cache.invalidate" /\ down' = Append(down, m)
  PROVE  RendererInv'
  <1>0. /\ Typed /\ Placed /\ InOrder /\ Whole /\ Fresh /\ down \in Seq(DownMessage) /\ (~attached => down = <<>>)
        /\ WiresTyped /\ HostTyped /\ ClientTyped /\ HubTypeOK /\ ViewTyped /\ CacheTyped
        /\ up \in Seq(UpMessage) /\ (~attached => up = <<>>)
    BY DEF RendererInv, Typed, WiresTyped
  <1>1. UNCHANGED <<pending, streams, used, deaf, data, announced, acted, seen, rec, known>>
    BY DEF client, history, hostData, cacheVars
  <1>2. HostTyped' /\ CacheTyped'
    BY <1>0, <1>1 DEF HostTyped, CacheTyped
  <1>3. /\ down' \in Seq(DownMessage) /\ (~attached => down' = <<>>)
        /\ \A j \in Stream : Passes(down, down', j) /\ Count(down', Lasts(j)) = Count(down, Lasts(j))
        /\ \A j \in Call : Count(down', Answers(j)) = Count(down, Answers(j))
        /\ TrueIn(down', announced, data)
        /\ ~Async => FreshIn(down', known)
    <2>1. CASE down' = down
      BY <1>0, <2>1, PassesItself DEF Typed, Fresh
    <2>2. ASSUME attached, NEW m \in DownMessage, m.type = "event", m.name # "cache.invalidate",
                 down' = Append(down, m)
          PROVE  /\ down' \in Seq(DownMessage) /\ (~attached => down' = <<>>)
                 /\ \A j \in Stream : Passes(down, down', j) /\ Count(down', Lasts(j)) = Count(down, Lasts(j))
                 /\ \A j \in Call : Count(down', Answers(j)) = Count(down, Answers(j))
                 /\ TrueIn(down', announced, data)
                 /\ ~Async => FreshIn(down', known)
      <3>1. ~IsInvalidation(m) /\ ~IsReading(m) /\ m.type # "stream" /\ m.type # "response"
        BY <2>2 DEF IsInvalidation, IsReading
      <3>2. \A n \in Nat : n + 0 = n
        OBVIOUS
      <3>3. TrueIn(down', announced, data)
        BY <1>0, <2>2, <3>1, TrueAppend DEF Typed
      <3>4. ~Async => FreshIn(down', known)
        BY <1>0, <2>2, <3>1, FreshAppend DEF Fresh
      <3>5. /\ down' \in Seq(DownMessage)
            /\ \A j \in Stream : Passes(down, down', j) /\ Count(down', Lasts(j)) = Count(down, Lasts(j))
            /\ \A j \in Call : Count(down, Answers(j)) \in Nat /\ Count(down', Answers(j)) = Count(down, Answers(j)) + 0
        BY <1>0, <2>2, <3>1, OtherSent
      <3>6. \A j \in Call : Count(down', Answers(j)) = Count(down, Answers(j))
        BY <3>2, <3>5
      <3> QED BY <2>2, <3>3, <3>4, <3>5, <3>6
    <2> QED BY <2>1, <2>2
  <1>4. TrueIn(down, announced, data)' /\ Fresh'
    BY <1>0, <1>1, <1>3 DEF Fresh, FreshAtRest, Fetching
  <1>5. \A j \in Stream : LeavesStream(j)
    BY <1>1, <1>3 DEF LeavesStream
  <1>6. \A j \in Call : LeavesCall(j)
    BY <1>1, <1>3 DEF LeavesCall
  <1>7. ASSUME NEW i \in Stream, NEW t \in Task, NEW c \in Chunk, Gets(i, t, c) PROVE Keeps(i)
    <2> SUFFICES ASSUME attached
                 PROVE  /\ StreamIsPlaced(i)'
                        /\ i \in DOMAIN streams' => Numbered(i)' /\ Chunked(i)'
                        /\ (i \notin used \/ Asks(i))' => Unheard(i)'
      BY DEF Keeps
    <2>1. StreamIsPlaced(i)'
      BY <1>0, <1>5, StreamStaysPlaced DEF Placed
    <2>2. i \in DOMAIN streams => Numbered(i)' /\ Chunked(i)'
      BY <1>0, <1>5, <1>7, StreamStaysNumbered, ChunkedGets DEF InOrder, Whole
    <2>3. (i \notin used \/ Asks(i))' => Unheard(i)'
      BY <1>0, <1>1, <1>5, StreamStaysNumbered DEF InOrder
    <2> QED BY <1>1, <2>1, <2>2, <2>3
  <1>8. \A i \in Stream : (LeavesStream(i) /\ LeavesSub(i)) \/ Keeps(i)
    BY <1>5, <1>7
  <1>9. UNCHANGED <<attached, client, history, asked, rec, known, view, heardTo, cancels>>
    BY <1>1
  <1> QED BY <1>0, <1>2, <1>3, <1>4, <1>6, <1>8, <1>9, HostKeeps

LEMMA TaskStepsKeeps ==
  ASSUME RendererInv, NEW t \in Task, TaskSteps(t)
  PROVE  RendererInv'
  <1>0. /\ HubTypeOK /\ TopicsAreWhole /\ HostTyped
    BY DEF RendererInv, Typed, Whole
  <1>1. UNCHANGED <<up, down, attached, subscribed, inflight, handler, emitted, eventSeq, client, history, hostData,
                    asked, cacheVars, view, heardTo, cancels>>
    BY DEF TaskSteps, busVars, channel, host
  <1>2. eventSeq' \in [Event -> Nat]
    BY <1>0, <1>1 DEF HostTyped
  <1>3. row' \in [Task -> {"new", "running", "interrupted", "over"}]
    BY <1>0 DEF TaskSteps, TaskActs, TaskStarts, Forget, HubTypeOK
  <1>4. ASSUME NEW kind \in {"text", "step", "done"}, Publish(t, <<kind>>) PROVE RendererInv'
    <2>1. /\ topic' \in [Task -> Topics] /\ sub' \in [Sub -> [task : SUBSET Task, queue : Seq(Chunk), closed : BOOLEAN]]
          /\ TopicsAreWhole'
          /\ \A i \in Stream : LeavesSub(i) \/ \E c \in Chunk : Gets(i, t, c)
      BY <1>0, <1>1, <1>4, Publishes
    <2>2. HubTypeOK'
      BY <1>3, <2>1 DEF HubTypeOK, Topics
    <2> QED BY <1>1, <1>2, <2>1, <2>2, TaskKeeps
  <1>5. CASE Forget(t)
    <2>1. topic[t].is = "closed" /\ topic' = [topic EXCEPT ![t] = Gone] /\ UNCHANGED <<row, sub>>
      BY <1>5 DEF Forget
    <2>2. HubTypeOK'
      BY <1>0, <2>1 DEF HubTypeOK, Gone
    <2>3. \A u \in Task : topic[u].is = "open" => topic'[u] = topic[u]
      BY <1>0, <2>1 DEF HubTypeOK
    <2>4. TopicsAreWhole'
      <3>1. ASSUME NEW u \in Task
            PROVE  /\ \A k \in DOMAIN topic'[u].buffer : topic'[u].buffer[k].n = k
                   /\ topic'[u].is = "absent" => topic'[u].buffer = <<>>
        <4>1. CASE u = t
          BY <1>0, <2>1, <4>1 DEF HubTypeOK, Gone
        <4>2. CASE u # t
          BY <1>0, <2>1, <4>2 DEF HubTypeOK, TopicsAreWhole
        <4> QED BY <4>1, <4>2
      <3>2. \A i \in Sub : ~sub'[i].closed => \E u \in Task : sub'[i].task = {u} /\ topic'[u].is = "open"
        BY <1>0, <2>1, <2>3 DEF TopicsAreWhole
      <3>3. \A i \in Sub : sub'[i] # None => handler'[i] = "running"
        BY <1>0, <1>1, <2>1 DEF TopicsAreWhole
      <3> QED BY <3>1, <3>2, <3>3 DEF TopicsAreWhole
    <2>5. \A i \in Stream : LeavesSub(i)
      <3> SUFFICES ASSUME NEW i \in Stream, NEW u \in Task, sub[i].task = {u}, ~sub[i].closed
                   PROVE  topic'[u].buffer = topic[u].buffer
        BY <2>1 DEF LeavesSub
      <3>1. PICK w \in Task : sub[i].task = {w} /\ topic[w].is = "open"
        BY <1>0, StreamsAssumption DEF TopicsAreWhole
      <3>2. u = w
        BY <3>1
      <3> QED BY <2>3, <3>1, <3>2
    <2> QED BY <1>1, <1>2, <2>2, <2>4, <2>5, TaskKeeps
  <1> QED BY <1>4, <1>5 DEF TaskSteps, TaskActs, TaskStarts

LEMMA TaskEndsKeeps ==
  ASSUME RendererInv, NEW t \in Task, TaskEnds(t)
  PROVE  RendererInv'
  <1>0. /\ HubTypeOK /\ TopicsAreWhole /\ HostTyped /\ down \in Seq(DownMessage)
    BY DEF RendererInv, Typed, Whole, WiresTyped
  <1> DEFINE e == "task.changed"
             notice == [type |-> "event", name |-> e, seq |-> eventSeq[e] + 1, val |-> 0]
  <1>1. UNCHANGED <<up, attached, subscribed, inflight, handler, emitted, client, history, hostData,
                    asked, cacheVars, view, heardTo, cancels>>
    BY DEF TaskEnds, PublishEvent, busVars, channel, host
  <1>2. e \in Event /\ eventSeq[e] \in Nat
    BY <1>0, EventsAssumption DEF HostTyped
  <1>3. eventSeq' \in [Event -> Nat]
    BY <1>0, <1>2 DEF TaskEnds, PublishEvent, HostTyped, busVars, host
  <1>4. notice \in DownMessage /\ notice.type = "event" /\ notice.name # "cache.invalidate"
    BY <1>2 DEF DownMessage, Notification
  <1>5. \/ down' = down
        \/ attached /\ down' = Append(down, notice)
    <2>1. down \o <<>> = down /\ down \o <<notice>> = Append(down, notice)
      BY <1>0, <1>4, ConcatEmptySeq, AppendIsConcat
    <2>2. \/ down' = down
          \/ attached /\ down' = down \o <<>>
          \/ attached /\ down' = down \o <<notice>>
      BY DEF TaskEnds, PublishEvent, SendAll, Notice, busVars, channel
    <2> QED BY <2>1, <2>2
  <1>6. Publish(t, <<"done">>) /\ row' = [row EXCEPT ![t] = "over"]
    BY DEF TaskEnds, TaskRests
  <1>7. /\ topic' \in [Task -> Topics] /\ sub' \in [Sub -> [task : SUBSET Task, queue : Seq(Chunk), closed : BOOLEAN]]
        /\ TopicsAreWhole'
        /\ \A i \in Stream : LeavesSub(i) \/ \E c \in Chunk : Gets(i, t, c)
    BY <1>0, <1>1, <1>6, Publishes
  <1>8. HubTypeOK'
    BY <1>0, <1>6, <1>7 DEF HubTypeOK, Topics
  <1> HIDE DEF notice
  <1> QED BY <1>1, <1>3, <1>4, <1>5, <1>7, <1>8, TaskKeeps

-----------------------------------------------------------------------------
(* A stream's handler                                                       *)

\* A subscription begins with all of its topic, and nothing was heard before.
LEMMA HostStreamsKeeps ==
  ASSUME RendererInv, NEW i, HostStreams(i)
  PROVE  RendererInv'
  <1>0. /\ Typed /\ Placed /\ InOrder /\ Whole /\ Fresh /\ down \in Seq(DownMessage)
        /\ WiresTyped /\ HostTyped /\ ClientTyped /\ HubTypeOK /\ ViewTyped /\ CacheTyped /\ TopicsAreWhole
    BY DEF RendererInv, Typed, WiresTyped, Whole
  <1>1. Call \subseteq Id /\ Stream \subseteq Id /\ Call \cap Stream = {} /\ i \in Stream /\ i \in Id
        /\ Query \subseteq Call /\ Sub = Stream
    BY KindsAssumption, StreamsAssumption DEF Call, Id, HostStreams
  <1>2. PICK t \in asked[i] : Subscribe(i, t)
    BY DEF HostStreams
  <1>3. t \in Task
    BY <1>0, <1>1 DEF ViewTyped
  <1>4. /\ Arrives(Request(i))
        /\ inflight' = [inflight EXCEPT ![i] = "live"] /\ handler' = [handler EXCEPT ![i] = "running"]
        /\ UNCHANGED <<down, attached, subscribed, emitted, eventSeq, client, history, hostData, asked, rec, known,
                       view, heardTo, cancels, data, announced, acted, seen, pending, streams, used, deaf>>
    BY DEF HostStreams, Start, cacheVars, hostData, client, history
  <1>5. /\ attached /\ up' \in Seq(UpMessage)
        /\ \A j \in Id \ {i} : Count(up', Requests(j)) = Count(up, Requests(j))
        /\ Count(up, Requests(i)) # 0 /\ Count(up', Requests(i)) = 0
        /\ Speaks(i) /\ handler[i] # "running" /\ sub[i] = None /\ Unheard(i) /\ i \in DOMAIN streams
    BY <1>1, <1>4, RequestTaken
  <1> DEFINE tp == Snapshot(t)
             fresh == [task |-> {t}, queue |-> tp.buffer, closed |-> tp.is = "closed"]
  <1>6. IsWhole(tp) /\ tp.is \in {"open", "closed"} /\ (topic[t].is # "absent" => tp = topic[t])
    BY <1>0, <1>3, TopicWhole, SnapshotIsWhole
  <1>7. topic' = [topic EXCEPT ![t] = tp] /\ sub' = [sub EXCEPT ![i] = fresh] /\ row' = row
    BY <1>2 DEF Subscribe
  <1> HIDE DEF tp
  <1>8. /\ tp \in Topics /\ tp.buffer \in Seq(Chunk) /\ Len(tp.buffer) \in Nat /\ DOMAIN tp.buffer = 1..Len(tp.buffer)
        /\ \A k \in DOMAIN tp.buffer : tp.buffer[k].n = k
    <2>1. tp \in Topics /\ tp.buffer \in Seq(Chunk) /\ \A k \in DOMAIN tp.buffer : tp.buffer[k].n = k
      BY <1>6 DEF IsWhole, Topics
    <2> QED BY <2>1, LenProperties
  <1>9. fresh \in [task : SUBSET Task, queue : Seq(Chunk), closed : BOOLEAN]
    BY <1>3, <1>8
  <1>10. fresh.task = {t} /\ fresh.queue = tp.buffer /\ (fresh.closed <=> tp.is = "closed")
    OBVIOUS
  <1> HIDE DEF fresh
  <1>11. HubTypeOK'
    BY <1>0, <1>7, <1>8, <1>9 DEF HubTypeOK, Topics
  <1>12. /\ topic'[t] = tp /\ \A u \in Task \ {t} : topic'[u] = topic[u]
         /\ sub'[i] = fresh /\ \A j \in Sub \ {i} : sub'[j] = sub[j]
         /\ \A u \in Task : topic[u].is = "open" => topic'[u] = topic[u]
    BY <1>0, <1>1, <1>3, <1>6, <1>7 DEF HubTypeOK
  <1>13. /\ handler'[i] = "running" /\ \A j \in Id \ {i} : handler'[j] = handler[j]
         /\ inflight'[i] = "live" /\ \A j \in Id \ {i} : inflight'[j] = inflight[j]
    BY <1>0, <1>1, <1>4 DEF HostTyped
  <1>14. TopicsAreWhole'
    <2>1. ASSUME NEW u \in Task
          PROVE  /\ \A k \in DOMAIN topic'[u].buffer : topic'[u].buffer[k].n = k
                 /\ topic'[u].is = "absent" => topic'[u].buffer = <<>>
      <3>1. IsWhole(topic'[u])
        BY <1>0, <1>6, <1>12, TopicWhole
      <3> QED BY <3>1 DEF IsWhole
    <2>2. ASSUME NEW j \in Sub, ~sub'[j].closed
          PROVE  \E u \in Task : sub'[j].task = {u} /\ topic'[u].is = "open"
      <3>1. CASE j = i
        BY <1>3, <1>6, <1>10, <1>12, <2>2, <3>1
      <3>2. CASE j # i
        <4>1. sub'[j] = sub[j]
          BY <1>12, <3>2
        <4>2. PICK u \in Task : sub[j].task = {u} /\ topic[u].is = "open"
          BY <1>0, <2>2, <4>1 DEF TopicsAreWhole
        <4> QED BY <1>12, <4>1, <4>2
      <3> QED BY <3>1, <3>2
    <2>3. ASSUME NEW j \in Sub, sub'[j] # None PROVE handler'[j] = "running"
      <3>1. CASE j = i
        BY <1>13, <3>1
      <3>2. CASE j # i
        BY <1>0, <1>1, <1>12, <1>13, <2>3, <3>2 DEF TopicsAreWhole
      <3> QED BY <3>1, <3>2
    <2> QED BY <2>1, <2>2, <2>3 DEF TopicsAreWhole
  <1>15. \A j \in Stream \ {i} : LeavesStream(j) /\ LeavesSub(j)
    <2> SUFFICES ASSUME NEW j \in Stream \ {i} PROVE LeavesStream(j) /\ LeavesSub(j)
      OBVIOUS
    <2>1. LeavesStream(j)
      BY <1>1, <1>4, <1>5, <1>13, PassesItself DEF LeavesStream
    <2>2. ASSUME NEW u \in Task, sub[j].task = {u}, ~sub[j].closed PROVE topic'[u].buffer = topic[u].buffer
      <3>1. PICK w \in Task : sub[j].task = {w} /\ topic[w].is = "open"
        BY <1>0, <1>1, <2>2 DEF TopicsAreWhole
      <3>2. u = w
        BY <2>2, <3>1
      <3> QED BY <1>12, <3>1, <3>2
    <2>3. sub'[j] = sub[j]
      BY <1>1, <1>12
    <2> QED BY <2>1, <2>2, <2>3 DEF LeavesSub
  <1>16. Keeps(i)
    <2>1. StreamIsPlaced(i) /\ Numbered(i)
      BY <1>0, <1>1, <1>5 DEF Placed, InOrder
    <2>2. StreamIsPlaced(i)'
      <3>1. Asks(i)
        BY <1>5 DEF Asks
      <3>2. Count(down, Lasts(i)) = 0
        BY <1>0, <1>1, <2>1, <3>1, StreamPlaces
      <3> QED BY <1>4, <1>5, <1>13, <3>2 DEF StreamIsPlaced
    <2>3. Numbered(i)'
      BY <1>4, <1>5, <2>1 DEF Numbered
    <2>4. \A k \in DOMAIN down : ~IsChunkOf(down[k], i)
      BY <1>5 DEF Unheard, NoneOf, IsChunkOf, IsOf
    <2>5. heardTo[i] = 0 /\ Len(down) \in Nat /\ DOMAIN down = 1..Len(down)
      BY <1>0, <1>5, LenProperties DEF Unheard
    <2>6. \A b \in 1..((Len(down) + 1) - 1) : ~IsChunkOf(down[b], i)
      BY <2>4, <2>5
    <2>7. Reaches(down, i, Len(down) + 1, heardTo[i], 0)
      BY <2>5, <2>6 DEF Reaches
    <2>8. GoesOn(down, i, Len(down) + 1, heardTo[i], tp.buffer)
      <3> SUFFICES ASSUME tp.buffer # <<>>
                   PROVE  /\ Reaches(down, i, Len(down) + 1, heardTo[i], tp.buffer[1].n - 1)
                          /\ \A j \in DOMAIN tp.buffer : tp.buffer[j].n = tp.buffer[1].n + j - 1
        BY DEF GoesOn
      <3>1. 1 \in DOMAIN tp.buffer
        BY <1>8, EmptySeq
      <3>2. tp.buffer[1].n = 1 /\ 1 - 1 = 0
        BY <1>8, <3>1
      <3>3. \A j \in DOMAIN tp.buffer : tp.buffer[j].n = 1 + j - 1
        BY <1>8
      <3> QED BY <2>7, <3>2, <3>3
    <2>9. UpToDate(i)'
      <3>1. ASSUME tp.buffer = <<>> PROVE Len(tp.buffer) = 0
        BY <3>1
      <3>2. ASSUME tp.buffer # <<>> PROVE Last(tp.buffer).n = Len(tp.buffer)
        <4>1. Len(tp.buffer) \in DOMAIN tp.buffer
          BY <1>8, <3>2, EmptySeq
        <4> QED BY <1>8, <4>1 DEF Last
      <3>3. \A u \in Task : sub'[i].task = {u} => topic'[u].buffer = tp.buffer
        BY <1>10, <1>12
      <3> QED BY <1>4, <1>10, <1>12, <2>7, <3>1, <3>2, <3>3 DEF UpToDate
    <2>10. Chunked(i)'
      BY <1>4, <1>10, <1>12, <2>4, <2>8, <2>9 DEF Chunked, ChunksIn
    <2>11. Unheard(i)'
      BY <1>4, <1>5 DEF Unheard
    <2> QED BY <2>2, <2>3, <2>10, <2>11 DEF Keeps
  <1>17. HostTyped' /\ CacheTyped'
    BY <1>0, <1>1, <1>4, <1>13 DEF HostTyped, CacheTyped
  <1>18. TrueIn(down, announced, data)' /\ Fresh'
    <2>1. \A q \in Query : handler'[q] = handler[q]
      BY <1>1, <1>13
    <2> QED BY <1>0, <1>4, <2>1 DEF Typed, Fresh, FreshAtRest, Fetching
  <1>19. \A j \in Call : LeavesCall(j)
    BY <1>1, <1>4, <1>5, <1>13 DEF LeavesCall
  <1> QED BY <1>0, <1>4, <1>5, <1>11, <1>14, <1>15, <1>16, <1>17, <1>18, <1>19, HostKeeps

\* What a step of the loop of stream i leaves to the others.
LEMMA LoopLeaves ==
  ASSUME RendererInv, NEW i \in Stream, NEW m \in StreamMessage, m.id = i,
         down' = IF attached THEN Append(down, m) ELSE down,
         \A j \in Stream \ {i} : /\ emitted'[j] = emitted[j] /\ handler'[j] = handler[j] /\ sub'[j] = sub[j],
         \A j \in Call : inflight'[j] = inflight[j] /\ handler'[j] = handler[j],
         UNCHANGED <<up, attached, client, history, topic, data, announced, known, rec, heardTo>>
  PROVE  /\ down' \in Seq(DownMessage) /\ (~attached => down' = <<>>)
         /\ \A j \in Stream \ {i} : LeavesStream(j) /\ LeavesSub(j)
         /\ \A j \in Call : LeavesCall(j)
         /\ TrueIn(down, announced, data)' /\ Fresh'
  <1>0. /\ WiresTyped /\ Fresh /\ down \in Seq(DownMessage) /\ (~attached => down = <<>>)
        /\ TrueIn(down, announced, data)
    BY DEF RendererInv, Typed, WiresTyped
  <1>1. UNCHANGED <<pending, streams, used, deaf>>
    BY DEF client, history
  <1>2. Query \subseteq Call
    BY DEF Call
  <1>3. m \in DownMessage /\ m.type = "stream" /\ ~IsReading(m) /\ ~IsInvalidation(m)
    BY DEF DownMessage, StreamMessage, IsReading, IsInvalidation
  <1>4. /\ down' \in Seq(DownMessage) /\ (~attached => down' = <<>>)
        /\ \A j \in Stream \ {i} : Passes(down, down', j) /\ Count(down', Lasts(j)) = Count(down, Lasts(j))
        /\ \A j \in Call : Count(down', Answers(j)) = Count(down, Answers(j))
        /\ TrueIn(down', announced, data)
        /\ ~Async => FreshIn(down', known)
    <2>1. CASE ~attached
      BY <1>0, <2>1, PassesItself DEF Fresh
    <2>2. CASE attached
      <3>1. down' = Append(down, m)
        BY <2>2
      <3>2. \A j \in Stream \ {i} : ~IsOf(m, j)
        BY DEF IsOf
      <3>3. \A j \in Stream \ {i} : Passes(down, down', j)
        BY <1>0, <1>3, <3>1, <3>2, PassesAppend
      <3>4. \A n \in Nat : n + 0 = n
        OBVIOUS
      <3>5. /\ down' \in Seq(DownMessage)
            /\ \A j \in Stream \ {i} : Count(down, Lasts(j)) \in Nat /\ Count(down', Lasts(j)) = Count(down, Lasts(j)) + 0
            /\ \A j \in Call : Count(down, Answers(j)) \in Nat /\ Count(down', Answers(j)) = Count(down, Answers(j)) + 0
        BY <1>0, <1>3, <3>1, DownSends
      <3>6. TrueIn(down', announced, data)
        BY <1>0, <1>3, <3>1, TrueAppend
      <3>7. ~Async => FreshIn(down', known)
        BY <1>0, <1>3, <3>1, FreshAppend DEF Fresh
      <3> QED BY <2>2, <3>3, <3>4, <3>5, <3>6, <3>7
    <2> QED BY <2>1, <2>2
  <1>5. TrueIn(down, announced, data)' /\ Fresh'
    BY <1>0, <1>2, <1>4 DEF Fresh, FreshAtRest, Fetching
  <1>6. \A j \in Stream \ {i} : LeavesStream(j)
    BY <1>1, <1>4 DEF LeavesStream
  <1>7. \A j \in Stream \ {i} : LeavesSub(j)
    BY DEF LeavesSub
  <1>8. \A j \in Call : LeavesCall(j)
    BY <1>1, <1>4 DEF LeavesCall
  <1> QED BY <1>4, <1>5, <1>6, <1>7, <1>8

\* What is handed over goes on with what was sent before, and what is left
\* goes on with that.
LEMMA HubGivesKeeps ==
  ASSUME RendererInv, NEW i, HubGives(i)
  PROVE  RendererInv'
  <1>0. /\ Typed /\ Placed /\ InOrder /\ Whole /\ Fresh /\ down \in Seq(DownMessage)
        /\ WiresTyped /\ HostTyped /\ ClientTyped /\ HubTypeOK /\ ViewTyped /\ CacheTyped /\ TopicsAreWhole
        /\ up \in Seq(UpMessage) /\ (~attached => up = <<>>)
    BY DEF RendererInv, Typed, WiresTyped, Whole
  <1>1. Call \subseteq Id /\ Stream \subseteq Id /\ Call \cap Stream = {} /\ i \in Stream /\ i \in Id /\ Sub = Stream
    BY KindsAssumption, StreamsAssumption DEF Call, Id, HubGives, StreamTurn
  <1> DEFINE q == sub[i].queue
             b == Burst(q)
             m == Message(i, "chunk", b)
             rest == SubSeq(q, Len(b) + 1, Len(q))
  <1>2. q \in Seq(Chunk) /\ q # <<>> /\ Len(q) \in Nat \ {0} /\ DOMAIN q = 1..Len(q) /\ \A k \in 1..Len(q) : q[k] \in Chunk
    <2>1. q \in Seq(Chunk) /\ q # <<>>
      BY <1>0, <1>1 DEF HubTypeOK, HubGives, HasNext
    <2> QED BY <2>1, LenProperties, EmptySeq
  <1>3. PICK n \in 1..Len(q) :
          /\ b \in Seq(Chunk) /\ b # <<>> /\ Len(b) = n
          /\ \A k \in 1..n : b[k] = q[k]
          /\ SubSeq(q, n + 1, Len(q)) \in Seq(Chunk) /\ Len(SubSeq(q, n + 1, Len(q))) = Len(q) - n
          /\ \A k \in 1..(Len(q) - n) : SubSeq(q, n + 1, Len(q))[k] = q[n + k]
    BY <1>2, BurstIsAPrefix
  <1>4. /\ handler[i] = "running" /\ inflight[i] = "live"
        /\ down' = IF attached THEN Append(down, m) ELSE down
        /\ emitted' = [emitted EXCEPT ![i] = @ + 1] /\ sub' = [sub EXCEPT ![i].queue = rest]
        /\ UNCHANGED <<up, attached, subscribed, inflight, handler, eventSeq, client, history, row, topic, hostData,
                       asked, rec, known, view, heardTo, cancels, data, announced, acted, seen, pending, streams, used,
                       deaf>>
    BY DEF HubGives, StreamTurn, Send, Give, NextChunk, cacheVars, hostData, client, history
  <1>5. m \in StreamMessage /\ m.id = i /\ m.kind = "chunk" /\ m.seq = emitted[i] /\ m.val = b /\ m.type = "stream"
    BY <1>0, <1>1, <1>3 DEF Message, StreamMessage, HostTyped
  <1>6. rest \in Seq(Chunk) /\ Len(rest) = Len(q) - n /\ \A k \in 1..(Len(q) - n) : rest[k] = q[n + k]
    BY <1>3
  <1>17. n \in Nat /\ 1 <= n /\ n <= Len(q) /\ Len(q) \in Nat /\ DOMAIN rest = 1..(Len(q) - n) /\ Len(q) - n \in Nat
    <2>1. Len(q) \in Nat
      BY <1>2
    <2>2. \A l \in Nat : \A k \in 1..l : k \in Nat /\ 1 <= k /\ k <= l /\ l - k \in Nat
      OBVIOUS
    <2>3. n \in Nat /\ 1 <= n /\ n <= Len(q) /\ Len(q) - n \in Nat
      BY <2>1, <2>2
    <2>4. DOMAIN rest = 1..(Len(q) - n)
      BY <1>6, LenProperties
    <2> QED BY <2>1, <2>3, <2>4
  <1>7. /\ sub'[i].queue = rest /\ sub'[i].task = sub[i].task /\ sub'[i].closed = sub[i].closed
        /\ \A j \in Stream \ {i} : sub'[j] = sub[j]
    BY <1>0, <1>1, <1>4 DEF HubTypeOK
  <1> HIDE DEF q, b, m, rest
  <1>8. HubTypeOK'
    BY <1>0, <1>1, <1>4, <1>6 DEF HubTypeOK
  <1>9. TopicsAreWhole'
    <2>1. \A j \in Sub : sub'[j].closed = sub[j].closed /\ sub'[j].task = sub[j].task
      BY <1>1, <1>7
    <2>2. \A j \in Sub : sub'[j] # None => handler'[j] = "running"
      BY <1>0, <1>1, <1>4, <1>7 DEF TopicsAreWhole
    <2> QED BY <1>0, <1>4, <2>1, <2>2 DEF TopicsAreWhole
  <1>10. emitted'[i] = emitted[i] + 1 /\ \A j \in Stream \ {i} : emitted'[j] = emitted[j]
    BY <1>0, <1>1, <1>4 DEF HostTyped
  <1>11. /\ down' \in Seq(DownMessage) /\ (~attached => down' = <<>>)
         /\ \A j \in Stream \ {i} : LeavesStream(j) /\ LeavesSub(j)
         /\ \A j \in Call : LeavesCall(j)
         /\ TrueIn(down, announced, data)' /\ Fresh'
    BY <1>1, <1>4, <1>5, <1>7, <1>10, LoopLeaves
  <1>12. HostTyped' /\ CacheTyped'
    BY <1>0, <1>1, <1>4 DEF HostTyped, CacheTyped
  <1>13. ASSUME attached PROVE StreamIsPlaced(i)' /\ Numbered(i)' /\ Chunked(i)' /\ ~(i \notin used \/ Asks(i))'
    <2>1. down' = Append(down, m) /\ m \in DownMessage /\ IsOf(m, i) /\ IsChunkOf(m, i)
      BY <1>4, <1>5, <1>13 DEF DownMessage, IsOf, IsChunkOf
    <2>2. StreamIsPlaced(i)
      BY <1>0, <1>1, <1>13 DEF Placed
    <2>3. i \in DOMAIN streams /\ Count(up, Requests(i)) = 0 /\ Count(down, Lasts(i)) = 0
      BY <1>0, <1>1, <1>4, <2>2, StreamPlaces
    <2>4. Count(down', Lasts(i)) = 0
      <3>1. Count(down', Lasts(i)) = Count(down, Lasts(i)) + 0
        BY <1>0, <1>1, <1>5, <2>1, DownSends
      <3> QED BY <2>3, <3>1
    <2>5. StreamIsPlaced(i)'
      BY <1>4, <2>3, <2>4 DEF StreamIsPlaced
    <2>6. ~(i \notin used \/ Asks(i))'
      BY <1>0, <1>4, <2>3 DEF ClientTyped, Asks
    <2>7. /\ NumberedIn(down, i, streams[i]) /\ Leads(down, i, Len(down) + 1, streams[i], emitted[i])
          /\ ChunksIn(down, i, heardTo[i]) /\ GoesOn(down, i, Len(down) + 1, heardTo[i], q) /\ UpToDate(i)
      BY <1>0, <1>4, <1>13, <2>3 DEF InOrder, Numbered, Speaks, Whole, Chunked, q
    <2>8. Len(down) \in Nat /\ Len(down') = Len(down) + 1 /\ (Len(down) + 1) + 1 = Len(down) + 2
      BY <1>0, <2>1, Appended
    <2>9. Numbered(i)'
      <3>1. NumberedIn(down', i, streams[i])
        BY <1>0, <1>5, <2>1, <2>7, NumberedAppend
      <3>2. Leads(down', i, Len(down) + 2, streams[i], emitted[i] + 1)
        BY <1>0, <1>5, <2>1, <2>7, LeadsNext
      <3> QED BY <1>4, <1>10, <2>8, <3>1, <3>2 DEF Numbered
    <2>10. /\ Reaches(down, i, Len(down) + 1, heardTo[i], q[1].n - 1)
           /\ \A j \in DOMAIN q : q[j].n = q[1].n + j - 1
      BY <1>2, <2>7 DEF GoesOn
    <2>11. DOMAIN b = 1..n /\ b[1] = q[1] /\ Last(b) = q[n]
      BY <1>3, LenProperties DEF Last
    <2>12. ChunksIn(down', i, heardTo[i])
      <3>1. GoesOn(down, i, Len(down) + 1, heardTo[i], b)
        BY <1>2, <1>3, <2>10, <2>11 DEF GoesOn
      <3> QED BY <1>0, <1>3, <1>5, <2>1, <2>7, <3>1, ChunksAppend
    <2>13. GoesOn(down', i, Len(down) + 2, heardTo[i], rest)
      <3> SUFFICES ASSUME rest # <<>>
                   PROVE  /\ Reaches(down', i, Len(down) + 2, heardTo[i], rest[1].n - 1)
                          /\ \A j \in DOMAIN rest : rest[j].n = rest[1].n + j - 1
        BY DEF GoesOn
      <3>1. Len(rest) \in Nat \ {0} /\ DOMAIN rest = 1..Len(rest) /\ Len(rest) = Len(q) - n
        BY <1>6, LenProperties, EmptySeq
      <3>2. rest[1] = q[n + 1] /\ n + 1 \in DOMAIN q /\ n \in DOMAIN q
        <4>1. \A l, k \in Nat : 1 <= k /\ k <= l /\ l - k \in Nat \ {0} => 1 \in 1..(l - k) /\ k + 1 \in 1..l
          OBVIOUS
        <4>2. 1 \in 1..(Len(q) - n) /\ n + 1 \in 1..Len(q)
          BY <1>17, <3>1, <4>1
        <4> QED BY <1>2, <1>6, <4>2
      <3>3. q[n].n \in Nat /\ q[n + 1].n \in Nat /\ q[1].n \in Nat /\ 1 \in DOMAIN q
        BY <1>2, <3>2 DEF Chunk
      <3>4. q[n + 1].n - 1 = q[n].n
        BY <1>2, <2>10, <3>2, <3>3
      <3>5. Reaches(down', i, Len(down) + 2, heardTo[i], rest[1].n - 1)
        BY <1>0, <1>5, <2>1, <2>11, <3>2, <3>4, ReachesNext
      <3>6. ASSUME NEW j \in DOMAIN rest PROVE rest[j].n = rest[1].n + j - 1
        <4>1. rest[j] = q[n + j] /\ n + j \in DOMAIN q /\ j \in Nat
          <5>1. \A l, k \in Nat : k <= l => \A x \in 1..(l - k) : x \in Nat /\ k + x \in 1..l
            OBVIOUS
          <5>2. j \in 1..(Len(q) - n)
            BY <1>17
          <5> QED BY <1>2, <1>6, <1>17, <5>1, <5>2
        <4>2. q[n + j].n = q[1].n + (n + j) - 1 /\ q[n + 1].n = q[1].n + (n + 1) - 1
          BY <2>10, <3>2, <4>1
        <4>3. \A a, x, y \in Nat : a + (x + y) - 1 = (a + (x + 1) - 1) + y - 1
          OBVIOUS
        <4>4. q[n + j].n = (q[1].n + (n + 1) - 1) + j - 1
          BY <1>17, <3>3, <4>1, <4>2, <4>3
        <4> QED BY <3>2, <4>1, <4>2, <4>4
      <3> QED BY <3>5, <3>6
    <2>14. UpToDate(i)'
      <3>1. ASSUME NEW t \in Task, sub[i].task = {t}, ~sub[i].closed
            PROVE  IF rest = <<>> THEN Reaches(down', i, Len(down) + 2, heardTo[i], Len(topic[t].buffer))
                   ELSE Last(rest).n = Len(topic[t].buffer)
        <4>1. Last(q).n = Len(topic[t].buffer)
          BY <1>2, <2>7, <3>1 DEF UpToDate, q
        <4>2. CASE rest = <<>>
          <5>1. Len(rest) = 0
            BY <4>2
          <5>2. n = Len(q)
            <6>1. \A l, k \in Nat : l - k = 0 => k = l
              OBVIOUS
            <6> QED BY <1>6, <1>17, <5>1, <6>1
          <5>3. Last(b).n = Len(topic[t].buffer)
            BY <2>11, <4>1, <5>2 DEF Last
          <5>4. Reaches(down', i, Len(down) + 2, heardTo[i], Len(topic[t].buffer))
            BY <1>0, <1>5, <2>1, <5>3, ReachesNext
          <5> QED BY <4>2, <5>4
        <4>3. CASE rest # <<>>
          <5>1. Len(rest) \in Nat \ {0} /\ Len(rest) = Len(q) - n
            BY <1>6, <4>3, EmptySeq, LenProperties
          <5>2. Len(rest) \in 1..(Len(q) - n) /\ n + Len(rest) = Len(q)
            <6>1. \A l, k \in Nat : l - k \in Nat \ {0} => l - k \in 1..(l - k) /\ k + (l - k) = l
              OBVIOUS
            <6> QED BY <1>17, <5>1, <6>1
          <5>3. rest[Len(rest)] = q[Len(q)]
            BY <1>6, <5>2
          <5> QED BY <4>1, <4>3, <5>3 DEF Last
        <4> QED BY <4>2, <4>3
      <3> QED BY <1>4, <1>7, <2>8, <3>1 DEF UpToDate
    <2>15. Chunked(i)'
      BY <1>4, <1>7, <2>8, <2>12, <2>13, <2>14 DEF Chunked
    <2> QED BY <2>5, <2>6, <2>9, <2>15
  <1>14. Keeps(i)
    BY <1>4, <1>13 DEF Keeps
  <1> QED BY <1>0, <1>4, <1>8, <1>9, <1>11, <1>12, <1>14, HostKeeps

LEMMA HubEndsKeeps ==
  ASSUME RendererInv, NEW i, HubEnds(i)
  PROVE  RendererInv'
  <1>0. /\ Typed /\ Placed /\ InOrder /\ Whole /\ Fresh /\ down \in Seq(DownMessage)
        /\ WiresTyped /\ HostTyped /\ ClientTyped /\ HubTypeOK /\ ViewTyped /\ CacheTyped /\ TopicsAreWhole
        /\ up \in Seq(UpMessage) /\ (~attached => up = <<>>)
    BY DEF RendererInv, Typed, WiresTyped, Whole
  <1>1. Call \subseteq Id /\ Stream \subseteq Id /\ Call \cap Stream = {} /\ i \in Stream /\ i \in Id /\ Sub = Stream
    BY KindsAssumption, StreamsAssumption DEF Call, Id, HubEnds, StreamTurn
  <1> DEFINE kind == IF inflight[i] = "live" THEN "end" ELSE "cancelled"
             m == Message(i, kind, <<>>)
  <1>2. /\ handler[i] = "running"
        /\ down' = IF attached THEN Append(down, m) ELSE down
        /\ emitted' = [emitted EXCEPT ![i] = @ + 1] /\ sub' = [sub EXCEPT ![i] = None]
        /\ handler' = [handler EXCEPT ![i] = "done"] /\ inflight' = [inflight EXCEPT ![i] = "no"]
        /\ UNCHANGED <<up, attached, subscribed, eventSeq, client, history, row, topic, hostData, asked, rec, known,
                       view, heardTo, cancels, data, announced, acted, seen, pending, streams, used, deaf>>
    BY DEF HubEnds, StreamTurn, Send, Drop, cacheVars, hostData, client, history
  <1>3. m \in StreamMessage /\ m.id = i /\ m.kind # "chunk" /\ m.seq = emitted[i]
    <2>1. <<>> \in Seq(Chunk)
      OBVIOUS
    <2> QED BY <1>0, <1>1, <2>1 DEF Message, StreamMessage, HostTyped
  <1> HIDE DEF m, kind
  <1>4. HubTypeOK'
    <2>1. <<>> \in Seq(Chunk)
      OBVIOUS
    <2>2. None \in [task : SUBSET Task, queue : Seq(Chunk), closed : BOOLEAN]
      BY <2>1 DEF None
    <2> QED BY <1>0, <1>2, <2>2 DEF HubTypeOK
  <1>5. /\ sub'[i] = None /\ \A j \in Stream \ {i} : sub'[j] = sub[j]
        /\ handler'[i] = "done" /\ inflight'[i] = "no"
        /\ \A j \in Id \ {i} : handler'[j] = handler[j] /\ inflight'[j] = inflight[j]
        /\ \A j \in Stream \ {i} : emitted'[j] = emitted[j]
    BY <1>0, <1>1, <1>2 DEF HubTypeOK, HostTyped
  <1>6. TopicsAreWhole'
    <2>1. \A j \in Sub : ~sub'[j].closed => \E t \in Task : sub'[j].task = {t} /\ topic'[t].is = "open"
      <3> SUFFICES ASSUME NEW j \in Sub, ~sub'[j].closed
                   PROVE  \E t \in Task : sub'[j].task = {t} /\ topic'[t].is = "open"
        OBVIOUS
      <3>1. j # i
        BY <1>5 DEF None
      <3>2. sub'[j] = sub[j]
        BY <1>1, <1>5, <3>1
      <3> QED BY <1>0, <1>2, <3>2 DEF TopicsAreWhole
    <2>2. \A j \in Sub : sub'[j] # None => handler'[j] = "running"
      BY <1>0, <1>1, <1>5 DEF TopicsAreWhole
    <2> QED BY <1>0, <1>2, <2>1, <2>2 DEF TopicsAreWhole
  <1>7. HostTyped' /\ CacheTyped'
    BY <1>0, <1>1, <1>2 DEF HostTyped, CacheTyped
  <1>8. \A j \in Stream \ {i} : /\ emitted'[j] = emitted[j] /\ handler'[j] = handler[j] /\ sub'[j] = sub[j]
    BY <1>1, <1>5
  <1>9. \A j \in Call : inflight'[j] = inflight[j] /\ handler'[j] = handler[j]
    BY <1>1, <1>5
  <1>10. /\ down' \in Seq(DownMessage) /\ (~attached => down' = <<>>)
         /\ \A j \in Stream \ {i} : LeavesStream(j) /\ LeavesSub(j)
         /\ \A j \in Call : LeavesCall(j)
         /\ TrueIn(down, announced, data)' /\ Fresh'
    BY <1>1, <1>2, <1>3, <1>8, <1>9, LoopLeaves
  <1>11. Keeps(i)
    <2>1. CASE ~attached
      BY <1>2, <2>1 DEF Keeps
    <2>2. CASE attached
      <3>1. StreamIsPlaced(i) /\ Speaks(i)
        BY <1>0, <1>1, <1>2, <2>2 DEF Placed, Speaks
      <3>2. Count(up', Requests(i)) = 0
        BY <1>0, <1>1, <1>2, <3>1, StreamPlaces
      <3>3. down' = Append(down, m) /\ handler'[i] # "running"
        BY <1>2, <1>5, <2>2
      <3> QED BY <1>0, <1>1, <1>2, <1>3, <1>5, <2>2, <3>1, <3>2, <3>3, StreamEnds
    <2> QED BY <2>1, <2>2
  <1> QED BY <1>0, <1>2, <1>4, <1>6, <1>7, <1>10, <1>11, HostKeeps

-----------------------------------------------------------------------------
(* What the client hears                                                    *)

\* What is left on the way is as true as it was.
LEMMA Taken ==
  ASSUME RendererInv, down # <<>>
  PROVE  /\ attached /\ Tail(down) \in Seq(DownMessage) /\ Head(down) \in DownMessage
         /\ TrueIn(Tail(down), announced, data)
         /\ IsInvalidation(Head(down)) => Head(down).val <= announced
         /\ IsReading(Head(down)) => Head(down).val <= data
         /\ ~Async => /\ FreshIn(Tail(down), known)
                      /\ IsInvalidation(Head(down)) /\ Head(down).val \in Nat => FreshIn(Tail(down), Head(down).val)
                      /\ IsReading(Head(down)) => Head(down).val >= known
         /\ \A j \in Stream : ~IsOf(Head(down), j) => Passes(down, Tail(down), j)
         /\ \A j \in Stream : Count(down, Lasts(j)) \in Nat /\ Count(Tail(down), Lasts(j)) \in Nat
         /\ \A j \in Stream : Count(down, Lasts(j)) = Count(Tail(down), Lasts(j))
              + IF Head(down).type = "stream" /\ Head(down).id = j /\ Head(down).kind # "chunk" THEN 1 ELSE 0
         /\ \A j \in Call : Count(down, Answers(j)) \in Nat /\ Count(Tail(down), Answers(j)) \in Nat
         /\ \A j \in Call : Count(down, Answers(j)) = Count(Tail(down), Answers(j))
              + IF Head(down).type = "response" /\ Head(down).id = j THEN 1 ELSE 0
  <1>0. WiresTyped /\ TrueIn(down, announced, data) /\ Fresh /\ down \in Seq(DownMessage)
    BY DEF RendererInv, Typed, WiresTyped
  <1>1. \A j \in Stream : ~IsOf(Head(down), j) => Passes(down, Tail(down), j)
    BY <1>0, PassesTail
  <1>2. ~Async => /\ FreshIn(Tail(down), known)
                  /\ IsInvalidation(Head(down)) /\ Head(down).val \in Nat => FreshIn(Tail(down), Head(down).val)
                  /\ IsReading(Head(down)) => Head(down).val >= known
    BY <1>0, FreshTail DEF Fresh
  <1>3. /\ TrueIn(Tail(down), announced, data)
        /\ IsInvalidation(Head(down)) => Head(down).val <= announced
        /\ IsReading(Head(down)) => Head(down).val <= data
    BY <1>0, TrueTail
  <1>4. /\ \A j \in Stream : Count(down, Lasts(j)) \in Nat /\ Count(Tail(down), Lasts(j)) \in Nat
        /\ \A j \in Stream : Count(down, Lasts(j)) = Count(Tail(down), Lasts(j))
             + IF Head(down).type = "stream" /\ Head(down).id = j /\ Head(down).kind # "chunk" THEN 1 ELSE 0
    BY <1>0, DownTaken
  <1>5. /\ \A j \in Call : Count(down, Answers(j)) \in Nat /\ Count(Tail(down), Answers(j)) \in Nat
        /\ \A j \in Call : Count(down, Answers(j)) = Count(Tail(down), Answers(j))
             + IF Head(down).type = "response" /\ Head(down).id = j THEN 1 ELSE 0
    BY <1>0, DownTaken
  <1> QED BY <1>0, <1>1, <1>2, <1>3, <1>4, <1>5, DownTaken

\* What the client takes, and what its users ask for then.
LEMMA ClientKeeps ==
  ASSUME RendererInv, down # <<>>, down' = Tail(down), CallsOnce \/ UNCHANGED <<up, used, deaf>>,
         UNCHANGED <<host, hubVars, hostData, asked, cancels, listening, listens>>,
         ClientTyped', ViewTyped', CacheTyped', Fresh',
         \A i \in Call : CallIsPlaced(i)',
         \A i \in Stream : (LeavesStream(i) /\ LeavesSub(i)) \/ Keeps(i)
  PROVE  RendererInv'
  <1>0. /\ Typed /\ Placed /\ InOrder /\ Whole /\ WiresTyped /\ HostTyped /\ HubTypeOK
        /\ up \in Seq(UpMessage) /\ TopicsAreWhole
    BY DEF RendererInv, Typed, WiresTyped, Whole
  <1>1. UNCHANGED <<attached, subscribed, inflight, handler, emitted, eventSeq, row, topic, sub, data, announced,
                    acted, seen>>
    BY DEF host, hubVars, hostData
  <1>2. attached /\ down' \in Seq(DownMessage) /\ TrueIn(down', announced, data)
    BY Taken
  <1>3. WiresTyped'
    BY <1>0, <1>1, <1>2 DEF WiresTyped, CallsOnce
  <1>4. HostTyped' /\ HubTypeOK' /\ TrueIn(down, announced, data)' /\ TopicsAreWhole'
    BY <1>0, <1>1, <1>2 DEF HostTyped, HubTypeOK, TopicsAreWhole
  <1>5. Typed'
    BY <1>3, <1>4 DEF Typed
  <1>6. /\ attached' => \A i \in Stream : StreamIsPlaced(i)'
        /\ InOrder' /\ Whole'
    BY <1>0, <1>1, <1>4, StreamsKept DEF ClientTyped
  <1>7. Placed'
    BY <1>6 DEF Placed
  <1> QED BY <1>5, <1>6, <1>7 DEF RendererInv

LEMMA TakeAnswerKeeps ==
  ASSUME RendererInv, TakeAnswer
  PROVE  RendererInv'
  <1>0. /\ Typed /\ Placed /\ InOrder /\ Whole /\ Fresh /\ down \in Seq(DownMessage)
        /\ WiresTyped /\ HostTyped /\ ClientTyped /\ HubTypeOK /\ ViewTyped /\ CacheTyped
    BY DEF RendererInv, Typed, WiresTyped
  <1> DEFINE m == Head(down)
  <1>1. /\ down # <<>> /\ down' = Tail(down) /\ m.type = "response"
        /\ pending' = pending \ {m.id}
        /\ told' = IF m.id \in pending THEN [told EXCEPT ![m.id] = Append(@, m.kind)] ELSE told
        /\ UNCHANGED <<up, host, streams, listening, lastSeq, used, deaf, listens, hubVars, hostData, asked, known,
                       view, heardTo, cancels>>
        /\ rec' = Fetched(m)
    BY DEF TakeAnswer, ClientAnswer
  <1>2. UNCHANGED <<attached, subscribed, inflight, handler, emitted, eventSeq, row, topic, sub, data, announced,
                    acted, seen>>
    BY <1>1 DEF host, hubVars, hostData
  <1>3. Call \subseteq Id /\ Stream \subseteq Id /\ Call \cap Stream = {} /\ Query \subseteq Call
    BY KindsAssumption DEF Call, Id
  <1>4. attached /\ m \in DownMessage /\ m \in Response
    BY <1>1, Taken, Kinds
  <1>5. m.id \in Call /\ m.kind \in {"ok", "error", "cancelled", "timeout"} /\ m.val \in Nat
    BY <1>4 DEF Response
  <1>6. ClientTyped'
    <2>1. told' \in [Id -> Seq(Outcome)]
      <3>1. m.kind \in Outcome /\ m.id \in Id
        BY <1>3, <1>5 DEF Outcome
      <3>2. told[m.id] \in Seq(Outcome)
        BY <1>0, <3>1 DEF ClientTyped
      <3>3. Append(told[m.id], m.kind) \in Seq(Outcome)
        BY <3>1, <3>2, Appended
      <3> HIDE DEF m
      <3> QED BY <1>0, <1>1, <3>3 DEF ClientTyped
    <2> QED BY <1>0, <1>1, <2>1 DEF ClientTyped
  <1>7. ViewTyped'
    BY <1>0, <1>1 DEF ViewTyped
  <1>8. rec.fetch = {m.id} /\ m.kind = "ok" => IsReading(m) /\ m.val <= data
    <2>1. rec.fetch = {m.id} => m.id \in Query
      BY <1>0 DEF CacheTyped
    <2>2. IsReading(m) => m.val <= data
      BY <1>1, Taken
    <2> QED BY <1>1, <2>1, <2>2 DEF IsReading
  <1> HIDE DEF m
  <1>9. rec' \in [status : {"absent", "loading", "success", "error"}, data : 0..data, fetch : SUBSET Query]
    <2>1. rec \in [status : {"absent", "loading", "success", "error"}, data : 0..data, fetch : SUBSET Query]
      BY <1>0 DEF CacheTyped
    <2>2. CASE rec.fetch # {m.id}
      BY <1>1, <2>1, <2>2 DEF Fetched
    <2>3. CASE rec.fetch = {m.id} /\ m.kind = "ok"
      <3>1. m.val \in 0..data
        BY <1>0, <1>5, <1>8, <2>3 DEF CacheTyped
      <3>2. rec' = [status |-> "success", data |-> m.val, fetch |-> {}]
        BY <1>1, <2>3 DEF Fetched
      <3> QED BY <3>1, <3>2
    <2>4. CASE rec.fetch = {m.id} /\ m.kind # "ok"
      <3>1. rec' = [rec EXCEPT !.status = "error", !.fetch = {}]
        BY <1>1, <2>4 DEF Fetched
      <3> QED BY <2>1, <3>1
    <2> QED BY <2>2, <2>3, <2>4
  <1>10. CacheTyped'
    BY <1>0, <1>1, <1>2, <1>9 DEF CacheTyped
  <1>11. Fresh'
    <2>1. ~Async => FreshIn(down', known) /\ (IsReading(m) => m.val >= known)
      BY <1>1, Taken DEF m
    <2>2. ~Async /\ rec'.status = "success" /\ rec'.fetch = {} => rec'.data >= known
      <3>1. CASE rec.fetch # {m.id}
        BY <1>0, <1>1, <3>1 DEF Fetched, Fresh, FreshAtRest, Fetching
      <3>2. CASE rec.fetch = {m.id} /\ m.kind = "ok"
        BY <1>1, <1>8, <2>1, <3>2 DEF Fetched
      <3>3. CASE rec.fetch = {m.id} /\ m.kind # "ok"
        BY <1>0, <1>1, <3>3 DEF Fetched, CacheTyped
      <3> QED BY <3>1, <3>2, <3>3
    <2> QED BY <1>0, <1>1, <1>2, <2>1, <2>2 DEF Fresh, FreshAtRest, Fetching
  <1>12. /\ \A j \in Stream : LeavesStream(j) /\ LeavesSub(j)
         /\ \A j \in Call \ {m.id} : Count(down', Answers(j)) = Count(down, Answers(j))
         /\ Count(down, Answers(m.id)) = Count(down', Answers(m.id)) + 1 /\ Count(down', Answers(m.id)) \in Nat
    <2>1. \A j \in Stream : ~IsOf(Head(down), j)
      BY <1>1 DEF IsOf, m
    <2>2. \A j \in Stream : Passes(down, down', j)
      BY <1>1, <2>1, Taken
    <2>3. \A j \in Stream : Count(down, Lasts(j)) = Count(down', Lasts(j)) + 0 /\ Count(down', Lasts(j)) \in Nat
      BY <1>1, Taken DEF m
    <2>4. \A j \in Call : /\ Count(down, Answers(j)) = Count(down', Answers(j)) + (IF m.id = j THEN 1 ELSE 0)
                          /\ Count(down', Answers(j)) \in Nat
      BY <1>1, Taken DEF m
    <2>5. \A n \in Nat : n + 0 = n
      OBVIOUS
    <2>6. \A j \in Stream : LeavesStream(j)
      BY <1>1, <1>2, <2>2, <2>3, <2>5 DEF LeavesStream
    <2> QED BY <1>2, <1>5, <2>4, <2>5, <2>6 DEF LeavesSub
  <1>13. ASSUME NEW i \in Call PROVE CallIsPlaced(i)'
    <2>1. CallIsPlaced(i)
      BY <1>0, <1>4 DEF Placed
    <2>2. CASE i = m.id
      <3>1. Count(down, Answers(i)) # 0
        BY <1>12, <2>2
      <3>2. Count(up, Requests(i)) = 0 /\ inflight[i] # "live" /\ Count(down, Answers(i)) = 1
        BY <1>0, <2>1, <3>1, CallPlaces
      <3>3. Count(down', Answers(i)) = 0
        BY <1>12, <2>2, <3>2
      <3> QED BY <1>1, <1>2, <2>2, <3>2, <3>3 DEF CallIsPlaced
    <2>3. CASE i # m.id
      BY <1>1, <1>2, <1>12, <2>1, <2>3 DEF CallIsPlaced
    <2> QED BY <2>2, <2>3
  <1> QED BY <1>1, <1>6, <1>7, <1>10, <1>11, <1>12, <1>13, ClientKeeps

\* Who hears no answer, and asks for something, leaves every call in one place.
LEMMA NoAnswerHeard ==
  ASSUME RendererInv, attached, CallsOnce, UNCHANGED inflight,
         \A j \in Call : Count(down', Answers(j)) = Count(down, Answers(j))
  PROVE  \A i \in Call : CallIsPlaced(i)'
  <1>0. Placed /\ WiresTyped /\ Call \subseteq Id
    BY DEF RendererInv, Typed, Id
  <1> SUFFICES ASSUME NEW i \in Call PROVE CallIsPlaced(i)'
    OBVIOUS
  <1>1. /\ Count(up', Requests(i)) + (IF i \in pending THEN 1 ELSE 0)
             = Count(up, Requests(i)) + (IF i \in pending' THEN 1 ELSE 0)
        /\ CallIsPlaced(i) /\ up' \in Seq(UpMessage)
    BY <1>0 DEF CallsOnce, Placed
  <1>2. Count(up', Requests(i)) \in Nat /\ Count(up, Requests(i)) \in Nat /\ Count(down, Answers(i)) \in Nat
    BY <1>0, <1>1, CountType DEF WiresTyped
  <1> QED BY <1>1, <1>2 DEF CallIsPlaced

\* A message that is not a stream's leaves that stream.
LEMMA OthersHear ==
  ASSUME RendererInv, down # <<>>, down' = Tail(down), CallsOnce, UNCHANGED <<handler, emitted, topic, sub>>,
         NEW j \in Stream, ~IsOf(Head(down), j), heardTo'[j] = heardTo[j],
         j \in DOMAIN streams' <=> j \in DOMAIN streams,
         j \in DOMAIN streams => streams'[j] = streams[j]
  PROVE  LeavesStream(j) /\ LeavesSub(j)
  <1>1. Passes(down, down', j)
    BY Taken
  <1>2. ~(Head(down).type = "stream" /\ Head(down).id = j /\ Head(down).kind # "chunk")
    BY DEF IsOf
  <1>3. Count(down, Lasts(j)) = Count(down', Lasts(j)) + 0 /\ Count(down', Lasts(j)) \in Nat
    BY <1>2, Taken
  <1>4. Count(down', Lasts(j)) = Count(down, Lasts(j))
    BY <1>3
  <1>5. Count(up', Requests(j)) = Count(up, Requests(j)) /\ (j \in used' <=> j \in used)
    BY DEF CallsOnce
  <1> QED BY <1>1, <1>4, <1>5 DEF LeavesStream, LeavesSub

LEMMA TakeEventKeeps ==
  ASSUME RendererInv, NEW q, TakeEvent(q)
  PROVE  RendererInv'
  <1>0. /\ Typed /\ Placed /\ InOrder /\ Whole /\ Fresh /\ down \in Seq(DownMessage)
        /\ WiresTyped /\ HostTyped /\ ClientTyped /\ HubTypeOK /\ ViewTyped /\ CacheTyped
    BY DEF RendererInv, Typed, WiresTyped
  <1> DEFINE m == Head(down)
             all == [status : {"absent", "loading", "success", "error"}, data : 0..data, fetch : SUBSET Query]
  <1>1. /\ down # <<>> /\ down' = Tail(down) /\ m.type = "event"
        /\ lastSeq' = [lastSeq EXCEPT ![m.name] = IF m.seq > @ THEN m.seq ELSE @]
        /\ UNCHANGED <<host, streams, listening, told, listens, hubVars, hostData, asked, view, heardTo, cancels>>
        /\ IF Heard(m) /\ m.name = "cache.invalidate" THEN known' = m.val /\ Invalidate(q)
           ELSE Quiet /\ UNCHANGED <<rec, known>>
    BY DEF TakeEvent, ClientEvent, cacheVars
  <1>2. UNCHANGED <<attached, subscribed, inflight, handler, emitted, eventSeq, row, topic, sub, data, announced,
                    acted, seen>>
    BY <1>1 DEF host, hubVars, hostData
  <1>3. attached /\ m \in DownMessage /\ m \in Notification
    BY <1>1, Taken, Kinds
  <1>4. m.name \in Event /\ m.seq \in Nat /\ m.val \in Nat
    BY <1>3 DEF Notification
  <1>5. \A j \in Stream : ~IsOf(m, j)
    BY <1>1 DEF IsOf
  <1>6. /\ IsInvalidation(m) => m.val <= announced
        /\ ~Async => /\ FreshIn(down', known)
                     /\ IsInvalidation(m) /\ m.val \in Nat => FreshIn(down', m.val)
    BY <1>1, Taken
  <1>7. \A j \in Call : Count(down', Answers(j)) = Count(down, Answers(j))
    <2> SUFFICES ASSUME NEW j \in Call PROVE Count(down', Answers(j)) = Count(down, Answers(j))
      OBVIOUS
    <2>1. Count(down, Answers(j)) = Count(down', Answers(j)) + 0 /\ Count(down', Answers(j)) \in Nat
      BY <1>1, Taken
    <2> QED BY <2>1
  <1> HIDE DEF m
  <1>8. /\ CallsOnce /\ CacheTyped'
        /\ ~Async => FreshIn(down', known')
        /\ \/ rec' = rec /\ known' = known
           \/ rec'.status = "absent" \/ rec'.fetch # {}
    <2>1. data \in Nat /\ announced \in 0..data /\ known \in 0..announced /\ rec \in all /\ rec.data \in 0..data
      BY <1>0 DEF CacheTyped
    <2>2. CASE Heard(m) /\ m.name = "cache.invalidate"
      <3>1. known' = m.val /\ Invalidate(q) /\ IsInvalidation(m)
        BY <1>1, <2>2 DEF IsInvalidation
      <3>2. CallsOnce /\ (rec'.status = "absent" \/ rec'.fetch # {}) /\ rec' \in all
        BY <1>0, <2>1, <3>1, InvalidateCalls
      <3>3. known' \in 0..announced
        BY <1>4, <1>6, <2>1, <3>1
      <3>4. CacheTyped'
        BY <1>0, <1>2, <3>2, <3>3 DEF CacheTyped
      <3> QED BY <1>4, <1>6, <3>1, <3>2, <3>4
    <2>3. CASE ~(Heard(m) /\ m.name = "cache.invalidate")
      <3>1. Quiet /\ rec' = rec /\ known' = known
        BY <1>1, <2>3
      <3>2. CallsOnce
        BY <1>0, <3>1, QuietCalls
      <3>3. CacheTyped'
        BY <1>0, <1>2, <3>1 DEF CacheTyped
      <3> QED BY <1>6, <3>1, <3>2, <3>3
    <2> QED BY <2>2, <2>3
  <1>9. ClientTyped'
    BY <1>0, <1>1, <1>4, <1>8 DEF ClientTyped, CallsOnce
  <1>10. ViewTyped'
    BY <1>0, <1>1 DEF ViewTyped
  <1>11. Fresh'
    BY <1>0, <1>2, <1>8 DEF Fresh, FreshAtRest, Fetching
  <1>12. \A i \in Call : CallIsPlaced(i)'
    BY <1>2, <1>3, <1>7, <1>8, NoAnswerHeard
  <1>13. \A j \in Stream : LeavesStream(j) /\ LeavesSub(j)
    BY <1>1, <1>2, <1>5, <1>8, OthersHear DEF m
  <1> QED BY <1>1, <1>8, <1>9, <1>10, <1>11, <1>12, <1>13, ClientKeeps

\* What is heard of a stream that is open has the number that is due.
LEMMA StreamHeard ==
  ASSUME RendererInv, down # <<>>, Head(down).type = "stream"
  PROVE  /\ Head(down) \in StreamMessage
         /\ Head(down).id \in used /\ ~Asks(Head(down).id)
         /\ Head(down).id \in DOMAIN streams =>
              /\ Head(down).seq = streams[Head(down).id]
              /\ Head(down).kind = "chunk" => Head(down).val # <<>> /\ Last(Head(down).val) \in Chunk
         /\ Head(down).id \notin DOMAIN streams => Head(down).kind = "chunk"
  <1> DEFINE m == Head(down)
  <1>0. /\ WiresTyped /\ Placed /\ InOrder /\ Whole /\ down \in Seq(DownMessage) /\ attached
        /\ m \in StreamMessage
    <2>1. WiresTyped /\ Placed /\ InOrder /\ Whole /\ down \in Seq(DownMessage)
      BY DEF RendererInv, Typed, WiresTyped
    <2>2. attached /\ m \in DownMessage
      BY Taken
    <2> QED BY <2>1, <2>2, Kinds
  <1>1. m.id \in Stream /\ m.val \in Seq(Chunk) /\ IsOf(m, m.id)
    BY <1>0 DEF StreamMessage, IsOf
  <1>2. m.id \in used /\ ~Asks(m.id)
    <2>1. ~NoneOf(down, m.id)
      BY <1>0, <1>1, DownTaken
    <2> HIDE DEF m
    <2> QED BY <1>0, <1>1, <2>1 DEF InOrder, Unheard
  <1>3. ASSUME m.id \in DOMAIN streams
        PROVE  /\ m.seq = streams[m.id]
               /\ m.kind = "chunk" => m.val # <<>> /\ Last(m.val) \in Chunk
    <2>1. NumberedIn(down, m.id, streams[m.id]) /\ ChunksIn(down, m.id, heardTo[m.id])
      <3> HIDE DEF m
      <3> QED BY <1>0, <1>1, <1>3 DEF InOrder, Numbered, Whole, Chunked
    <2>2. m.seq = streams[m.id]
      BY <1>0, <1>1, <2>1, NumberedTail
    <2>3. 1 \in DOMAIN down /\ down[1] = m
      BY <1>0, Shifted
    <2>4. ASSUME m.kind = "chunk" PROVE m.val # <<>> /\ Last(m.val) \in Chunk
      <3>1. IsChunkOf(m, m.id)
        BY <2>4 DEF IsChunkOf
      <3> HIDE DEF m
      <3>2. m.val # <<>>
        BY <2>1, <2>3, <3>1 DEF ChunksIn
      <3>3. Len(m.val) \in Nat \ {0}
        BY <1>1, <3>2, LenProperties, EmptySeq
      <3>4. Len(m.val) \in 1..Len(m.val)
        BY <3>3
      <3> QED BY <1>1, <3>2, <3>4, LenProperties DEF Last
    <2> QED BY <2>2, <2>4
  <1>4. ASSUME m.id \notin DOMAIN streams PROVE m.kind = "chunk"
    <2>1. Count(down, Lasts(m.id)) = 0
      <3> HIDE DEF m
      <3> QED BY <1>0, <1>1, <1>4, StreamPlaces DEF Placed
    <2>2. Count(Tail(down), Lasts(m.id)) \in Nat
      BY <1>1, Taken
    <2>3. Count(down, Lasts(m.id)) = Count(Tail(down), Lasts(m.id))
            + IF m.type = "stream" /\ m.id = m.id /\ m.kind # "chunk" THEN 1 ELSE 0
      BY <1>1, Taken
    <2> HIDE DEF m
    <2>4. \A n \in Nat : n + 1 # 0
      OBVIOUS
    <2> QED BY <1>0, <2>1, <2>2, <2>3, <2>4 DEF StreamMessage
  <1> QED BY <1>0, <1>2, <1>3, <1>4

\* Its stream is as it was, but for that message.
LEMMA StreamKeepsOn ==
  ASSUME RendererInv, down # <<>>, down' = Tail(down), Head(down).type = "stream", CallsOnce,
         UNCHANGED <<handler, emitted, topic, sub>>, NEW i, i = Head(down).id,
         streams' = IF i \notin DOMAIN streams THEN streams
                    ELSE IF Head(down).kind = "chunk" THEN [streams EXCEPT ![i] = @ + 1]
                    ELSE [j \in DOMAIN streams \ {i} |-> streams[j]],
         i \in DOMAIN streams /\ Head(down).kind = "chunk" => heardTo'[i] = Last(Head(down).val).n
  PROVE  Keeps(i)
  <1> DEFINE m == Head(down)
  <1>0. WiresTyped /\ Placed /\ InOrder /\ Whole /\ down \in Seq(DownMessage) /\ ClientTyped /\ attached
    BY Taken DEF RendererInv, Typed, WiresTyped
  <1>1. /\ m \in StreamMessage /\ i \in Stream /\ i \in used /\ ~Asks(i) /\ IsOf(m, i)
        /\ i \in DOMAIN streams => m.seq = streams[i]
        /\ i \notin DOMAIN streams => m.kind = "chunk"
    BY StreamHeard DEF StreamMessage, IsOf
  <1>2. /\ Count(down, Lasts(i)) = Count(down', Lasts(i)) + IF m.kind # "chunk" THEN 1 ELSE 0
        /\ Count(down', Lasts(i)) \in Nat
    BY <1>1, Taken
  <1>3. Count(up', Requests(i)) = Count(up, Requests(i)) /\ Count(up', Requests(i)) = 0 /\ i \in used'
    BY <1>1 DEF CallsOnce, Asks
  <1>4. StreamIsPlaced(i)
    BY <1>0, <1>1 DEF Placed
  <1> HIDE DEF m
  <1>5. \A n \in Nat : n + 0 = n /\ n + 1 # 0 /\ (n + 1 = 1 => n = 0)
    OBVIOUS
  <1>6. i \in DOMAIN streams' <=> i \in DOMAIN streams /\ m.kind = "chunk"
    BY <1>1 DEF m
  <1>7. StreamIsPlaced(i)'
    <2>1. CASE m.kind = "chunk"
      <3>1. Count(down', Lasts(i)) = Count(down, Lasts(i))
        BY <1>2, <1>5, <2>1
      <3> QED BY <1>3, <1>4, <1>6, <2>1, <3>1 DEF StreamIsPlaced
    <2>2. CASE m.kind # "chunk"
      <3>1. Count(down, Lasts(i)) # 0 /\ i \in DOMAIN streams
        BY <1>1, <1>2, <1>5, <2>2
      <3>2. handler[i] # "running"
        BY <1>0, <1>1, <1>4, <3>1, StreamPlaces
      <3>3. Count(down, Lasts(i)) = 1
        BY <1>2, <1>3, <1>4, <3>1, <3>2 DEF StreamIsPlaced
      <3>4. Count(down', Lasts(i)) = 0
        BY <1>2, <1>5, <2>2, <3>3
      <3> QED BY <1>3, <1>6, <2>2, <3>2, <3>4 DEF StreamIsPlaced
    <2> QED BY <2>1, <2>2
  <1>8. ~(i \notin used \/ Asks(i))'
    BY <1>3 DEF Asks
  <1>9. ASSUME i \in DOMAIN streams' PROVE Numbered(i)' /\ Chunked(i)'
    <2>1. i \in DOMAIN streams /\ m.kind = "chunk"
      BY <1>6, <1>9
    <2>2. streams'[i] = m.seq + 1 /\ heardTo'[i] = Last(m.val).n
      BY <1>1, <2>1 DEF m
    <2>3. IsChunkOf(m, i)
      BY <1>1, <2>1 DEF IsOf, IsChunkOf
    <2>4. Numbered(i) /\ Chunked(i)
      BY <1>0, <2>1 DEF InOrder, Whole
    <2>5. Len(down) \in Nat \ {0} /\ Len(down') = Len(down) - 1 /\ Len(down) \in 1..Len(down)
          /\ Len(down') + 1 = Len(down)
      BY <1>0, Shifted
    <2>6. NumberedIn(down', i, streams'[i])
      BY <1>0, <1>1, <2>2, <2>4, NumberedTail DEF Numbered, m
    <2>7. ASSUME Speaks(i)' PROVE Leads(down', i, Len(down') + 1, streams'[i], emitted'[i])
      <3>1. Speaks(i)
        BY <1>3, <2>7 DEF Speaks, Asks
      <3>2. Leads(down, i, Len(down) + 1, streams[i], emitted[i])
        BY <2>4, <3>1 DEF Numbered
      <3>3. Leads(Tail(down), i, Len(down), IF IsOf(m, i) THEN m.seq + 1 ELSE streams[i], emitted[i])
        BY <1>0, <2>5, <3>2, LeadsTail DEF m
      <3> QED BY <1>1, <2>2, <2>5, <3>3
    <2>8. ChunksIn(down', i, heardTo'[i])
      <3>1. ChunksIn(Tail(down), i, IF IsChunkOf(m, i) THEN Last(m.val).n ELSE heardTo[i])
        BY <1>0, <2>4, ChunksTail DEF Chunked, m
      <3> QED BY <2>2, <2>3, <3>1
    <2>9. GoesOn(down', i, Len(down') + 1, heardTo'[i], sub'[i].queue)
      <3>1. GoesOn(down, i, Len(down) + 1, heardTo[i], sub[i].queue)
        BY <2>4 DEF Chunked
      <3>2. GoesOn(Tail(down), i, Len(down), IF IsChunkOf(m, i) THEN Last(m.val).n ELSE heardTo[i], sub[i].queue)
        BY <1>0, <2>5, <3>1, GoesOnTail DEF m
      <3> QED BY <2>2, <2>3, <2>5, <3>2
    <2>10. UpToDate(i)'
      <3>1. ASSUME NEW t \in Task, sub[i].task = {t}, ~sub[i].closed
            PROVE  IF sub[i].queue = <<>>
                   THEN Reaches(down', i, Len(down') + 1, heardTo'[i], Len(topic[t].buffer))
                   ELSE Last(sub[i].queue).n = Len(topic[t].buffer)
        <4>1. IF sub[i].queue = <<>> THEN Reaches(down, i, Len(down) + 1, heardTo[i], Len(topic[t].buffer))
              ELSE Last(sub[i].queue).n = Len(topic[t].buffer)
          BY <2>4, <3>1 DEF Chunked, UpToDate
        <4>2. CASE sub[i].queue = <<>>
          <5>1. Reaches(Tail(down), i, Len(down), IF IsChunkOf(m, i) THEN Last(m.val).n ELSE heardTo[i],
                        Len(topic[t].buffer))
            BY <1>0, <2>5, <4>1, <4>2, ReachesTail DEF m
          <5> QED BY <2>2, <2>3, <2>5, <4>2, <5>1
        <4>3. CASE sub[i].queue # <<>>
          BY <4>1, <4>3
        <4> QED BY <4>2, <4>3
      <3> QED BY <3>1 DEF UpToDate
    <2> QED BY <2>6, <2>7, <2>8, <2>9, <2>10 DEF Numbered, Chunked
  <1> QED BY <1>7, <1>8, <1>9 DEF Keeps

LEMMA TakeStreamKeeps ==
  ASSUME RendererInv, NEW q, TakeStream(q)
  PROVE  RendererInv'
  <1>0. /\ Typed /\ Placed /\ InOrder /\ Whole /\ Fresh /\ down \in Seq(DownMessage)
        /\ WiresTyped /\ HostTyped /\ ClientTyped /\ HubTypeOK /\ ViewTyped /\ CacheTyped
    BY DEF RendererInv, Typed, WiresTyped
  <1> DEFINE m == Head(down)
             i == Head(down).id
             open == i \in DOMAIN streams
             all == [status : {"absent", "loading", "success", "error"}, data : 0..data, fetch : SUBSET Query]
  <1>1. /\ down # <<>> /\ down' = Tail(down) /\ m.type = "stream"
        /\ IF open /\ m.kind = "chunk" /\ m.val[1].kind # "text" THEN Invalidate(q) ELSE Quiet /\ UNCHANGED rec
        /\ view' = IF open THEN Fold(m) ELSE view
        /\ heardTo' = IF open /\ m.kind = "chunk" THEN [heardTo EXCEPT ![i] = Last(m.val).n] ELSE heardTo
        /\ UNCHANGED <<host, listening, lastSeq, listens, hubVars, hostData, asked, known, cancels>>
    BY DEF TakeStream, ClientStream, Observed
  <1>2. UNCHANGED <<attached, subscribed, inflight, handler, emitted, eventSeq, row, topic, sub, data, announced,
                    acted, seen>>
    BY <1>1 DEF host, hubVars, hostData
  <1>3. attached /\ m \in DownMessage
    BY <1>1, Taken
  <1>4. /\ m \in StreamMessage /\ i \in used /\ ~Asks(i)
        /\ open => /\ m.seq = streams[i]
                   /\ m.kind = "chunk" => m.val # <<>> /\ Last(m.val) \in Chunk
        /\ ~open => m.kind = "chunk"
    BY <1>1, StreamHeard
  <1>5. i \in Stream /\ i \in Id /\ m.kind \in {"chunk", "end", "error", "cancelled"} /\ m.kind \in Outcome
    BY <1>4 DEF StreamMessage, Outcome, Id
  <1>6. /\ streams' = IF ~open THEN streams
                      ELSE IF m.kind = "chunk" THEN [streams EXCEPT ![i] = @ + 1]
                      ELSE [j \in DOMAIN streams \ {i} |-> streams[j]]
        /\ told' = IF open THEN [told EXCEPT ![i] = Append(@, m.kind)] ELSE told
    BY <1>4 DEF TakeStream, ClientStream
  <1>7. \A j \in Call : Count(down', Answers(j)) = Count(down, Answers(j))
    <2> SUFFICES ASSUME NEW j \in Call PROVE Count(down', Answers(j)) = Count(down, Answers(j))
      OBVIOUS
    <2>1. Count(down, Answers(j)) = Count(down', Answers(j)) + 0 /\ Count(down', Answers(j)) \in Nat
      BY <1>1, Taken
    <2> QED BY <2>1
  <1>8. ~Async => FreshIn(down', known)
    BY <1>1, Taken
  <1>9. \A j \in Stream \ {i} : ~IsOf(m, j)
    BY DEF IsOf
  <1> HIDE DEF m, i
  <1>10. CallsOnce /\ rec' \in all /\ (rec' = rec \/ rec'.fetch # {})
    <2>1. rec \in all /\ rec.data \in 0..data
      BY <1>0 DEF CacheTyped
    <2>2. CASE open /\ m.kind = "chunk" /\ m.val[1].kind # "text"
      BY <1>0, <1>1, <2>1, <2>2, InvalidateCalls
    <2>3. CASE ~(open /\ m.kind = "chunk" /\ m.val[1].kind # "text")
      BY <1>0, <1>1, <2>1, <2>3, QuietCalls
    <2> QED BY <2>2, <2>3
  <1>11. CacheTyped'
    BY <1>0, <1>1, <1>2, <1>10 DEF CacheTyped
  <1>12. Fresh'
    BY <1>0, <1>1, <1>2, <1>8, <1>10 DEF Fresh, FreshAtRest, Fetching
  <1>13. /\ DOMAIN streams' \subseteq DOMAIN streams /\ streams' \in [DOMAIN streams' -> Nat]
         /\ \A j \in Stream \ {i} : /\ j \in DOMAIN streams' <=> j \in DOMAIN streams
                                    /\ j \in DOMAIN streams => streams'[j] = streams[j]
    <2>0. streams \in [DOMAIN streams -> Nat]
      BY <1>0 DEF ClientTyped
    <2>1. CASE ~open
      BY <1>6, <2>0, <2>1
    <2>2. CASE open /\ m.kind = "chunk"
      BY <1>6, <2>0, <2>2
    <2>3. CASE open /\ m.kind # "chunk"
      <3> DEFINE left == [j \in DOMAIN streams \ {i} |-> streams[j]]
      <3>1. streams' = left
        BY <1>6, <2>3
      <3>2. /\ DOMAIN left = DOMAIN streams \ {i} /\ left \in [DOMAIN streams \ {i} -> Nat]
            /\ \A j \in DOMAIN streams \ {i} : left[j] = streams[j]
        BY <2>0
      <3> HIDE DEF left
      <3> QED BY <3>1, <3>2
    <2> QED BY <2>1, <2>2, <2>3
  <1>14. ClientTyped'
    <2>1. told' \in [Id -> Seq(Outcome)]
      <3>1. told[i] \in Seq(Outcome)
        BY <1>0, <1>5 DEF ClientTyped
      <3>2. Append(told[i], m.kind) \in Seq(Outcome)
        BY <1>5, <3>1, Appended
      <3> QED BY <1>0, <1>6, <3>2 DEF ClientTyped
    <2> QED BY <1>0, <1>1, <1>10, <1>13, <2>1 DEF ClientTyped, CallsOnce
  <1>15. heardTo' \in [Stream -> Nat]
    <2>1. CASE open /\ m.kind = "chunk"
      <3>1. Last(m.val).n \in Nat
        BY <1>4, <2>1 DEF Chunk
      <3> QED BY <1>0, <1>1, <2>1, <3>1 DEF ViewTyped
    <2>2. CASE ~(open /\ m.kind = "chunk")
      BY <1>0, <1>1, <2>2 DEF ViewTyped
    <2> QED BY <2>1, <2>2
  <1>16. /\ view' \in [task : SUBSET Task, handle : SUBSET Stream, done : BOOLEAN, error : BOOLEAN,
                       from : SUBSET Stream]
         /\ view'.handle = view.handle
    <2> DEFINE views == [task : SUBSET Task, handle : SUBSET Stream, done : BOOLEAN, error : BOOLEAN,
                         from : SUBSET Stream]
               v == [view EXCEPT !.from = @ \cup {i}]
    <2>1. view \in views
      BY <1>0 DEF ViewTyped
    <2>2. v \in views /\ v.handle = view.handle
      BY <1>5, <2>1
    <2>3. Fold(m) = CASE m.kind = "chunk" -> [v EXCEPT !.done = @ \/ Last(m.val).kind = "done"]
                      [] m.kind = "end"   -> [v EXCEPT !.done = TRUE]
                      [] OTHER            -> [v EXCEPT !.done = TRUE, !.error = TRUE]
      BY DEF Fold, m, i
    <2> HIDE DEF v
    <2>4. CASE ~open
      BY <1>1, <2>1, <2>4
    <2>5. CASE open /\ m.kind = "chunk"
      <3> DEFINE b == v.done \/ Last(m.val).kind = "done"
      <3>1. b \in BOOLEAN
        BY <2>2
      <3>2. view' = [v EXCEPT !.done = b]
        BY <1>1, <2>3, <2>5
      <3> HIDE DEF b
      <3> QED BY <2>2, <3>1, <3>2
    <2>6. CASE open /\ m.kind = "end"
      <3>1. view' = [v EXCEPT !.done = TRUE]
        BY <1>1, <2>3, <2>6
      <3> QED BY <2>2, <3>1
    <2>7. CASE open /\ m.kind \notin {"chunk", "end"}
      <3>1. view' = [v EXCEPT !.done = TRUE, !.error = TRUE]
        BY <1>1, <2>3, <2>7
      <3> QED BY <2>2, <3>1
    <2> QED BY <2>4, <2>5, <2>6, <2>7
  <1>17. ViewTyped'
    BY <1>0, <1>1, <1>15, <1>16 DEF ViewTyped
  <1>18. \A j \in Call : CallIsPlaced(j)'
    BY <1>2, <1>3, <1>7, <1>10, NoAnswerHeard
  <1>19. ASSUME NEW j \in Stream \ {i} PROVE LeavesStream(j) /\ LeavesSub(j)
    <2>1. heardTo'[j] = heardTo[j]
      BY <1>0, <1>1 DEF ViewTyped
    <2> QED BY <1>1, <1>2, <1>9, <1>10, <1>13, <2>1, OthersHear DEF m
  <1>20. ASSUME NEW j \in Stream, j = i PROVE Keeps(j)
    <2>1. open /\ m.kind = "chunk" => heardTo'[j] = Last(m.val).n
      BY <1>0, <1>1, <1>5, <1>20 DEF ViewTyped
    <2> QED BY <1>1, <1>2, <1>6, <1>10, <1>20, <2>1, StreamKeepsOn DEF m, i
  <1>21. \A j \in Stream : (LeavesStream(j) /\ LeavesSub(j)) \/ Keeps(j)
    <2> SUFFICES ASSUME NEW j \in Stream PROVE (LeavesStream(j) /\ LeavesSub(j)) \/ Keeps(j)
      OBVIOUS
    <2>1. CASE j = i
      BY <1>20, <2>1
    <2>2. CASE j # i
      BY <1>19, <2>2
    <2> QED BY <2>1, <2>2
  <1> QED BY <1>1, <1>10, <1>11, <1>12, <1>14, <1>17, <1>18, <1>21, ClientKeeps

-----------------------------------------------------------------------------
(* The invariant                                                            *)

LEMMA RendererStarts == Init => RendererInv
  <1> SUFFICES ASSUME Init PROVE RendererInv
    OBVIOUS
  <1> DEFINE first == [type |-> "subscribe", name |-> "cache.invalidate"]
  <1>1. /\ up = <<first>> /\ down = <<>> /\ attached = TRUE /\ subscribed = {}
        /\ listening = {"cache.invalidate"}
        /\ inflight = [i \in Id |-> "no"] /\ handler = [i \in Id |-> "none"]
        /\ emitted = [i \in Stream |-> 0] /\ eventSeq = [e \in Event |-> 0]
        /\ pending = {} /\ streams = <<>> /\ lastSeq = [e \in Event |-> 0]
        /\ used \in SUBSET Id /\ deaf = {} /\ told = [i \in Id |-> <<>>] /\ listens \in 0..MaxListens
        /\ HubInit
        /\ data = 0 /\ announced = 0 /\ known = 0
        /\ acted = {} /\ seen = [q \in Query |-> 0] /\ asked = [i \in Stream |-> {}]
        /\ rec = [status |-> "absent", data |-> 0, fetch |-> {}]
        /\ view = Empty /\ heardTo = [i \in Stream |-> 0] /\ cancels \in 0..MaxCancels
    BY DEF Init, BusInit
  <1>2. first \in UpMessage /\ \A i : first # Request(i)
    <2>1. "cache.invalidate" \in Event
      BY EventsAssumption
    <2> QED BY <2>1 DEF UpMessage, Request
  <1>3. <<>> \in Seq(UpMessage)
    OBVIOUS
  <1>4. up = Append(<<>>, first)
    BY <1>1
  <1>5. up \in Seq(UpMessage) /\ \A i \in Id : Count(up, Requests(i)) = 0
    <2>1. ASSUME NEW i \in Id PROVE Count(up, Requests(i)) = 0
      <3>1. Count(Append(<<>>, first), Requests(i)) = Count(<<>>, Requests(i)) + 0
        BY <1>2, <1>3, UpSends
      <3>2. Count(<<>>, Requests(i)) = 0
        BY CountEmpty
      <3> QED BY <1>4, <3>1, <3>2
    <2>2. up \in Seq(UpMessage)
      BY <1>2, <1>3, <1>4, Appended
    <2> QED BY <2>1, <2>2
  <1>6. <<>> \in Seq(DownMessage) /\ <<>> \in Seq(Outcome) /\ DOMAIN <<>> = {} /\ <<>> \in [{} -> Nat] /\ <<>> \in Seq(Chunk)
    OBVIOUS
  <1> HIDE DEF first
  <1>7. WiresTyped
    BY <1>1, <1>5, <1>6 DEF WiresTyped
  <1>8. HostTyped
    BY <1>1 DEF HostTyped, Call, Id
  <1>9. ClientTyped
    BY <1>1, <1>6, EventsAssumption DEF ClientTyped
  <1>10. HubTypeOK
    BY <1>1, <1>6 DEF HubInit, HubTypeOK, Gone, None
  <1>11. ViewTyped
    BY <1>1 DEF ViewTyped, Empty
  <1>12. CacheTyped
    BY <1>1 DEF CacheTyped
  <1>13. TrueIn(down, announced, data)
    BY <1>1, <1>6 DEF TrueIn
  <1>14. Typed
    BY <1>7, <1>8, <1>9, <1>10, <1>11, <1>12, <1>13 DEF Typed
  <1>15. Placed
    <2>1. ASSUME NEW i \in Call PROVE CallIsPlaced(i)
      <3>1. Count(down, Answers(i)) = 0
        BY <1>1, CountEmpty
      <3> QED BY <1>1, <1>5, <3>1 DEF CallIsPlaced, Id
    <2>2. ASSUME NEW i \in Stream PROVE StreamIsPlaced(i)
      <3>1. Count(down, Lasts(i)) = 0
        BY <1>1, CountEmpty
      <3> QED BY <1>1, <1>5, <1>6, <3>1 DEF StreamIsPlaced, Id
    <2> QED BY <2>1, <2>2 DEF Placed
  <1>16. InOrder
    BY <1>1, <1>6 DEF InOrder, Unheard, NoneOf
  <1>17. TopicsAreWhole
    BY <1>1, <1>6 DEF TopicsAreWhole, HubInit, Gone, None
  <1>18. Whole
    BY <1>1, <1>6, <1>17 DEF Whole
  <1>19. Fresh
    BY <1>1, <1>6 DEF Fresh, FreshIn, FreshAtRest, Call, Id
  <1> QED BY <1>14, <1>15, <1>16, <1>18, <1>19 DEF RendererInv

\* Nothing happens.
LEMMA RendererRests ==
  ASSUME RendererInv, UNCHANGED vars
  PROVE  RendererInv'
  <1>0. /\ Typed /\ Placed /\ InOrder /\ Whole /\ Fresh /\ WiresTyped /\ HostTyped /\ ClientTyped /\ HubTypeOK
        /\ ViewTyped /\ CacheTyped /\ TrueIn(down, announced, data)
    BY DEF RendererInv, Typed
  <1>1. /\ UNCHANGED <<up, down, attached, subscribed, inflight, handler, emitted, eventSeq, pending, streams, listening,
                       lastSeq, used, deaf, told, listens>>
        /\ UNCHANGED <<row, topic, sub, data, acted, seen, announced, asked, rec, known, view, heardTo, cancels>>
        /\ UNCHANGED hubVars
    BY DEF vars, busVars, channel, host, client, history, hubVars, hostData, cacheVars
  <1>2. WiresTyped' /\ HostTyped' /\ ClientTyped'
    BY <1>0, <1>1 DEF WiresTyped, HostTyped, ClientTyped
  <1>3. HubTypeOK' /\ ViewTyped' /\ CacheTyped' /\ TrueIn(down, announced, data)'
    BY <1>0, <1>1 DEF HubTypeOK, ViewTyped, CacheTyped
  <1>4. \A i \in Stream : LeavesStream(i)
    BY <1>1, PassesItself DEF LeavesStream
  <1>5. (attached' => \A i \in Stream : StreamIsPlaced(i)') /\ InOrder' /\ Whole'
    BY <1>0, <1>1, <1>4, StreamsRest DEF ClientTyped
  <1>6. \A i \in Call : CallIsPlaced(i) => CallIsPlaced(i)'
    BY <1>1 DEF CallIsPlaced
  <1>7. Placed'
    BY <1>0, <1>1, <1>5, <1>6 DEF Placed
  <1>8. Fresh'
    BY <1>0, <1>1 DEF Fresh, FreshAtRest, Fetching
  <1> QED BY <1>2, <1>3, <1>5, <1>7, <1>8 DEF RendererInv, Typed

LEMMA HostStepsKeep ==
  ASSUME RendererInv, HostSteps
  PROVE  RendererInv'
  <1>1. ASSUME NEW i \in Id, HostRefuses(i) \/ HostStops(i) \/ HostTimesOut(i) PROVE RendererInv'
    BY <1>1, HostRefusesKeeps, HostStopsKeeps, HostTimesOutKeeps
  <1>2. ASSUME NEW i \in Call, HostStarts(i) \/ HandlerActs(i) \/ \E k \in {"ok", "error"} : HandlerReturns(i, k)
        PROVE  RendererInv'
    BY <1>2, HostStartsKeeps, HandlerActsKeeps, HandlerReturnsKeeps
  <1>3. ASSUME NEW i \in Stream, HostStreams(i) \/ HubGives(i) \/ HubEnds(i) PROVE RendererInv'
    BY <1>3, HostStreamsKeeps, HubGivesKeeps, HubEndsKeeps
  <1>4. ASSUME NEW e \in Event, HostListens(e) PROVE RendererInv'
    BY <1>4, HostListensKeeps
  <1> QED BY <1>1, <1>2, <1>3, <1>4 DEF HostSteps

LEMMA RendererSteps == RendererInv /\ [Next]_vars => RendererInv'
  <1> SUFFICES ASSUME RendererInv, [Next]_vars PROVE RendererInv'
    OBVIOUS
  <1>1. CASE HostSteps
    BY <1>1, HostStepsKeep
  <1>2. CASE ClientSteps
    BY <1>2, TakeAnswerKeeps, TakeStreamKeeps, TakeEventKeeps DEF ClientSteps
  <1>3. ASSUME NEW q \in NextOf(Query), Read(q) PROVE RendererInv'
    BY <1>3, ReadKeeps
  <1>4. ASSUME NEW c \in NextOf(Command), NEW b \in BOOLEAN, RunCommand(c, b) PROVE RendererInv'
    BY <1>4, RunCommandKeeps
  <1>5. ASSUME NEW i \in Call, AbortCall(i) PROVE RendererInv'
    BY <1>5, AbortCallKeeps
  <1>6. ASSUME NEW t \in Task, NEW i \in NextOf(Stream), Select(t, i) PROVE RendererInv'
    BY <1>6, SelectKeeps
  <1>7. ASSUME NEW t \in Task, TaskSteps(t) \/ TaskEnds(t) PROVE RendererInv'
    BY <1>7, TaskStepsKeeps, TaskEndsKeeps
  <1>8. CASE OnOff
    BY <1>8, OnOffKeeps
  <1>9. CASE Close
    BY <1>9, CloseKeeps
  <1>10. CASE UNCHANGED vars
    BY <1>10, RendererRests
  <1> QED BY <1>1, <1>2, <1>3, <1>4, <1>5, <1>6, <1>7, <1>8, <1>9, <1>10 DEF Next

\* Whatever the window asks for, however its task ends, whoever aborts what, and
\* whenever it is closed: what is on the way in its channel and what host and
\* client remember of it fit together.
THEOREM RendererInvHolds == Spec => []RendererInv
  <1>1. Init => RendererInv
    BY RendererStarts
  <1>2. RendererInv /\ [Next]_vars => RendererInv'
    BY RendererSteps
  <1> QED BY <1>1, <1>2, PTL DEF Spec

-----------------------------------------------------------------------------
(* What follows from it                                                     *)

\* Everything has its type; no entry of inflight outlives its request, and what
\* the cache has heard of the data is never ahead of them.
THEOREM RendererTypeCorrect == Spec => []TypeOK
  <1>1. RendererInv => TypeOK
    <2> SUFFICES ASSUME RendererInv PROVE TypeOK
      OBVIOUS
    <2>0. WiresTyped /\ HostTyped /\ ClientTyped /\ HubTypeOK /\ ViewTyped /\ CacheTyped
      BY DEF RendererInv, Typed
    <2>1. \A i \in DOMAIN streams : streams[i] \in Nat
      BY <2>0 DEF ClientTyped
    <2>2. BusTypeOK
      BY <2>0, <2>1 DEF BusTypeOK, WiresTyped, HostTyped, ClientTyped, UpMessage, Outcome
    <2>3. view.task \in SUBSET Task /\ view.handle \in SUBSET Stream
      BY <2>0 DEF ViewTyped
    <2> QED BY <2>0, <2>2, <2>3 DEF TypeOK, ViewTyped, CacheTyped
  <1> QED BY <1>1, RendererInvHolds, PTL

\* What is asked for in an open window is in one place until it is answered:
\* on its way to the host, in the handler's hands, or on its way back.  Abort,
\* time-out and the handler's own end never answer one call twice, nor does one
\* of them swallow the answer; and what was answered is nowhere any more.
THEOREM EachRequestIsInOnePlaceHolds == Spec => []EachRequestIsInOnePlace
  <1>1. RendererInv => EachRequestIsInOnePlace
    <2> SUFFICES ASSUME RendererInv, attached PROVE EachRequestIsInOnePlace
      BY DEF EachRequestIsInOnePlace
    <2>0. WiresTyped /\ Placed /\ ClientTyped /\ up \in Seq(UpMessage) /\ down \in Seq(DownMessage)
      BY DEF RendererInv, Typed, WiresTyped
    <2>1. ASSUME NEW i \in Id PROVE OnTheWay(i) = Count(up, Requests(i))
      <3>1. {k \in DOMAIN up : up[k] = Request(i)} = {k \in DOMAIN up : up[k] \in Requests(i)}
        BY DEF Requests
      <3> QED BY <3>1 DEF OnTheWay, Times, Count
    <2>2. \A k \in DOMAIN down : down[k] \in DownMessage
      BY <2>0, LenProperties
    <2>3. ASSUME NEW i \in Call
          PROVE  Times(down, LAMBDA m : m.type = "response" /\ m.id = i) = Count(down, Answers(i))
      <3>1. {k \in DOMAIN down : down[k].type = "response" /\ down[k].id = i}
              = {k \in DOMAIN down : down[k] \in Answers(i)}
        BY <2>2, Kinds
      <3> QED BY <3>1 DEF Times, Count
    <2>4. ASSUME NEW i \in Stream
          PROVE  Times(down, LAMBDA m : m.type = "stream" /\ m.id = i /\ m.kind # "chunk") = Count(down, Lasts(i))
      <3>1. {k \in DOMAIN down : down[k].type = "stream" /\ down[k].id = i /\ down[k].kind # "chunk"}
              = {k \in DOMAIN down : down[k] \in Lasts(i)}
        BY <2>2, Kinds
      <3> QED BY <3>1 DEF Times, Count
    <2>5. ASSUME NEW i \in Call
          PROVE  OnTheWay(i) + (IF inflight[i] = "live" THEN 1 ELSE 0)
                   + Times(down, LAMBDA m : m.type = "response" /\ m.id = i)
                 = IF i \in pending THEN 1 ELSE 0
      <3>1. CallIsPlaced(i) /\ i \in Id
        BY <2>0 DEF Placed, Id
      <3> QED BY <2>1, <2>3, <3>1 DEF CallIsPlaced
    <2>6. ASSUME NEW i \in Stream
          PROVE  LET last == Times(down, LAMBDA m : m.type = "stream" /\ m.id = i /\ m.kind # "chunk")
                 IN /\ i \in DOMAIN streams =>
                         OnTheWay(i) + (IF handler[i] = "running" THEN 1 ELSE 0) + last = 1
                    /\ i \in used \ DOMAIN streams => handler[i] # "running" /\ last = 0
      <3>1. StreamIsPlaced(i) /\ i \in Id
        BY <2>0 DEF Placed, Id
      <3>2. i \notin DOMAIN streams => handler[i] # "running" /\ Count(down, Lasts(i)) = 0
        BY <2>0, <3>1, StreamPlaces
      <3> QED BY <2>1, <2>4, <3>1, <3>2 DEF StreamIsPlaced
    <2> QED BY <2>5, <2>6 DEF EachRequestIsInOnePlace
  <1> QED BY <1>1, RendererInvHolds, PTL

\* Whoever opens a stream of a task, before, while or after it runs, hears its
\* chunks from the first, without a gap, a repetition or a change of order,
\* however many texts are handed over together.
THEOREM ReplayThenLiveHolds == Spec => []ReplayThenLive
  <1>1. RendererInv => ReplayThenLive
    BY DEF RendererInv, Whole, Chunked, ChunksIn, ReplayThenLive
  <1> QED BY <1>1, RendererInvHolds, PTL

\* When the query's handler does not await, what a record at rest shows is no
\* older than the last change the window has heard of.
THEOREM FreshAtRestHolds == Spec => []FreshAtRest
  <1>1. RendererInv => FreshAtRest
    BY DEF RendererInv, Fresh
  <1> QED BY <1>1, RendererInvHolds, PTL
====
