--------------------------- MODULE IntakeProofs ---------------------------
(***************************************************************************)
(* Proofs about what comes in from outside.  The topics of the narrative   *)
(* miner, for any phrases, texts, restarts and lost writes: what the       *)
(* search in a name counts, and that the copies of a topic agree.          *)
(* PoolDiscovery, for any pools, restarts, listeners, number of attempts   *)
(* and bounds: what the watcher knows of its listener, how often a pool is *)
(* asked for and how many candidates a key brings.  The social sources,    *)
(* for any posts, accounts, chats, limits and bounds: which posts arrive,  *)
(* and how often.                                                          *)
(***************************************************************************)
EXTENDS PoolDiscovery, SocialSources, TopicClusters, FiniteSetTheorems, SequenceTheorems,
        WellFoundedInduction, TLAPS

\* Every set of natural numbers that is not empty has a least member.
LEMMA LeastBound ==
    ASSUME NEW T, T \subseteq Nat, T # {} PROVE \E n \in T : \A m \in T : n <= m
<1>1. PICK n \in T : \A m \in T : ~ (<<m, n>> \in OpToRel(<, Nat))
  BY NatLessThanWellFounded, WFMin
<1>2. \A m \in T : ~ (m < n)
  BY <1>1 DEF OpToRel
<1>. QED
  BY <1>2

-----------------------------------------------------------------------------
(* PhraseMatcher: letters *)

Word == Seq(Letter)

Kept(text) ==
    CHOOSE kept : kept = [n \in 0..Len(text) |->
        IF n = 0 THEN <<>>
        ELSE IF text[n] \in Letter THEN Append(kept[n - 1], text[n]) ELSE kept[n - 1]]

\* The recursive function exists: up to any place, so up to the last.
LEMMA KeptUnfolds ==
    ASSUME NEW text, Len(text) \in Nat
    PROVE  /\ Letters(text) = Kept(text)[Len(text)] /\ Kept(text)[0] = <<>>
           /\ \A n \in 1..Len(text) :
                Kept(text)[n] = IF text[n] \in Letter THEN Append(Kept(text)[n - 1], text[n])
                                ELSE Kept(text)[n - 1]
<1>. DEFINE Step(k, n) == IF n = 0 THEN <<>>
                          ELSE IF text[n] \in Letter THEN Append(k[n - 1], text[n]) ELSE k[n - 1]
            Unfolds(m) == \E k : \A n \in 0..Len(text) : n <= m => k[n] = Step(k, n)
            Stuck == {m \in Nat : ~Unfolds(m)}
<1>1. Unfolds(0)
  <2>. DEFINE k == [n \in 0..Len(text) |-> <<>>]
  <2>1. \A n \in 0..Len(text) : n <= 0 => k[n] = Step(k, n)
    OBVIOUS
  <2>. QED
    BY <2>1
<1>2. ASSUME NEW m \in Nat, Unfolds(m) PROVE Unfolds(m + 1)
  <2>1. PICK k : \A n \in 0..Len(text) : n <= m => k[n] = Step(k, n)
    BY <1>2
  <2>. DEFINE h == [n \in 0..Len(text) |-> Step(k, n)]
  <2>2. ASSUME NEW n \in 0..Len(text), n <= m + 1 PROVE h[n] = Step(h, n)
    <3>1. CASE n = 0
      BY <3>1
    <3>2. CASE n # 0
      <4>1. n - 1 \in 0..Len(text) /\ n - 1 <= m
        BY <2>2, <3>2
      <4>2. h[n - 1] = k[n - 1]
        BY <2>1, <4>1
      <4>. QED
        BY <3>2, <4>2
    <3>. QED
      BY <3>1, <3>2
  <2>. QED
    BY <2>2
<1>. HIDE DEF Unfolds
<1>3. Stuck = {}
  <2>. SUFFICES ASSUME Stuck # {} PROVE FALSE
    OBVIOUS
  <2>1. PICK m \in Stuck : \A l \in Stuck : m <= l
    <3>1. Stuck \subseteq Nat
      OBVIOUS
    <3>. HIDE DEF Stuck
    <3>. QED
      BY <3>1, LeastBound
  <2>2. m # 0 /\ m \in Nat
    BY <1>1, <2>1
  <2>3. m - 1 \in Nat /\ m - 1 \notin Stuck
    BY <2>1, <2>2
  <2>. QED
    BY <1>2, <2>1, <2>2, <2>3
<1>4. \E k : k = [n \in 0..Len(text) |-> Step(k, n)]
  <2>1. PICK k : \A n \in 0..Len(text) : n <= Len(text) => k[n] = Step(k, n)
    BY <1>3 DEF Unfolds
  <2>2. \A n \in 0..Len(text) : n <= Len(text)
    OBVIOUS
  <2>. DEFINE h == [n \in 0..Len(text) |-> k[n]]
  <2>3. ASSUME NEW n \in 0..Len(text) PROVE h[n] = Step(h, n)
    <3>1. n # 0 => h[n - 1] = k[n - 1]
      OBVIOUS
    <3>. QED
      BY <2>1, <2>2, <3>1
  <2>4. h = [n \in 0..Len(text) |-> Step(h, n)]
    BY <2>3
  <2>. QED
    BY <2>4
<1>5. Kept(text) = [n \in 0..Len(text) |-> Step(Kept(text), n)]
  BY <1>4 DEF Kept
<1>6. Letters(text) = Kept(text)[Len(text)]
  BY DEF Letters, Kept
<1>7. \A n \in 0..Len(text) : Kept(text)[n] = Step(Kept(text), n)
  <2>. DEFINE all == Kept(text)
  <2>1. all = [n \in 0..Len(text) |-> Step(all, n)]
    BY <1>5
  <2>. HIDE DEF all
  <2>2. \A n \in 0..Len(text) : all[n] = Step(all, n)
    BY <2>1
  <2>. QED
    BY <2>2 DEF all
<1>8. Kept(text)[0] = <<>>
  BY <1>7
<1>9. ASSUME NEW n \in 1..Len(text)
      PROVE  Kept(text)[n] = IF text[n] \in Letter THEN Append(Kept(text)[n - 1], text[n])
                             ELSE Kept(text)[n - 1]
  <2>1. n \in 0..Len(text) /\ n # 0
    OBVIOUS
  <2>. QED
    BY <1>7, <2>1
<1>. QED
  BY <1>6, <1>8, <1>9

\* What is kept of a text is a word.
LEMMA KeptAreLetters ==
    ASSUME NEW text, Len(text) \in Nat, NEW n \in 0..Len(text) PROVE Kept(text)[n] \in Word
<1>. SUFFICES ASSUME Kept(text)[n] \notin Word PROVE FALSE
  OBVIOUS
<1>. DEFINE Bad == {m \in 0..Len(text) : Kept(text)[m] \notin Word}
<1>1. PICK m \in Bad : \A l \in Bad : m <= l
  <2>1. n \in Bad /\ Bad \subseteq Nat
    OBVIOUS
  <2>. HIDE DEF Bad
  <2>. QED
    BY <2>1, LeastBound
<1>2. m # 0
  <2>1. Kept(text)[0] = <<>> /\ <<>> \in Word
    BY KeptUnfolds DEF Word
  <2>. QED
    BY <1>1, <2>1
<1>3. m - 1 \in 0..Len(text) /\ m - 1 \notin Bad /\ m \in 1..Len(text)
  BY <1>1, <1>2
<1>4. Kept(text)[m - 1] \in Word
  BY <1>3
<1>5. Kept(text)[m] = IF text[m] \in Letter THEN Append(Kept(text)[m - 1], text[m])
                      ELSE Kept(text)[m - 1]
  BY <1>3, KeptUnfolds
<1>6. Kept(text)[m] \in Word
  BY <1>4, <1>5, AppendProperties DEF Word
<1>. QED
  BY <1>1, <1>6

\* It depends on what has been read only.
LEMMA KeptOfPrefix ==
    ASSUME NEW S, NEW text \in Seq(S), NEW k \in 0..Len(text), NEW n \in 0..k
    PROVE  Kept(SubSeq(text, 1, k))[n] = Kept(text)[n]
<1>. DEFINE prefix == SubSeq(text, 1, k)
<1>1. Len(text) \in Nat /\ \A i \in 1..Len(text) : text[i] \in S
  BY ElementOfSeq, LenProperties
<1>2. Len(prefix) = k /\ \A i \in 1..k : prefix[i] = text[i]
  <2>1. \A i \in 1..k : text[i] \in S
    BY <1>1
  <2>. QED
    BY <1>1, <2>1, SubSeqProperties
<1>. HIDE DEF prefix
<1>. SUFFICES ASSUME Kept(prefix)[n] # Kept(text)[n] PROVE FALSE
  BY DEF prefix
<1>. DEFINE Bad == {m \in 0..k : Kept(prefix)[m] # Kept(text)[m]}
<1>3. PICK m \in Bad : \A l \in Bad : m <= l
  <2>1. n \in Bad /\ Bad \subseteq Nat
    BY <1>1
  <2>. HIDE DEF Bad
  <2>. QED
    BY <2>1, LeastBound
<1>4. m # 0
  <2>1. Kept(prefix)[0] = <<>> /\ Kept(text)[0] = <<>>
    BY <1>1, <1>2, KeptUnfolds
  <2>2. m = 0 => Kept(prefix)[0] # Kept(text)[0]
    BY <1>3
  <2>. QED
    BY <2>1, <2>2
<1>5. m - 1 \in 0..k /\ m - 1 \notin Bad /\ m \in 1..k /\ m \in 1..Len(text) /\ m \in 1..Len(prefix)
  <2>1. /\ m \in 0..k /\ Kept(prefix)[m] # Kept(text)[m]
        /\ \A l \in 0..k : l < m => Kept(prefix)[l] = Kept(text)[l]
    BY <1>3
  <2>. HIDE DEF Bad
  <2>2. m \in 1..k /\ m - 1 \in 0..k /\ m - 1 < m
    BY <1>4, <2>1
  <2>3. m \in 1..Len(text) /\ m \in 1..Len(prefix)
    BY <1>1, <1>2, <2>2
  <2>4. m - 1 \notin Bad
    BY <2>1, <2>2 DEF Bad
  <2>. QED
    BY <2>2, <2>3, <2>4
<1>6. Kept(prefix)[m - 1] = Kept(text)[m - 1] /\ prefix[m] = text[m]
  BY <1>2, <1>5
<1>7. Kept(prefix)[m] = Kept(text)[m]
  <2>1. Kept(text)[m] = IF text[m] \in Letter THEN Append(Kept(text)[m - 1], text[m])
                        ELSE Kept(text)[m - 1]
    BY <1>1, <1>5, KeptUnfolds
  <2>2. Len(prefix) \in Nat
    BY <1>2
  <2>3. Kept(prefix)[m] = IF prefix[m] \in Letter THEN Append(Kept(prefix)[m - 1], prefix[m])
                          ELSE Kept(prefix)[m - 1]
    BY <1>5, <2>2, KeptUnfolds
  <2>. QED
    BY <1>6, <2>1, <2>3
<1>. QED
  BY <1>3, <1>7

LEMMA LettersAdvance ==
    ASSUME NEW S, NEW text \in Seq(S), NEW k \in 0..Len(text)
    PROVE  /\ Letters(SubSeq(text, 1, k)) \in Word
           /\ Letters(SubSeq(text, 1, 0)) = <<>>
           /\ k > 0 => Letters(SubSeq(text, 1, k)) =
                         IF text[k] \in Letter THEN Append(Letters(SubSeq(text, 1, k - 1)), text[k])
                         ELSE Letters(SubSeq(text, 1, k - 1))
<1>1. Len(text) \in Nat /\ \A i \in 1..Len(text) : text[i] \in S
  BY ElementOfSeq, LenProperties
<1>2. ASSUME NEW m \in 0..Len(text) PROVE Letters(SubSeq(text, 1, m)) = Kept(text)[m]
  <2>. DEFINE prefix == SubSeq(text, 1, m)
  <2>1. Len(prefix) = m
    <3>1. \A i \in 1..m : text[i] \in S
      BY <1>1
    <3>. QED
      BY <1>1, <3>1, SubSeqProperties
  <2>2. Kept(prefix)[m] = Kept(text)[m]
    BY <1>1, KeptOfPrefix
  <2>. HIDE DEF prefix
  <2>3. Letters(prefix) = Kept(prefix)[m]
    BY <2>1, KeptUnfolds
  <2>. QED
    BY <2>2, <2>3 DEF prefix
<1>3. k > 0 => k - 1 \in 0..Len(text) /\ k \in 1..Len(text)
  BY <1>1
<1>4. Kept(text)[k] \in Word /\ Kept(text)[0] = <<>> /\ 0 \in 0..Len(text)
  BY <1>1, KeptUnfolds, KeptAreLetters
<1>5. Letters(SubSeq(text, 1, k)) = Kept(text)[k] /\ Letters(SubSeq(text, 1, 0)) = Kept(text)[0]
  BY <1>2, <1>4
<1>6. ASSUME k > 0
      PROVE  Letters(SubSeq(text, 1, k)) =
                IF text[k] \in Letter THEN Append(Letters(SubSeq(text, 1, k - 1)), text[k])
                ELSE Letters(SubSeq(text, 1, k - 1))
  <2>1. Letters(SubSeq(text, 1, k - 1)) = Kept(text)[k - 1]
    BY <1>2, <1>3, <1>6
  <2>2. Kept(text)[k] = IF text[k] \in Letter THEN Append(Kept(text)[k - 1], text[k])
                        ELSE Kept(text)[k - 1]
    BY <1>1, <1>3, <1>6, KeptUnfolds
  <2>. QED
    BY <1>5, <2>1, <2>2
<1>. QED
  BY <1>4, <1>5, <1>6

-----------------------------------------------------------------------------
(* Nodes and suffixes *)

\* s ends n.
Ends(s, n) == Len(s) <= Len(n) /\ \A j \in 0..Len(s) - 1 : s[Len(s) - j] = n[Len(n) - j]

PhrasesAreWords == \A p \in phrases : Letters(p) \in Word /\ Letters(p) # <<>>

LEMMA WordFacts ==
    ASSUME NEW n \in Word
    PROVE  /\ Len(n) \in Nat /\ (Len(n) = 0 <=> n = <<>>) /\ \A i \in 1..Len(n) : n[i] \in Letter
           /\ <<>> \in Word /\ Len(<<>>) = 0
BY EmptySeq, LenProperties, ElementOfSeq DEF Word

LEMMA AppendFacts ==
    ASSUME NEW n \in Word, NEW ch \in Letter
    PROVE  /\ Append(n, ch) \in Word /\ Len(Append(n, ch)) = Len(n) + 1
           /\ \A i \in 1..Len(n) : Append(n, ch)[i] = n[i]
           /\ Append(n, ch)[Len(n) + 1] = ch
BY AppendProperties DEF Word

LEMMA FrontFacts ==
    ASSUME NEW n \in Word, n # <<>>
    PROVE  /\ Front(n) \in Word /\ Len(Front(n)) = Len(n) - 1 /\ Last(n) \in Letter
           /\ Append(Front(n), Last(n)) = n
<1>1. Len(n) \in Nat /\ Len(n) > 0 /\ \A i \in 1..Len(n) : n[i] \in Letter
  BY WordFacts
<1>2. Len(n) - 1 \in Int /\ Len(n) - 1 \in Nat /\ \A i \in 1..Len(n) - 1 : n[i] \in Letter
  BY <1>1
<1>3. Front(n) \in Word /\ Len(Front(n)) = Len(n) - 1 /\ \A i \in 1..Len(n) - 1 : Front(n)[i] = n[i]
  <2>1. /\ SubSeq(n, 1, Len(n) - 1) \in Seq(Letter)
        /\ Len(SubSeq(n, 1, Len(n) - 1)) = IF 1 <= Len(n) - 1 THEN Len(n) - 1 - 1 + 1 ELSE 0
        /\ \A i \in 1..Len(n) - 1 - 1 + 1 : SubSeq(n, 1, Len(n) - 1)[i] = n[1 + i - 1]
    BY <1>2, SubSeqProperties
  <2>2. Len(n) - 1 - 1 + 1 = Len(n) - 1 /\ (1 <= Len(n) - 1 \/ Len(n) - 1 = 0)
    BY <1>1
  <2>3. \A i \in 1..Len(n) - 1 : 1 + i - 1 = i
    BY <1>1
  <2>. DEFINE front == SubSeq(n, 1, Len(n) - 1)
  <2>. HIDE DEF front
  <2>4. front \in Seq(Letter) /\ Len(front) = Len(n) - 1 /\ \A i \in 1..Len(n) - 1 : front[i] = n[i]
    BY <1>1, <2>1, <2>2, <2>3 DEF front
  <2>. QED
    BY <2>4 DEF front, Front, Word
<1>4. Last(n) = n[Len(n)] /\ Last(n) \in Letter
  BY <1>1 DEF Last
<1>. DEFINE front == Front(n)
            again == Append(front, Last(n))
<1>. HIDE DEF front
<1>5. /\ again \in Word /\ Len(again) = Len(front) + 1 /\ \A i \in 1..Len(front) : again[i] = front[i]
      /\ again[Len(front) + 1] = Last(n)
  BY <1>3, <1>4, AppendFacts DEF front
<1>. HIDE DEF again
<1>6. Len(again) = Len(n) /\ \A i \in 1..Len(again) : again[i] = n[i]
  <2>1. Len(front) = Len(n) - 1 /\ \A i \in 1..Len(n) - 1 : front[i] = n[i]
    BY <1>3 DEF front
  <2>2. ASSUME NEW i \in 1..Len(n) PROVE again[i] = n[i]
    <3>1. CASE i = Len(n)
      BY <1>1, <1>4, <1>5, <2>1, <3>1
    <3>2. CASE i \in 1..Len(n) - 1
      BY <1>1, <1>5, <2>1, <3>2
    <3>. QED
      BY <1>1, <3>1, <3>2
  <2>. QED
    BY <1>1, <1>5, <2>1, <2>2
<1>7. again = n
  BY <1>5, <1>6, SeqEqual DEF Word
<1>. QED
  BY <1>3, <1>4, <1>7 DEF again, front

LEMMA EndsBoth ==
    ASSUME NEW a \in Word, NEW b \in Word, NEW n \in Word
    PROVE  /\ Ends(n, n) /\ Ends(<<>>, n)
           /\ Ends(a, b) /\ Ends(b, n) => Ends(a, n)
           /\ Ends(a, n) /\ Ends(b, n) /\ Len(a) <= Len(b) => Ends(a, b)
           /\ Ends(a, b) /\ Len(a) = Len(b) => a = b
<1>1. Len(a) \in Nat /\ Len(b) \in Nat /\ Len(n) \in Nat /\ Len(<<>>) = 0
  BY WordFacts
<1>2. Ends(n, n) /\ Ends(<<>>, n)
  BY <1>1 DEF Ends
<1>3. Ends(a, b) /\ Ends(b, n) => Ends(a, n)
  BY <1>1 DEF Ends
<1>4. Ends(a, n) /\ Ends(b, n) /\ Len(a) <= Len(b) => Ends(a, b)
  BY <1>1 DEF Ends
<1>5. ASSUME Ends(a, b), Len(a) = Len(b) PROVE a = b
  <2>1. ASSUME NEW i \in 1..Len(a) PROVE a[i] = b[i]
    <3>1. Len(a) - i \in 0..Len(a) - 1 /\ Len(a) - (Len(a) - i) = i /\ Len(b) - (Len(a) - i) = i
      BY <1>1, <1>5
    <3>. QED
      BY <1>5, <3>1 DEF Ends
  <2>. QED
    BY <1>5, <2>1, SeqEqual DEF Word
<1>. QED
  BY <1>2, <1>3, <1>4, <1>5

LEMMA EndsAppend ==
    ASSUME NEW a \in Word, NEW n \in Word, NEW ch \in Letter
    PROVE  /\ Ends(a, n) <=> Ends(Append(a, ch), Append(n, ch))
           /\ \A l \in Word : l # <<>> /\ Ends(l, Append(n, ch)) => l = Append(Front(l), ch) /\ Ends(Front(l), n)
<1>0. Len(a) \in Nat /\ Len(n) \in Nat
  BY WordFacts
<1>1. ASSUME NEW b \in Word PROVE Ends(b, n) <=> Ends(Append(b, ch), Append(n, ch))
  <2>. DEFINE x == Append(b, ch)
              y == Append(n, ch)
  <2>1. Len(b) \in Nat /\ Len(x) = Len(b) + 1 /\ Len(y) = Len(n) + 1
    BY WordFacts, AppendFacts
  <2>2. x[Len(x)] = ch /\ y[Len(y)] = ch
    BY <2>1, AppendFacts
  <2>3. (\A i \in 1..Len(b) : x[i] = b[i]) /\ (\A i \in 1..Len(n) : y[i] = n[i])
    BY AppendFacts
  <2>. HIDE DEF x, y
  <2>4. ASSUME Ends(b, n) PROVE Ends(x, y)
    <3>1. ASSUME NEW j \in 0..Len(x) - 1 PROVE x[Len(x) - j] = y[Len(y) - j]
      <4>1. CASE j = 0
        BY <2>1, <2>2, <4>1, <1>0
      <4>2. CASE j # 0
        <5>1. j - 1 \in 0..Len(b) - 1 /\ Len(x) - j = Len(b) - (j - 1) /\ Len(y) - j = Len(n) - (j - 1)
          BY <1>0, <2>1, <4>2
        <5>2. Len(b) - (j - 1) \in 1..Len(b) /\ Len(n) - (j - 1) \in 1..Len(n)
          BY <1>0, <2>1, <2>4, <5>1 DEF Ends
        <5>. QED
          BY <2>3, <2>4, <5>1, <5>2 DEF Ends
      <4>. QED
        BY <4>1, <4>2
    <3>. QED
      BY <1>0, <2>1, <2>4, <3>1 DEF Ends
  <2>5. ASSUME Ends(x, y) PROVE Ends(b, n)
    <3>1. ASSUME NEW j \in 0..Len(b) - 1 PROVE b[Len(b) - j] = n[Len(n) - j]
      <4>1. j + 1 \in 0..Len(x) - 1 /\ Len(x) - (j + 1) = Len(b) - j /\ Len(y) - (j + 1) = Len(n) - j
        BY <1>0, <2>1
      <4>2. Len(b) - j \in 1..Len(b) /\ Len(n) - j \in 1..Len(n)
        BY <1>0, <2>1, <2>5, <4>1 DEF Ends
      <4>. QED
        BY <2>3, <2>5, <4>1, <4>2 DEF Ends
    <3>. QED
      BY <1>0, <2>1, <2>5, <3>1 DEF Ends
  <2>. QED
    BY <2>4, <2>5 DEF x, y
<1>2. ASSUME NEW l \in Word, l # <<>>, Ends(l, Append(n, ch))
      PROVE  l = Append(Front(l), ch) /\ Ends(Front(l), n)
  <2>1. Front(l) \in Word /\ Last(l) \in Letter /\ Append(Front(l), Last(l)) = l
    BY <1>2, FrontFacts
  <2>2. Last(l) = ch
    <3>1. Len(l) \in Nat /\ Len(l) > 0
      BY <1>2, WordFacts
    <3>2. Append(n, ch)[Len(n) + 1] = ch /\ Len(Append(n, ch)) = Len(n) + 1
      BY AppendFacts
    <3>. DEFINE y == Append(n, ch)
    <3>. HIDE DEF y
    <3>3. 0 \in 0..Len(l) - 1 /\ Len(l) - 0 = Len(l) /\ Len(y) - 0 = Len(n) + 1
      BY <1>0, <3>1, <3>2 DEF y
    <3>4. l[Len(l) - 0] = y[Len(y) - 0]
      BY <1>2, <3>3 DEF Ends, y
    <3>. QED
      BY <3>2, <3>3, <3>4 DEF Last, y
  <2>. QED
    BY <1>1, <1>2, <2>1, <2>2
<1>. QED
  BY <1>1, <1>2

LEMMA NodesAreWords ==
    ASSUME PhrasesAreWords
    PROVE  /\ <<>> \in Nodes /\ Nodes \subseteq Word
           /\ \A n \in Nodes : n # <<>> => Front(n) \in Nodes
           /\ \A p \in phrases : Letters(p) \in Nodes
<1>1. ASSUME NEW p \in phrases, NEW k \in 1..Len(Letters(p))
      PROVE  /\ SubSeq(Letters(p), 1, k) \in Word /\ Len(SubSeq(Letters(p), 1, k)) = k
             /\ Front(SubSeq(Letters(p), 1, k)) \in Nodes
  <2>. DEFINE w == Letters(p)
              n == SubSeq(w, 1, k)
  <2>1. w \in Word /\ Len(w) \in Nat /\ \A i \in 1..Len(w) : w[i] \in Letter
    BY WordFacts DEF PhrasesAreWords
  <2>. HIDE DEF w
  <2>2. \A i \in 1..k : w[i] \in Letter
    BY <2>1 DEF w
  <2>3. k \in 1..Len(w) /\ k \in Nat
    BY <2>1 DEF w
  <2>4. n \in Word /\ Len(n) = k
    BY <2>2, <2>3, SubSeqProperties DEF Word
  <2>5. CASE k = 1
    <3>1. SubSeq(n, 1, 0) = <<>>
      BY <2>4, SubSeqEmpty DEF Word
    <3>. QED
      BY <2>4, <2>5, <3>1 DEF Front, Nodes, w
  <2>6. CASE k > 1
    <3>1. SubSeq(n, 1, k - 1) = SubSeq(w, 1, k - 1)
      <4>1. 1 \in 1..Len(w) /\ 1 \in 1..k - 1 + 1 /\ k - 1 \in 1..k - 1 + 1
        BY <2>1, <2>3, <2>6
      <4>2. SubSeq(SubSeq(w, 1, k), 1, k - 1) = SubSeq(w, 1 + 1 - 1, 1 + (k - 1) - 1)
        BY <2>1, <4>1, SubSeqOfSubSeq DEF Word
      <4>. QED
        BY <2>3, <4>2
    <3>2. k - 1 \in 1..Len(w)
      BY <2>1, <2>3, <2>6
    <3>. QED
      BY <2>4, <3>1, <3>2 DEF Front, Nodes, w
  <2>. QED
    BY <2>3, <2>4, <2>5, <2>6 DEF w
<1>2. ASSUME NEW n \in Nodes, n # <<>>
      PROVE  \E p \in phrases : \E k \in 1..Len(Letters(p)) : n = SubSeq(Letters(p), 1, k)
  BY <1>2 DEF Nodes
<1>3. <<>> \in Nodes /\ <<>> \in Word
  BY DEF Nodes, Word
<1>4. Nodes \subseteq Word /\ \A n \in Nodes : n # <<>> => Front(n) \in Nodes
  BY <1>1, <1>2, <1>3
<1>5. ASSUME NEW p \in phrases PROVE Letters(p) \in Nodes
  <2>1. Letters(p) \in Word /\ Letters(p) # <<>>
    BY DEF PhrasesAreWords
  <2>2. Len(Letters(p)) \in 1..Len(Letters(p)) /\ SubSeq(Letters(p), 1, Len(Letters(p))) = Letters(p)
    BY <2>1, WordFacts, SubSeqFull DEF Word
  <2>3. Letters(p) \in {SubSeq(Letters(p), 1, k) : k \in 1..Len(Letters(p))}
    BY <2>2
  <2>. QED
    BY <2>3 DEF Nodes
<1>. QED
  BY <1>3, <1>4, <1>5

-----------------------------------------------------------------------------
(* The longest node that ends a word *)

\* r is the longest node of at most b letters that ends n.
IsBest(r, n, b) ==
    /\ r \in Nodes /\ Ends(r, n) /\ Len(r) <= b
    /\ \A l \in Nodes : Ends(l, n) /\ Len(l) <= b => Len(l) <= Len(r)

LEMMA BestIsUnique ==
    ASSUME PhrasesAreWords, NEW n \in Word, NEW b \in Nat, NEW r, NEW q,
           IsBest(r, n, b), IsBest(q, n, b)
    PROVE  r = q
<1>1. r \in Word /\ q \in Word /\ r \in Nodes /\ q \in Nodes
  BY NodesAreWords DEF IsBest
<1>2. Len(r) \in Nat /\ Len(q) \in Nat
  BY <1>1, WordFacts
<1>3. Len(r) = Len(q)
  <2>1. Len(r) <= Len(q) /\ Len(q) <= Len(r)
    BY <1>1 DEF IsBest
  <2>. QED
    BY <1>2, <2>1
<1>4. Ends(r, q)
  BY <1>1, <1>2, <1>3, EndsBoth DEF IsBest
<1>. QED
  BY <1>1, <1>3, <1>4, EndsBoth

LEMMA BestExists ==
    ASSUME PhrasesAreWords, NEW n \in Word, NEW b \in Nat PROVE \E r : IsBest(r, n, b)
<1>. DEFINE Short(l) == l \in Nodes /\ Ends(l, n) /\ Len(l) <= b
            gaps == {k \in Nat : \E l \in Nodes : Short(l) /\ k = b - Len(l)}
<1>1. \A l \in Nodes : l \in Word /\ Len(l) \in Nat
  BY NodesAreWords, WordFacts
<1>2. b - 0 \in gaps
  <2>1. Short(<<>>) /\ Len(<<>>) = 0 /\ <<>> \in Nodes
    BY NodesAreWords, WordFacts, EndsBoth
  <2>. QED
    BY <2>1
<1>3. PICK k \in gaps : \A m \in gaps : k <= m
  <2>1. gaps \subseteq Nat
    OBVIOUS
  <2>. HIDE DEF gaps
  <2>. QED
    BY <1>2, <2>1, LeastBound
<1>4. PICK r \in Nodes : Short(r) /\ k = b - Len(r)
  BY <1>3
<1>5. ASSUME NEW l \in Nodes, Short(l) PROVE Len(l) <= Len(r)
  <2>1. b - Len(l) \in Nat
    BY <1>1, <1>5
  <2>2. b - Len(l) \in gaps
    BY <1>5, <2>1
  <2>3. b - Len(r) <= b - Len(l)
    BY <1>3, <1>4, <2>2
  <2>4. Len(l) \in Nat /\ Len(r) \in Nat
    BY <1>1, <1>4, <1>5
  <2>. QED
    BY <2>3, <2>4
<1>6. IsBest(r, n, b)
  BY <1>4, <1>5 DEF IsBest
<1>. QED
  BY <1>6

\* What ends Append(r, ch) best ends Append(m, ch) best, when r ends m best.
LEMMA BestAppends ==
    ASSUME PhrasesAreWords, NEW m \in Word, NEW b \in Nat, NEW ch \in Letter, NEW r, NEW q,
           IsBest(r, m, b), IsBest(q, Append(r, ch), Len(r) + 1)
    PROVE  IsBest(q, Append(m, ch), b + 1)
<1>1. r \in Word /\ q \in Word /\ Len(r) \in Nat /\ Len(q) \in Nat /\ Ends(r, m) /\ Len(r) <= b
  BY NodesAreWords, WordFacts DEF IsBest
<1>2. Append(r, ch) \in Word /\ Append(m, ch) \in Word
  BY <1>1, AppendFacts
<1>3. q \in Nodes /\ Ends(q, Append(r, ch)) /\ Len(q) <= Len(r) + 1
  BY DEF IsBest
<1>4. Ends(q, Append(m, ch)) /\ Len(q) <= b + 1
  <2>1. Ends(Append(r, ch), Append(m, ch))
    BY <1>1, EndsAppend
  <2>2. Ends(q, Append(m, ch))
    BY <1>1, <1>2, <1>3, <2>1, EndsBoth
  <2>. QED
    BY <1>1, <1>3, <2>2
<1>5. ASSUME NEW l \in Nodes, Ends(l, Append(m, ch)), Len(l) <= b + 1 PROVE Len(l) <= Len(q)
  <2>1. l \in Word /\ Len(l) \in Nat
    BY NodesAreWords, WordFacts
  <2>2. CASE l = <<>>
    BY <1>1, <2>1, <2>2, WordFacts
  <2>3. CASE l # <<>>
    <3>. DEFINE k == Front(l)
    <3>1. k \in Nodes /\ k \in Word /\ Len(k) = Len(l) - 1 /\ Len(k) \in Nat
      BY <2>1, <2>3, NodesAreWords, FrontFacts, WordFacts
    <3>2. l = Append(k, ch) /\ Ends(k, m)
      BY <1>5, <2>1, <2>3, EndsAppend
    <3>. HIDE DEF k
    <3>3. Len(k) <= b
      BY <1>5, <2>1, <3>1
    <3>4. Len(k) <= Len(r)
      BY <3>1, <3>2, <3>3 DEF IsBest
    <3>5. Ends(k, r)
      BY <1>1, <3>1, <3>2, <3>4, EndsBoth
    <3>6. Ends(l, Append(r, ch))
      BY <1>1, <3>1, <3>2, <3>5, EndsAppend
    <3>7. Len(l) <= Len(r) + 1
      BY <1>1, <2>1, <3>1, <3>4
    <3>. QED
      BY <3>6, <3>7 DEF IsBest
  <2>. QED
    BY <2>2, <2>3
<1>. QED
  BY <1>3, <1>4, <1>5 DEF IsBest

\* A node's child, and the root when no node ends in ch.
LEMMA BestOfChild ==
    ASSUME PhrasesAreWords, NEW m \in Nodes, NEW ch \in Letter
    PROVE  /\ HasChild(m, ch) => IsBest(Append(m, ch), Append(m, ch), Len(m) + 1)
           /\ m = <<>> /\ ~HasChild(m, ch) => IsBest(<<>>, Append(m, ch), Len(m) + 1)
           /\ m # <<>> => \A q : ~HasChild(m, ch) /\ IsBest(q, Append(m, ch), Len(m) - 1 + 1) =>
                              IsBest(q, Append(m, ch), Len(m) + 1)
<1>0. m \in Word /\ Len(m) \in Nat /\ <<>> \in Nodes /\ <<>> \in Word /\ Len(<<>>) = 0
  BY NodesAreWords, WordFacts
<1>. DEFINE w == Append(m, ch)
<1>1. w \in Word /\ Len(w) = Len(m) + 1
  BY <1>0, AppendFacts
<1>2. Ends(w, w) /\ Ends(<<>>, w)
  BY <1>0, <1>1, EndsBoth
<1>3. \A l \in Nodes : l \in Word /\ Len(l) \in Nat
  BY NodesAreWords, WordFacts
<1>. HIDE DEF w
<1>4. w \in Nodes => IsBest(w, w, Len(m) + 1)
  BY <1>0, <1>1, <1>2, <1>3 DEF IsBest
<1>5. ASSUME NEW l \in Nodes, Ends(l, w), w \notin Nodes PROVE Len(l) <= Len(m)
  <2>1. Len(l) # Len(w)
    BY <1>1, <1>3, <1>5, EndsBoth
  <2>2. Len(l) <= Len(w)
    BY <1>5 DEF Ends
  <2>. QED
    BY <1>0, <1>1, <1>3, <2>1, <2>2
<1>6. m = <<>> /\ w \notin Nodes => IsBest(<<>>, w, Len(m) + 1)
  BY <1>0, <1>2, <1>5 DEF IsBest
<1>7. ASSUME NEW q, w \notin Nodes, IsBest(q, w, Len(m) - 1 + 1) PROVE IsBest(q, w, Len(m) + 1)
  <2>1. Len(m) - 1 + 1 = Len(m)
    BY <1>0
  <2>2. q \in Nodes /\ Ends(q, w) /\ Len(q) <= Len(m) /\ Len(q) \in Nat
    BY <1>3, <1>7, <2>1 DEF IsBest
  <2>3. \A l \in Nodes : Ends(l, w) => Len(l) <= Len(q)
    BY <1>5, <1>7, <2>1 DEF IsBest
  <2>. QED
    BY <1>0, <2>2, <2>3 DEF IsBest
<1>. QED
  BY <1>4, <1>6, <1>7 DEF w, HasChild

-----------------------------------------------------------------------------
(* FailLinks and Outputs *)

\* fail is right for the nodes of less than d letters.
LinksRight(fail, d) ==
    \A m \in Nodes : Len(m) < d => IF m = <<>> THEN fail[m] = <<>> ELSE IsBest(fail[m], m, Len(m) - 1)

Shorter(d) == {s \in Nodes : Len(s) < d}

\* The inner function: it exists, and what it finds ends m and ch best.
LEMMA FoundIsBest ==
    ASSUME PhrasesAreWords, NEW d \in Nat, NEW ch \in Letter, NEW fail, LinksRight(fail, d)
    PROVE  LET found[m \in Shorter(d)] ==
                 IF HasChild(m, ch) THEN Append(m, ch)
                 ELSE IF m = <<>> THEN <<>> ELSE found[fail[m]]
           IN  \A m \in Shorter(d) : IsBest(found[m], Append(m, ch), Len(m) + 1)
<1>. DEFINE D == Shorter(d)
            Step(f, m) == IF HasChild(m, ch) THEN Append(m, ch)
                          ELSE IF m = <<>> THEN <<>> ELSE f[fail[m]]
            Right(f, m) == IsBest(f[m], Append(m, ch), Len(m) + 1)
<1>1. ASSUME NEW m \in D PROVE m \in Nodes /\ m \in Word /\ Len(m) \in Nat /\ Len(m) < d /\ Append(m, ch) \in Word
  BY NodesAreWords, WordFacts, AppendFacts DEF Shorter
<1>2. ASSUME NEW m \in D, m # <<>>
      PROVE  fail[m] \in D /\ Len(fail[m]) < Len(m) /\ IsBest(fail[m], m, Len(m) - 1) /\ Len(m) - 1 \in Nat
  <2>1. IsBest(fail[m], m, Len(m) - 1)
    BY <1>1, <1>2 DEF LinksRight
  <2>2. fail[m] \in Nodes /\ Len(fail[m]) <= Len(m) - 1 /\ Len(fail[m]) \in Nat
    BY <2>1, NodesAreWords, WordFacts DEF IsBest
  <2>3. Len(m) # 0
    BY <1>1, <1>2, WordFacts
  <2>4. Len(fail[m]) < d /\ Len(fail[m]) < Len(m) /\ Len(m) - 1 \in Nat
    BY <1>1, <2>2, <2>3
  <2>. QED
    BY <2>1, <2>2, <2>4 DEF Shorter
<1>3. ASSUME NEW f, NEW m \in D, m # <<>> => Right(f, fail[m])
      PROVE  IsBest(Step(f, m), Append(m, ch), Len(m) + 1)
  <2>1. CASE HasChild(m, ch)
    BY <1>1, <2>1, BestOfChild
  <2>2. CASE ~HasChild(m, ch) /\ m = <<>>
    BY <1>1, <2>2, BestOfChild
  <2>3. CASE ~HasChild(m, ch) /\ m # <<>>
    <3>1. IsBest(f[fail[m]], Append(fail[m], ch), Len(fail[m]) + 1)
      BY <1>3, <2>3
    <3>2. IsBest(f[fail[m]], Append(m, ch), Len(m) - 1 + 1)
      BY <1>1, <1>2, <2>3, <3>1, BestAppends
    <3>3. IsBest(f[fail[m]], Append(m, ch), Len(m) + 1)
      BY <1>1, <2>3, <3>2, BestOfChild
    <3>. QED
      BY <2>3, <3>3
  <2>. QED
    BY <2>1, <2>2, <2>3
<1>. HIDE DEF D, Right
<1>4. \E f : f = [m \in D |-> Step(f, m)]
  <2>. DEFINE f == [m \in D |-> CHOOSE q : IsBest(q, Append(m, ch), Len(m) + 1)]
  <2>1. ASSUME NEW m \in D PROVE Right(f, m)
    <3>1. Len(m) + 1 \in Nat /\ Append(m, ch) \in Word
      BY <1>1
    <3>2. \E q : IsBest(q, Append(m, ch), Len(m) + 1)
      BY <3>1, BestExists
    <3>3. IsBest(CHOOSE q : IsBest(q, Append(m, ch), Len(m) + 1), Append(m, ch), Len(m) + 1)
      BY <3>2
    <3>. QED
      BY <3>3 DEF Right
  <2>. HIDE DEF f
  <2>2. ASSUME NEW m \in D PROVE f[m] = Step(f, m)
    <3>1. m # <<>> => Right(f, fail[m])
      BY <1>2, <2>1
    <3>2. IsBest(Step(f, m), Append(m, ch), Len(m) + 1)
      BY <1>3, <3>1
    <3>3. IsBest(f[m], Append(m, ch), Len(m) + 1)
      BY <2>1 DEF Right
    <3>4. Len(m) + 1 \in Nat /\ Append(m, ch) \in Word
      BY <1>1
    <3>. HIDE DEF Step
    <3>. QED
      BY <3>2, <3>3, <3>4, BestIsUnique
  <2>3. f = [m \in D |-> Step(f, m)]
    <3>. HIDE DEF Step
    <3>1. f = [m \in D |-> f[m]]
      BY DEF f
    <3>. QED
      BY <2>2, <3>1
  <2>. QED
    BY <2>3
<1>. DEFINE found == CHOOSE f : f = [m \in D |-> Step(f, m)]
<1>5. found = [m \in D |-> Step(found, m)]
  BY <1>4
<1>. HIDE DEF found
<1>6. ASSUME NEW m \in D PROVE found[m] = Step(found, m)
  BY <1>5
<1>7. ASSUME NEW m \in D PROVE Right(found, m)
  <2>. SUFFICES ASSUME ~Right(found, m) PROVE FALSE
    OBVIOUS
  <2>. DEFINE Bad == {k \in Nat : \E l \in D : ~Right(found, l) /\ k = Len(l)}
  <2>1. Len(m) \in Bad
    BY <1>1
  <2>2. PICK k \in Bad : \A j \in Bad : k <= j
    <3>1. Bad \subseteq Nat
      OBVIOUS
    <3>. HIDE DEF Bad
    <3>. QED
      BY <2>1, <3>1, LeastBound
  <2>3. PICK l \in D : ~Right(found, l) /\ k = Len(l)
    BY <2>2
  <2>4. ASSUME l # <<>> PROVE Right(found, fail[l])
    <3>1. fail[l] \in D /\ Len(fail[l]) < Len(l)
      BY <1>2, <2>4
    <3>2. Len(fail[l]) \in Nat /\ Len(l) \in Nat
      BY <1>1, <3>1
    <3>. SUFFICES ASSUME ~Right(found, fail[l]) PROVE FALSE
      OBVIOUS
    <3>3. Len(fail[l]) \in Bad
      BY <3>1, <3>2
    <3>4. k <= Len(fail[l])
      BY <2>2, <3>3
    <3>. QED
      BY <2>3, <3>1, <3>2, <3>4
  <2>5. IsBest(Step(found, l), Append(l, ch), Len(l) + 1)
    BY <1>3, <2>4
  <2>. HIDE DEF Step
  <2>6. Right(found, l)
    BY <1>6, <2>5 DEF Right
  <2>. QED
    BY <2>3, <2>6
<1>. QED
  BY <1>7 DEF D, Right, found

Found(fail, n) ==
    LET ch == Last(n)
        found[m \in Shorter(Len(n))] ==
            IF HasChild(m, ch) THEN Append(m, ch)
            ELSE IF m = <<>> THEN <<>> ELSE found[fail[m]]
    IN found[fail[Front(n)]]

\* A node's link, given the links of shorter nodes.
LEMMA LinkIsBest ==
    ASSUME PhrasesAreWords, NEW n \in Nodes, NEW fail, LinksRight(fail, Len(n))
    PROVE  /\ n = <<>> => Len(n) <= 1
           /\ n # <<>> => IsBest(IF Len(n) <= 1 THEN <<>> ELSE Found(fail, n), n, Len(n) - 1)
<1>0. n \in Word /\ Len(n) \in Nat /\ Len(<<>>) = 0 /\ <<>> \in Nodes
  BY NodesAreWords, WordFacts
<1>1. CASE n = <<>>
  BY <1>0, <1>1
<1>2. CASE n # <<>> /\ Len(n) <= 1
  <2>1. Len(n) = 1
    <3>1. Len(n) # 0
      BY <1>0, <1>2, WordFacts
    <3>2. Len(n) \in Nat /\ Len(n) <= 1
      BY <1>0, <1>2
    <3>3. \A k \in Nat : k <= 1 /\ k # 0 => k = 1
      OBVIOUS
    <3>. QED
      BY <3>1, <3>2, <3>3
  <2>2. Ends(<<>>, n)
    BY <1>0, EndsBoth
  <2>3. \A l \in Nodes : Len(l) <= Len(n) - 1 => Len(l) <= Len(<<>>)
    BY <1>0, <2>1
  <2>. QED
    BY <1>0, <1>2, <2>1, <2>2, <2>3 DEF IsBest
<1>3. CASE Len(n) > 1
  <2>. DEFINE m == Front(n)
              ch == Last(n)
              r == fail[m]
  <2>1. n # <<>>
    BY <1>0, <1>3
  <2>2. m \in Nodes /\ m \in Word /\ Len(m) = Len(n) - 1 /\ ch \in Letter /\ Append(m, ch) = n
    BY <1>0, <2>1, NodesAreWords, FrontFacts
  <2>3. m # <<>> /\ Len(m) - 1 \in Nat /\ Len(m) \in Nat /\ Len(m) < Len(n)
    BY <1>0, <1>3, <2>2
  <2>4. IsBest(r, m, Len(m) - 1)
    BY <2>2, <2>3 DEF LinksRight
  <2>5. r \in Shorter(Len(n)) /\ Len(r) \in Nat
    <3>1. r \in Nodes /\ Len(r) <= Len(m) - 1 /\ Len(r) \in Nat
      BY <2>4, NodesAreWords, WordFacts DEF IsBest
    <3>. QED
      BY <1>0, <2>2, <2>3, <3>1 DEF Shorter
  <2>. HIDE DEF m, ch, r
  <2>6. IsBest(Found(fail, n), Append(r, ch), Len(r) + 1)
    BY <1>0, <2>2, <2>5, FoundIsBest DEF Found, m, ch, r
  <2>7. IsBest(Found(fail, n), Append(m, ch), Len(m) - 1 + 1)
    BY <2>2, <2>3, <2>4, <2>6, BestAppends
  <2>8. Len(m) - 1 + 1 = Len(n) - 1 /\ ~(Len(n) <= 1)
    BY <1>0, <1>3, <2>2
  <2>. QED
    BY <2>1, <2>2, <2>7, <2>8
<1>. QED
  BY <1>0, <1>1, <1>2, <1>3

LEMMA LinksAreBest ==
    ASSUME PhrasesAreWords
    PROVE  /\ FailLinks[<<>>] = <<>>
           /\ \A n \in Nodes : n # <<>> => IsBest(FailLinks[n], n, Len(n) - 1)
<1>. DEFINE Step(f, n) == IF Len(n) <= 1 THEN <<>> ELSE Found(f, n)
            fail == CHOOSE f : f = [n \in Nodes |-> Step(f, n)]
            Right(f, n) == IF n = <<>> THEN f[n] = <<>> ELSE IsBest(f[n], n, Len(n) - 1)
<1>0. ASSUME NEW n \in Nodes
      PROVE  n \in Word /\ Len(n) \in Nat /\ (n # <<>> => Len(n) - 1 \in Nat) /\ (n = <<>> => Len(n) = 0)
  BY NodesAreWords, WordFacts
<1>1. FailLinks = fail
  BY DEF FailLinks, Found, Shorter
<1>2. ASSUME NEW f, NEW n \in Nodes, \A m \in Nodes : Len(m) < Len(n) => Right(f, m)
      PROVE  IF n = <<>> THEN Step(f, n) = <<>> ELSE IsBest(Step(f, n), n, Len(n) - 1)
  <2>1. LinksRight(f, Len(n))
    BY <1>2 DEF LinksRight
  <2>. QED
    BY <1>0, <2>1, LinkIsBest
<1>. HIDE DEF Step
<1>3. \E f : f = [n \in Nodes |-> Step(f, n)]
  <2>. DEFINE f == [n \in Nodes |-> IF n = <<>> THEN <<>> ELSE CHOOSE q : IsBest(q, n, Len(n) - 1)]
  <2>1. ASSUME NEW n \in Nodes PROVE Right(f, n)
    <3>1. CASE n = <<>>
      BY <3>1
    <3>2. CASE n # <<>>
      <4>1. \E q : IsBest(q, n, Len(n) - 1)
        BY <1>0, <3>2, BestExists
      <4>2. IsBest(CHOOSE q : IsBest(q, n, Len(n) - 1), n, Len(n) - 1)
        BY <4>1
      <4>. QED
        BY <3>2, <4>2
    <3>. QED
      BY <3>1, <3>2
  <2>2. f = [n \in Nodes |-> f[n]]
    OBVIOUS
  <2>. HIDE DEF f
  <2>3. ASSUME NEW n \in Nodes PROVE f[n] = Step(f, n)
    <3>1. IF n = <<>> THEN Step(f, n) = <<>> ELSE IsBest(Step(f, n), n, Len(n) - 1)
      BY <1>2, <2>1
    <3>2. CASE n = <<>>
      BY <2>1, <3>1, <3>2
    <3>3. CASE n # <<>>
      <4>1. IsBest(f[n], n, Len(n) - 1) /\ IsBest(Step(f, n), n, Len(n) - 1)
        BY <2>1, <3>1, <3>3
      <4>. QED
        BY <1>0, <3>3, <4>1, BestIsUnique
    <3>. QED
      BY <3>2, <3>3
  <2>. QED
    BY <2>2, <2>3
<1>4. fail = [n \in Nodes |-> Step(fail, n)]
  BY <1>3
<1>. HIDE DEF fail
<1>5. ASSUME NEW n \in Nodes PROVE fail[n] = Step(fail, n)
  BY <1>4
<1>. HIDE DEF Right
<1>6. ASSUME NEW n \in Nodes PROVE Right(fail, n)
  <2>. SUFFICES ASSUME ~Right(fail, n) PROVE FALSE
    OBVIOUS
  <2>. DEFINE Bad == {k \in Nat : \E l \in Nodes : ~Right(fail, l) /\ k = Len(l)}
  <2>1. Len(n) \in Bad
    BY <1>0
  <2>2. PICK k \in Bad : \A j \in Bad : k <= j
    <3>1. Bad \subseteq Nat
      OBVIOUS
    <3>. HIDE DEF Bad
    <3>. QED
      BY <2>1, <3>1, LeastBound
  <2>3. PICK l \in Nodes : ~Right(fail, l) /\ k = Len(l)
    BY <2>2
  <2>4. ASSUME NEW m \in Nodes, Len(m) < Len(l) PROVE Right(fail, m)
    <3>1. Len(m) \in Nat /\ Len(l) \in Nat
      BY <1>0
    <3>. SUFFICES ASSUME ~Right(fail, m) PROVE FALSE
      OBVIOUS
    <3>2. Len(m) \in Bad
      BY <3>1
    <3>. QED
      BY <2>2, <2>3, <2>4, <3>1, <3>2
  <2>5. IF l = <<>> THEN Step(fail, l) = <<>> ELSE IsBest(Step(fail, l), l, Len(l) - 1)
    BY <1>2, <2>4
  <2>. QED
    BY <1>5, <2>3, <2>5 DEF Right
<1>. QED
  BY <1>1, <1>6, NodesAreWords DEF Right

\* The phrases that end in n.
LEMMA OutputsEnd ==
    ASSUME PhrasesAreWords
    PROVE  \A n \in Nodes : Outputs[n] = {p \in phrases : Ends(Letters(p), n)}
<1>. DEFINE Own(n) == {p \in phrases : Letters(p) = n}
            Step(f, n) == Own(n) \union (IF n = <<>> THEN {} ELSE f[FailLinks[n]])
            out == CHOOSE f : f = [n \in Nodes |-> Step(f, n)]
            Ending(n) == {p \in phrases : Ends(Letters(p), n)}
<1>0. ASSUME NEW n \in Nodes
      PROVE  n \in Word /\ Len(n) \in Nat /\ (n # <<>> => Len(n) > 0) /\ (n = <<>> => Len(n) = 0)
  BY NodesAreWords, WordFacts
<1>1. Outputs = out
  BY DEF Outputs
<1>2. ASSUME NEW n \in Nodes, n # <<>>
      PROVE  FailLinks[n] \in Nodes /\ Len(FailLinks[n]) < Len(n)
  <2>1. IsBest(FailLinks[n], n, Len(n) - 1)
    BY <1>2, LinksAreBest
  <2>2. FailLinks[n] \in Nodes /\ Len(FailLinks[n]) <= Len(n) - 1
    BY <2>1 DEF IsBest
  <2>. QED
    BY <1>0, <1>2, <2>2
<1>3. ASSUME NEW n \in Nodes, NEW f, n # <<>> => f[FailLinks[n]] = Ending(FailLinks[n])
      PROVE  Step(f, n) = Ending(n)
  <2>1. ASSUME NEW p \in phrases PROVE p \in Step(f, n) <=> Ends(Letters(p), n)
    <3>. DEFINE w == Letters(p)
    <3>1. w \in Word /\ w # <<>> /\ w \in Nodes /\ Len(w) \in Nat /\ Len(w) > 0
      BY NodesAreWords, WordFacts DEF PhrasesAreWords
    <3>2. CASE n = <<>>
      <4>1. ~Ends(w, n) /\ w # n
        BY <1>0, <3>1, <3>2 DEF Ends
      <4>. QED
        BY <3>2, <4>1
    <3>3. CASE n # <<>>
      <4>. DEFINE link == FailLinks[n]
      <4>1. IsBest(link, n, Len(n) - 1) /\ link \in Nodes /\ link \in Word /\ Len(link) \in Nat
        BY <1>0, <1>2, <3>3, LinksAreBest
      <4>2. p \in Step(f, n) <=> w = n \/ Ends(w, link)
        BY <1>3, <3>3
      <4>. HIDE DEF w, link
      <4>3. Ends(w, link) => Ends(w, n)
        BY <1>0, <3>1, <4>1, EndsBoth DEF IsBest
      <4>4. w = n => Ends(w, n)
        BY <1>0, EndsBoth
      <4>5. ASSUME Ends(w, n), w # n PROVE Ends(w, link)
        <5>1. Len(w) # Len(n) /\ Len(w) <= Len(n)
          BY <1>0, <3>1, <4>5, EndsBoth DEF Ends
        <5>2. Len(w) <= Len(n) - 1
          BY <1>0, <3>1, <5>1
        <5>3. Len(w) <= Len(link)
          BY <3>1, <4>1, <4>5, <5>2 DEF IsBest
        <5>. QED
          BY <1>0, <3>1, <4>1, <4>5, <5>3, EndsBoth DEF IsBest
      <4>. QED
        BY <4>2, <4>3, <4>4, <4>5 DEF w
    <3>. QED
      BY <3>2, <3>3
  <2>2. Step(f, n) \subseteq phrases
    BY <1>3
  <2>. HIDE DEF Step
  <2>. QED
    BY <2>1, <2>2
<1>. HIDE DEF Step, Ending
<1>4. \E f : f = [n \in Nodes |-> Step(f, n)]
  <2>. DEFINE f == [n \in Nodes |-> Ending(n)]
  <2>1. ASSUME NEW n \in Nodes PROVE Step(f, n) = Ending(n)
    <3>1. n # <<>> => f[FailLinks[n]] = Ending(FailLinks[n])
      BY <1>2
    <3>. HIDE DEF f
    <3>. QED
      BY <1>3, <3>1
  <2>. QED
    BY <2>1
<1>5. out = [n \in Nodes |-> Step(out, n)]
  BY <1>4
<1>. HIDE DEF out
<1>6. ASSUME NEW n \in Nodes PROVE out[n] = Step(out, n)
  BY <1>5
<1>7. ASSUME NEW n \in Nodes PROVE out[n] = Ending(n)
  <2>. SUFFICES ASSUME out[n] # Ending(n) PROVE FALSE
    OBVIOUS
  <2>. DEFINE Bad == {k \in Nat : \E l \in Nodes : out[l] # Ending(l) /\ k = Len(l)}
  <2>1. Len(n) \in Bad
    BY <1>0
  <2>2. PICK k \in Bad : \A j \in Bad : k <= j
    <3>1. Bad \subseteq Nat
      OBVIOUS
    <3>. HIDE DEF Bad
    <3>. QED
      BY <2>1, <3>1, LeastBound
  <2>3. PICK l \in Nodes : out[l] # Ending(l) /\ k = Len(l)
    BY <2>2
  <2>4. ASSUME l # <<>> PROVE out[FailLinks[l]] = Ending(FailLinks[l])
    <3>1. FailLinks[l] \in Nodes /\ Len(FailLinks[l]) < Len(l)
      BY <1>2, <2>4
    <3>2. Len(FailLinks[l]) \in Nat /\ Len(l) \in Nat
      BY <1>0, <3>1
    <3>. SUFFICES ASSUME out[FailLinks[l]] # Ending(FailLinks[l]) PROVE FALSE
      OBVIOUS
    <3>3. Len(FailLinks[l]) \in Bad
      BY <3>1, <3>2
    <3>. QED
      BY <2>2, <2>3, <3>1, <3>2, <3>3
  <2>. QED
    BY <1>3, <1>6, <2>3, <2>4
<1>. QED
  BY <1>1, <1>7 DEF Ending

-----------------------------------------------------------------------------
(* Occurrences *)

Places(s, text) ==
    {i \in 1..Len(text) : i + Len(s) - 1 <= Len(text) /\ SubSeq(text, i, i + Len(s) - 1) = s}

LEMMA IsAtPlace ==
    ASSUME NEW s \in Word, NEW text \in Word, NEW i \in 1..Len(text), i + Len(s) - 1 <= Len(text)
    PROVE  SubSeq(text, i, i + Len(s) - 1) = s <=> \A j \in 1..Len(s) : text[i + j - 1] = s[j]
<1>1. Len(s) \in Nat /\ Len(text) \in Nat /\ i \in Int /\ \A j \in 1..Len(text) : text[j] \in Letter
  BY WordFacts
<1>. DEFINE k == i + Len(s) - 1
            part == SubSeq(text, i, k)
<1>2. k \in Int /\ k - i + 1 = Len(s) /\ (i <= k \/ Len(s) = 0) /\ \A j \in i..k : j \in 1..Len(text)
  BY <1>1
<1>. HIDE DEF k
<1>3. /\ part \in Seq(Letter) /\ Len(part) = (IF i <= k THEN k - i + 1 ELSE 0)
      /\ \A j \in 1..k - i + 1 : part[j] = text[i + j - 1]
  <2>1. \A j \in i..k : text[j] \in Letter
    BY <1>1, <1>2
  <2>. QED
    BY <1>1, <1>2, <2>1, SubSeqProperties
<1>. HIDE DEF part
<1>4. part \in Word /\ Len(part) = Len(s) /\ \A j \in 1..Len(s) : part[j] = text[i + j - 1]
  <2>1. Len(part) = Len(s)
    BY <1>1, <1>2, <1>3
  <2>. QED
    BY <1>2, <1>3, <2>1 DEF Word
<1>5. (\A j \in 1..Len(s) : part[j] = s[j]) => part = s
  BY <1>4, SeqEqual DEF Word
<1>6. part = s <=> \A j \in 1..Len(s) : text[i + j - 1] = s[j]
  BY <1>4, <1>5
<1>. QED
  BY <1>6 DEF part, k

LEMMA OccurrencesAdvance ==
    ASSUME NEW s \in Word, s # <<>>, NEW text \in Word, NEW ch \in Letter
    PROVE  /\ Occurrences(s, text) \in Nat /\ Occurrences(s, <<>>) = 0
           /\ Occurrences(s, Append(text, ch)) =
                Occurrences(s, text) + IF Ends(s, Append(text, ch)) THEN 1 ELSE 0
<1>. DEFINE more == Append(text, ch)
            last == Len(text) + 2 - Len(s)
<1>1. /\ Len(s) \in Nat /\ Len(s) > 0 /\ Len(text) \in Nat
      /\ more \in Word /\ Len(more) = Len(text) + 1 /\ \A i \in 1..Len(text) : more[i] = text[i]
  BY WordFacts, AppendFacts
<1>2. \A w : Occurrences(s, w) = Cardinality(Places(s, w))
  BY DEF Occurrences, Places
<1>3. IsFiniteSet(Places(s, text)) /\ Cardinality(Places(s, text)) \in Nat
  <2>1. IsFiniteSet(1..Len(text))
    BY <1>1, FS_Interval
  <2>2. IsFiniteSet(Places(s, text))
    BY <2>1, FS_Subset DEF Places
  <2>. QED
    BY <2>2, FS_CardinalityType
<1>4. Cardinality(Places(s, <<>>)) = 0
  <2>1. Places(s, <<>>) = {}
    BY WordFacts DEF Places
  <2>. QED
    BY <2>1, FS_EmptySet
<1>. HIDE DEF more
<1>5. ASSUME NEW i \in 1..Len(more), i + Len(s) - 1 <= Len(more), i # last
      PROVE  i \in Places(s, more) <=> i \in Places(s, text)
  <2>1. i + Len(s) - 1 <= Len(text) /\ i \in 1..Len(text)
    BY <1>1, <1>5
  <2>2. i \in Places(s, more) <=> \A j \in 1..Len(s) : more[i + j - 1] = s[j]
    BY <1>1, <1>5, IsAtPlace DEF Places
  <2>3. i \in Places(s, text) <=> \A j \in 1..Len(s) : text[i + j - 1] = s[j]
    BY <1>1, <2>1, IsAtPlace DEF Places
  <2>4. ASSUME NEW j \in 1..Len(s) PROVE more[i + j - 1] = text[i + j - 1]
    <3>1. i + j - 1 \in 1..Len(text)
      BY <1>1, <2>1
    <3>. QED
      BY <1>1, <3>1
  <2>. QED
    BY <2>2, <2>3, <2>4
<1>6. last \notin Places(s, text)
  BY <1>1 DEF Places
<1>7. last \in Places(s, more) <=> Ends(s, more)
  <2>1. CASE last < 1
    <3>1. last \notin 1..Len(more) /\ ~(Len(s) <= Len(more))
      BY <1>1, <2>1
    <3>. HIDE DEF last
    <3>. QED
      BY <3>1 DEF Places, Ends
  <2>2. CASE last >= 1
    <3>1. last \in 1..Len(more) /\ last + Len(s) - 1 = Len(more) /\ Len(s) <= Len(more)
      BY <1>1, <2>2
    <3>. HIDE DEF last
    <3>2. last \in Places(s, more) <=> \A j \in 1..Len(s) : more[last + j - 1] = s[j]
      <4>1. last + Len(s) - 1 <= Len(more)
        BY <1>1, <3>1
      <4>2. last \in Places(s, more) <=> SubSeq(more, last, last + Len(s) - 1) = s
        BY <3>1, <4>1 DEF Places
      <4>. QED
        BY <1>1, <3>1, <4>1, <4>2, IsAtPlace
    <3>3. ASSUME \A j \in 1..Len(s) : more[last + j - 1] = s[j] PROVE Ends(s, more)
      <4>1. ASSUME NEW j \in 0..Len(s) - 1 PROVE s[Len(s) - j] = more[Len(more) - j]
        <5>1. Len(s) - j \in 1..Len(s) /\ last + (Len(s) - j) - 1 = Len(more) - j
          BY <1>1, <3>1
        <5>. QED
          BY <3>3, <5>1
      <4>. QED
        BY <3>1, <4>1 DEF Ends
    <3>4. ASSUME Ends(s, more), NEW j \in 1..Len(s) PROVE more[last + j - 1] = s[j]
      <4>1. Len(s) - j \in 0..Len(s) - 1 /\ Len(s) - (Len(s) - j) = j /\ Len(more) - (Len(s) - j) = last + j - 1
        BY <1>1, <3>1
      <4>2. s[Len(s) - (Len(s) - j)] = more[Len(more) - (Len(s) - j)]
        BY <3>4, <4>1 DEF Ends
      <4>. QED
        BY <4>1, <4>2
    <3>. QED
      BY <3>2, <3>3, <3>4
  <2>. QED
    BY <1>1, <2>1, <2>2
<1>8. Places(s, text) \subseteq Places(s, more)
  <2>. SUFFICES ASSUME NEW i \in Places(s, text) PROVE i \in Places(s, more)
    OBVIOUS
  <2>1. i \in 1..Len(text) /\ i + Len(s) - 1 <= Len(text)
    BY DEF Places
  <2>2. i \in 1..Len(more) /\ i + Len(s) - 1 <= Len(more) /\ i # last
    BY <1>1, <2>1
  <2>. QED
    BY <1>5, <2>2
<1>9. Places(s, more) \subseteq Places(s, text) \union {last}
  <2>. SUFFICES ASSUME NEW i \in Places(s, more), i # last PROVE i \in Places(s, text)
    OBVIOUS
  <2>1. i \in 1..Len(more) /\ i + Len(s) - 1 <= Len(more)
    BY DEF Places
  <2>. HIDE DEF last
  <2>. QED
    BY <1>5, <2>1
<1>. HIDE DEF last
<1>10. CASE Ends(s, more)
  <2>1. Places(s, more) = Places(s, text) \union {last}
    BY <1>7, <1>8, <1>9, <1>10
  <2>2. Cardinality(Places(s, more)) = Cardinality(Places(s, text)) + 1
    BY <1>3, <1>6, <2>1, FS_AddElement
  <2>. QED
    BY <1>2, <1>3, <1>4, <1>10, <2>2 DEF more
<1>11. CASE ~Ends(s, more)
  <2>1. Places(s, more) = Places(s, text)
    BY <1>7, <1>8, <1>9, <1>11
  <2>. QED
    BY <1>2, <1>3, <1>4, <1>11, <2>1 DEF more
<1>. QED
  BY <1>10, <1>11

-----------------------------------------------------------------------------
(* The search *)

ReadSoFar == Letters(SubSeq(searched, 1, pos - 1))

SearchTypes ==
    /\ PhrasesAreWords
    /\ searched \in Seq(Range(searched))
    /\ pos \in 1..Len(searched) + 1
    /\ node \in Nodes

\* The longer nodes that end what has been read have been tried and left.
NodeIsBest ==
    /\ Ends(node, ReadSoFar)
    /\ \A m \in Nodes : Ends(m, ReadSoFar) /\ Len(m) > Len(node) =>
          pos <= Len(searched) /\ searched[pos] \in Letter /\ ~HasChild(m, searched[pos])

SearchInv == SearchTypes /\ NodeIsBest /\ CountsOccurrences

LEMMA OccurrencesAtStart == ASSUME NEW s PROVE Occurrences(s, <<>>) = 0
<1>1. Places(s, <<>>) = {}
  BY EmptySeq DEF Places
<1>. QED
  BY <1>1, FS_EmptySet DEF Occurrences, Places

LEMMA ReadFacts ==
    ASSUME SearchTypes
    PROVE  /\ Len(searched) \in Nat /\ pos \in Nat /\ pos > 0
           /\ ReadSoFar \in Word /\ (pos = 1 => ReadSoFar = <<>>)
           /\ pos <= Len(searched) =>
                Letters(SubSeq(searched, 1, pos)) =
                   IF searched[pos] \in Letter THEN Append(ReadSoFar, searched[pos]) ELSE ReadSoFar
<1>. DEFINE S == Range(searched)
<1>1. searched \in Seq(S) /\ Len(searched) \in Nat /\ pos \in 1..Len(searched) + 1
  BY LenProperties DEF SearchTypes
<1>. HIDE DEF S
<1>2. pos - 1 \in 0..Len(searched)
  BY <1>1
<1>3. ReadSoFar \in Word /\ Letters(SubSeq(searched, 1, 0)) = <<>>
  BY <1>1, <1>2, LettersAdvance DEF ReadSoFar
<1>4. pos = 1 => pos - 1 = 0
  OBVIOUS
<1>5. ASSUME pos <= Len(searched)
      PROVE  Letters(SubSeq(searched, 1, pos)) =
                IF searched[pos] \in Letter THEN Append(ReadSoFar, searched[pos]) ELSE ReadSoFar
  <2>1. pos \in 0..Len(searched) /\ pos > 0
    BY <1>1, <1>5
  <2>. QED
    BY <1>1, <2>1, LettersAdvance DEF ReadSoFar
<1>. QED
  BY <1>1, <1>3, <1>4, <1>5 DEF ReadSoFar

LEMMA NodeFacts ==
    ASSUME SearchTypes PROVE \A m \in Nodes : m \in Word /\ Len(m) \in Nat
BY NodesAreWords, WordFacts DEF SearchTypes

LEMMA SearchBegins == SearchInit => SearchInv
<1>. SUFFICES ASSUME SearchInit PROVE SearchInv
  OBVIOUS
<1>1. <<>> \in Seq(Range(<<>>)) /\ Len(<<>>) = 0 /\ <<>> \in Word
  BY EmptySeq DEF Word
<1>2. SearchTypes
  BY <1>1 DEF SearchInit, SearchTypes, PhrasesAreWords, Nodes
<1>3. ReadSoFar = <<>>
  BY <1>2, ReadFacts DEF SearchInit
<1>4. Ends(<<>>, <<>>)
  BY <1>1, EndsBoth
<1>5. \A m \in Nodes : Ends(m, <<>>) => Len(m) <= 0
  BY <1>1 DEF Ends
<1>6. \A m \in Nodes : Len(m) \in Nat
  BY <1>2, NodeFacts
<1>7. NodeIsBest
  BY <1>1, <1>3, <1>4, <1>5, <1>6 DEF NodeIsBest, SearchInit
<1>8. CountsOccurrences
  BY DEF CountsOccurrences, SearchInit
<1>. QED
  BY <1>2, <1>7, <1>8 DEF SearchInv

LEMMA StartSearchKeeps ==
    ASSUME SearchInv, NEW ps \in PhraseSets, NEW text \in Texts, StartSearch(ps, text)
    PROVE  SearchInv'
<1>1. /\ searched = <<>> /\ phrases' = ps /\ searched' = text
      /\ counted' = [p \in ps |-> 0] /\ pos' = pos /\ node' = node
  BY DEF StartSearch
<1>2. <<>> \in Word /\ Len(<<>>) = 0
  BY EmptySeq DEF Word
<1>3. pos = 1
  BY <1>1, <1>2 DEF SearchInv, SearchTypes
<1>4. node = <<>>
  <2>1. ReadSoFar = <<>>
    BY <1>3, ReadFacts DEF SearchInv
  <2>2. Len(node) <= 0 /\ node \in Word /\ Len(node) \in Nat
    BY <1>2, <2>1, NodeFacts DEF SearchInv, SearchTypes, NodeIsBest, Ends
  <2>3. Len(node) = 0
    BY <2>2
  <2>. QED
    BY <2>2, <2>3, WordFacts
<1>5. ASSUME NEW p \in ps PROVE Letters(p) \in Word /\ Letters(p) # <<>>
  <2>1. p \in Seq(Range(p)) /\ Letters(p) # <<>>
    BY PhraseAssumption
  <2>2. Len(p) \in Nat
    BY <2>1, LenProperties
  <2>3. Len(p) \in 0..Len(p)
    BY <2>2
  <2>4. Letters(p) = Kept(p)[Len(p)] /\ Kept(p)[Len(p)] \in Word
    BY <2>2, <2>3, KeptUnfolds, KeptAreLetters
  <2>. QED
    BY <2>1, <2>4
<1>6. text \in Seq(Range(text)) /\ Len(text) \in Nat
  BY PhraseAssumption, LenProperties
<1>7. 1 \in 1..Len(text) + 1
  BY <1>6
<1>8. SearchTypes'
  BY <1>1, <1>3, <1>4, <1>5, <1>6, <1>7 DEF SearchTypes, PhrasesAreWords, Nodes
<1>9. ReadSoFar' = <<>>
  <2>1. Letters(SubSeq(text, 1, 0)) = <<>>
    <3>1. 0 \in 0..Len(text)
      BY <1>6
    <3>. QED
      BY <1>6, <3>1, LettersAdvance
  <2>2. pos - 1 = 0
    BY <1>3
  <2>. QED
    BY <1>1, <2>1, <2>2 DEF ReadSoFar
<1>10. NodeIsBest'
  <2>1. Ends(<<>>, <<>>)
    BY <1>2, EndsBoth
  <2>2. \A m : Ends(m, <<>>) => Len(m) <= 0
    BY <1>2 DEF Ends
  <2>3. (\A m \in Nodes : Len(m) \in Nat)'
    BY <1>8, NodeFacts
  <2>4. \A m \in Nodes' : Ends(m, <<>>) => ~(Len(m) > Len(<<>>))
    BY <1>2, <2>2, <2>3
  <2>. QED
    BY <1>1, <1>4, <1>9, <2>1, <2>4 DEF NodeIsBest
<1>11. CountsOccurrences'
  <2>1. ASSUME NEW p \in ps PROVE Occurrences(Letters(p), <<>>) = 0
    BY <1>2, <1>5, OccurrencesAtStart
  <2>2. \A p \in ps : counted'[p] = 0
    BY <1>1
  <2>3. Letters(SubSeq(searched', 1, pos' - 1)) = <<>>
    BY <1>9 DEF ReadSoFar
  <2>. QED
    BY <1>1, <2>1, <2>2, <2>3 DEF CountsOccurrences
<1>. QED
  BY <1>8, <1>10, <1>11 DEF SearchInv

LEMMA SkipKeeps == ASSUME SearchInv, Skip PROVE SearchInv'
<1>1. /\ pos <= Len(searched) /\ searched[pos] \notin Letter /\ pos' = pos + 1
      /\ UNCHANGED <<phrases, searched, node, counted>>
  BY DEF Skip, Reads
<1>2. ReadSoFar' = ReadSoFar
  <2>1. Letters(SubSeq(searched, 1, pos)) = ReadSoFar /\ pos \in Nat
    BY <1>1, ReadFacts DEF SearchInv
  <2>2. pos' - 1 = pos
    BY <1>1, <2>1
  <2>. QED
    BY <1>1, <2>1, <2>2 DEF ReadSoFar
<1>3. Nodes' = Nodes
  BY <1>1 DEF Nodes
<1>4. SearchTypes'
  <2>1. pos' \in 1..Len(searched) + 1
    BY <1>1, ReadFacts DEF SearchInv, SearchTypes
  <2>. QED
    BY <1>1, <1>3, <2>1 DEF SearchInv, SearchTypes, PhrasesAreWords
<1>5. NodeIsBest'
  <2>1. ASSUME NEW m \in Nodes, Ends(m, ReadSoFar) PROVE ~(Len(m) > Len(node))
    BY <1>1, <2>1 DEF SearchInv, NodeIsBest
  <2>. QED
    BY <1>1, <1>2, <1>3, <2>1 DEF SearchInv, NodeIsBest
<1>6. CountsOccurrences'
  BY <1>1, <1>2 DEF SearchInv, CountsOccurrences, ReadSoFar
<1>. QED
  BY <1>4, <1>5, <1>6 DEF SearchInv

LEMMA FollowFailKeeps == ASSUME SearchInv, FollowFail PROVE SearchInv'
<1>1. /\ pos <= Len(searched) /\ searched[pos] \in Letter /\ ~HasChild(node, searched[pos])
      /\ node' = FailLinks[node] /\ UNCHANGED <<phrases, searched, pos, counted>>
  BY DEF FollowFail, Reads
<1>2. Nodes' = Nodes /\ ReadSoFar' = ReadSoFar
  BY <1>1 DEF Nodes, ReadSoFar
<1>3. node \in Nodes /\ PhrasesAreWords /\ ReadSoFar \in Word /\ <<>> \in Nodes
      /\ \A m \in Nodes : m \in Word /\ Len(m) \in Nat
  BY NodeFacts, NodesAreWords, ReadFacts DEF SearchInv, SearchTypes
<1>4. CASE node = <<>>
  <2>1. node' = node
    BY <1>1, <1>3, <1>4, LinksAreBest
  <2>2. SearchTypes'
    BY <1>1, <1>2, <2>1 DEF SearchInv, SearchTypes, PhrasesAreWords
  <2>3. NodeIsBest'
    BY <1>1, <1>2, <2>1 DEF SearchInv, NodeIsBest, HasChild
  <2>. QED
    BY <1>1, <2>2, <2>3 DEF SearchInv, CountsOccurrences
<1>5. CASE node # <<>>
  <2>. DEFINE link == FailLinks[node]
  <2>1. IsBest(link, node, Len(node) - 1)
    BY <1>3, <1>5, LinksAreBest
  <2>2. link \in Nodes /\ Ends(link, node) /\ Len(link) <= Len(node) - 1
    BY <2>1 DEF IsBest
  <2>3. Ends(link, ReadSoFar)
    BY <1>3, <2>2, EndsBoth DEF SearchInv, NodeIsBest
  <2>4. SearchTypes'
    BY <1>1, <1>2, <2>2 DEF SearchInv, SearchTypes, PhrasesAreWords
  <2>5. ASSUME NEW m \in Nodes, Ends(m, ReadSoFar), Len(m) > Len(link)
        PROVE  pos <= Len(searched) /\ searched[pos] \in Letter /\ ~HasChild(m, searched[pos])
    <3>. HIDE DEF link
    <3>1. CASE Len(m) > Len(node)
      BY <2>5, <3>1 DEF SearchInv, NodeIsBest
    <3>2. CASE Len(m) = Len(node)
      <4>1. Ends(node, ReadSoFar)
        BY DEF SearchInv, NodeIsBest
      <4>2. Len(m) <= Len(node)
        BY <1>3, <3>2
      <4>3. Ends(m, node)
        BY <1>3, <2>5, <4>1, <4>2, EndsBoth
      <4>4. m = node
        BY <1>3, <3>2, <4>3, EndsBoth
      <4>. QED
        BY <1>1, <4>4
    <3>3. CASE Len(m) < Len(node)
      <4>1. Ends(node, ReadSoFar) /\ Len(m) <= Len(node) /\ Len(m) <= Len(node) - 1
        BY <1>3, <3>3 DEF SearchInv, NodeIsBest
      <4>2. Ends(m, node)
        BY <1>3, <2>5, <4>1, EndsBoth
      <4>3. Len(m) <= Len(link)
        BY <2>1, <4>1, <4>2 DEF IsBest
      <4>. QED
        BY <1>3, <2>2, <2>5, <4>3
    <3>. QED
      BY <1>3, <3>1, <3>2, <3>3
  <2>6. NodeIsBest'
    BY <1>1, <1>2, <2>3, <2>5 DEF NodeIsBest, HasChild
  <2>. QED
    BY <1>1, <2>4, <2>6 DEF SearchInv, CountsOccurrences
<1>. QED
  BY <1>4, <1>5

LEMMA AdvanceKeeps == ASSUME SearchInv, Advance PROVE SearchInv'
<1>. DEFINE ch == searched[pos]
            next == Append(node, ch)
<1>1. /\ pos <= Len(searched) /\ ch \in Letter /\ HasChild(node, ch) /\ node' = next
      /\ counted' = [p \in phrases |-> counted[p] + IF p \in Outputs[next] THEN 1 ELSE 0]
      /\ pos' = pos + 1 /\ UNCHANGED <<phrases, searched>>
  BY DEF Advance, Reads
<1>2. Nodes' = Nodes
  BY <1>1 DEF Nodes
<1>3. /\ node \in Nodes /\ PhrasesAreWords /\ ReadSoFar \in Word /\ next \in Nodes
      /\ \A m \in Nodes : m \in Word /\ Len(m) \in Nat
  BY <1>1, NodeFacts, ReadFacts DEF SearchInv, SearchTypes, HasChild
<1>4. ReadSoFar' = Append(ReadSoFar, ch)
  <2>1. Letters(SubSeq(searched, 1, pos)) = Append(ReadSoFar, ch) /\ pos \in Nat
    BY <1>1, ReadFacts DEF SearchInv
  <2>2. pos' - 1 = pos
    BY <1>1, <2>1
  <2>. QED
    BY <1>1, <2>1, <2>2 DEF ReadSoFar
<1>. DEFINE read == Append(ReadSoFar, ch)
<1>5. read \in Word /\ Ends(next, read) /\ Len(next) = Len(node) + 1
  BY <1>1, <1>3, AppendFacts, EndsAppend DEF SearchInv, NodeIsBest
<1>6. ASSUME NEW m \in Nodes, Ends(m, read) PROVE Len(m) <= Len(next)
  <2>. SUFFICES ASSUME Len(m) > Len(next) PROVE FALSE
    BY <1>3
  <2>. DEFINE k == Front(m)
  <2>1. m # <<>> /\ m \in Word
    BY <1>3, WordFacts
  <2>2. k \in Nodes /\ m = Append(k, ch) /\ Ends(k, ReadSoFar) /\ Len(k) = Len(m) - 1
    BY <1>1, <1>3, <1>6, <2>1, NodesAreWords, FrontFacts, EndsAppend
  <2>. HIDE DEF k, ch, read, next
  <2>3. Len(k) > Len(node)
    BY <1>3, <1>5, <2>2
  <2>4. ~HasChild(k, ch)
    BY <2>2, <2>3 DEF SearchInv, NodeIsBest, ch
  <2>. QED
    BY <2>2, <2>4 DEF HasChild
<1>7. SearchTypes'
  <2>1. pos' \in 1..Len(searched) + 1
    BY <1>1, ReadFacts DEF SearchInv, SearchTypes
  <2>. QED
    BY <1>1, <1>2, <1>3, <2>1 DEF SearchInv, SearchTypes, PhrasesAreWords
<1>8. NodeIsBest'
  <2>1. \A m \in Nodes : Ends(m, read) => ~(Len(m) > Len(next))
    BY <1>3, <1>6
  <2>. QED
    BY <1>1, <1>2, <1>4, <1>5, <2>1 DEF NodeIsBest
<1>9. CountsOccurrences'
  <2>1. ASSUME NEW p \in phrases
        PROVE  counted'[p] = Occurrences(Letters(p), read)
    <3>. DEFINE w == Letters(p)
    <3>1. w \in Word /\ w # <<>> /\ w \in Nodes
      BY <1>3, NodesAreWords DEF PhrasesAreWords
    <3>2. p \in Outputs[next] <=> Ends(w, next)
      BY <1>3, OutputsEnd
    <3>3. Ends(w, next) <=> Ends(w, read)
      <4>1. Ends(w, next) => Ends(w, read)
        BY <1>3, <1>5, <3>1, EndsBoth
      <4>2. Ends(w, read) => Len(w) <= Len(next)
        BY <1>6, <3>1
      <4>3. Ends(w, read) => Ends(w, next)
        BY <1>3, <1>5, <3>1, <4>2, EndsBoth
      <4>. QED
        BY <4>1, <4>3
    <3>4. counted[p] = Occurrences(w, ReadSoFar)
      BY DEF SearchInv, CountsOccurrences, ReadSoFar
    <3>5. Occurrences(w, read) = Occurrences(w, ReadSoFar) + IF Ends(w, read) THEN 1 ELSE 0
      BY <1>1, <1>3, <3>1, OccurrencesAdvance
    <3>6. counted'[p] = counted[p] + IF p \in Outputs[next] THEN 1 ELSE 0
      BY <1>1
    <3>. HIDE DEF w, read, next
    <3>. QED
      BY <3>2, <3>3, <3>4, <3>5, <3>6 DEF w
  <2>2. Letters(SubSeq(searched', 1, pos' - 1)) = read
    BY <1>4 DEF ReadSoFar
  <2>. HIDE DEF read
  <2>. QED
    BY <1>1, <2>1, <2>2 DEF CountsOccurrences
<1>. QED
  BY <1>7, <1>8, <1>9 DEF SearchInv

LEMMA SearchStep == SearchInv /\ [SearchNext]_searchVars => SearchInv'
<1>. SUFFICES ASSUME SearchInv, [SearchNext]_searchVars PROVE SearchInv'
  OBVIOUS
<1>1. CASE UNCHANGED searchVars
  BY <1>1 DEF searchVars, SearchInv, SearchTypes, PhrasesAreWords, NodeIsBest, CountsOccurrences,
              Nodes, HasChild, ReadSoFar
<1>. QED
  BY <1>1, StartSearchKeeps, SkipKeeps, FollowFailKeeps, AdvanceKeeps DEF SearchNext

-----------------------------------------------------------------------------
(* TopicClusters: the topics, and what repeats them *)

TopicRecord == [phrases : SUBSET TopicPhrase, centroid : Nat]

TopicTypes ==
    /\ clusters \in [Cluster -> TopicRecord] /\ clusterRows \in [Cluster -> TopicRecord]
    /\ phraseToCluster \in [TopicPhrase -> Cluster \union {NoCluster}]
    /\ signatures \in [Cluster -> Nat]
    /\ todo \in Seq(TopicPhrase)

\* In memory each phrase is in the cluster that phraseToCluster names, and no other.
PhrasesFiled == \A c \in Cluster, p \in TopicPhrase :
    p \in clusters[c].phrases <=> phraseToCluster[p] = c

\* A row never has a phrase that the cluster in memory lacks.
RowsBehind == \A c \in Cluster : clusterRows[c].phrases \subseteq clusters[c].phrases

TopicInv ==
    /\ TopicTypes /\ PhrasesFiled /\ RowsBehind /\ ViewsAgree /\ TopicsSurvive

\* What the phrases are filed under is one topic, in memory and in the rows.
LEMMA FiledIsOne == TopicInv => OneTopicPerPhrase
<1>. SUFFICES ASSUME TopicInv PROVE OneTopicPerPhrase
  OBVIOUS
<1>. USE DEF TopicInv
<1>1. \A p \in TopicPhrase : TopicsOf(clusters)[p] = {phraseToCluster[p]} \ {NoCluster}
  BY TopicAssumption DEF TopicsOf, PhrasesFiled, TopicTypes
<1>2. ASSUME NEW p \in TopicPhrase PROVE Cardinality(TopicsOf(clusterRows)[p]) <= 1
  <2>1. TopicsOf(clusterRows)[p] \subseteq {phraseToCluster[p]}
    BY DEF TopicsOf, PhrasesFiled, RowsBehind
  <2>2. TopicsOf(clusterRows)[p] = {} \/ TopicsOf(clusterRows)[p] = {phraseToCluster[p]}
    BY <2>1
  <2>3. Cardinality({}) = 0 /\ Cardinality({phraseToCluster[p]}) = 1
    BY FS_EmptySet, FS_Singleton
  <2>. HIDE DEF TopicsOf
  <2>. QED
    BY <2>2, <2>3
<1>. QED
  BY <1>1, <1>2 DEF OneTopicPerPhrase

LEMMA TopicsBegin == TopicInit => TopicInv
<1>. SUFFICES ASSUME TopicInit PROVE TopicInv
  OBVIOUS
<1>1. Empty \in TopicRecord
  BY DEF Empty, TopicRecord
<1>2. TopicTypes
  BY <1>1 DEF TopicInit, TopicTypes
<1>3. PhrasesFiled /\ RowsBehind
  BY TopicAssumption DEF TopicInit, PhrasesFiled, RowsBehind, Empty
<1>4. ViewsAgree
  BY DEF TopicInit, ViewsAgree, Empty
<1>5. TopicsSurvive
  BY DEF TopicInit, TopicsSurvive
<1>. QED
  BY <1>2, <1>3, <1>4, <1>5 DEF TopicInv

\* What is filed stays as it is while only the other state changes.
LEMMA TopicsUntouched ==
    ASSUME TopicInv, todo' \in Seq(TopicPhrase),
           UNCHANGED <<clusters, phraseToCluster, signatures, matcher, clusterRows, stale>>,
           watched' \subseteq watched, activeRows' \subseteq activeRows
    PROVE  TopicInv'
BY DEF TopicInv, TopicTypes, PhrasesFiled, RowsBehind, ViewsAgree, TopicsSurvive, TopicsOf,
       Existing

LEMMA ObservePhraseKeeps ==
    ASSUME TopicInv, NEW c \in Cluster, ObservePhrase(c) PROVE TopicInv'
<1>. DEFINE p == Head(todo)
            joined == [phrases |-> clusters[c].phrases \union {p},
                       centroid |-> clusters[c].centroid + 1]
<1>1. TopicTypes /\ PhrasesFiled /\ RowsBehind /\ ViewsAgree /\ TopicsSurvive
  BY DEF TopicInv
<1>2. p \in TopicPhrase /\ todo' \in Seq(TopicPhrase)
  BY <1>1 DEF ObservePhrase, TopicTypes
<1>3. /\ clusters[c] \in TopicRecord /\ joined \in TopicRecord
      /\ joined.phrases = clusters[c].phrases \union {p}
      /\ joined.centroid = clusters[c].centroid + 1 /\ joined # Empty
  BY <1>1, <1>2 DEF TopicTypes, TopicRecord, Empty
<1>4. clusters' = [clusters EXCEPT ![c] = joined]
  BY <1>1, <1>3 DEF ObservePhrase, Join, TopicTypes, TopicRecord
<1>5. /\ phraseToCluster' = [phraseToCluster EXCEPT ![p] = c]
      /\ signatures' = [signatures EXCEPT ![c] = clusters'[c].centroid]
      /\ SetCluster(c)
      /\ c \in Candidates(p)
  BY DEF ObservePhrase, Join
<1>6. PICK windowMoves \in BOOLEAN :
        /\ watched' = IF windowMoves THEN watched \union {c} ELSE watched
        /\ Persist(c, windowMoves)
  BY DEF ObservePhrase
<1>7. PICK clusterLost \in BOOLEAN, windowLost \in BOOLEAN :
        /\ IF clusterLost THEN UNCHANGED clusterRows ELSE UpsertTopicCluster(c)
        /\ stale' = IF clusterLost THEN stale \union {c} ELSE stale \ {c}
        /\ activeRows' = IF windowMoves /\ ~windowLost /\ clusterRows'[c] # Empty
                         THEN activeRows \union {c} ELSE activeRows
  BY <1>6 DEF Persist
<1>8. /\ clusters'[c] = joined /\ \A d \in Cluster \ {c} : clusters'[d] = clusters[d]
      /\ clusters' \in [Cluster -> TopicRecord]
  BY <1>1, <1>3, <1>4 DEF TopicTypes
<1>9. \/ clusterRows' = clusterRows /\ stale' = stale \union {c}
      \/ clusterRows' = [clusterRows EXCEPT ![c] = joined] /\ stale' = stale \ {c}
  BY <1>7, <1>8 DEF UpsertTopicCluster
<1>10. phraseToCluster[p] = NoCluster \/ phraseToCluster[p] = c
  BY <1>5 DEF Candidates
<1>11. /\ clusterRows' \in [Cluster -> TopicRecord]
       /\ clusterRows'[c] = clusterRows[c] \/ clusterRows'[c] = joined
       /\ \A d \in Cluster \ {c} : clusterRows'[d] = clusterRows[d]
       /\ c \notin stale' => clusterRows'[c] = joined
  BY <1>1, <1>3, <1>9 DEF TopicTypes
<1>. HIDE DEF p, joined
<1>12. TopicTypes'
  <2>1. signatures' \in [Cluster -> Nat]
    BY <1>1, <1>3, <1>5, <1>8 DEF TopicTypes, TopicRecord
  <2>2. phraseToCluster' \in [TopicPhrase -> Cluster \union {NoCluster}]
    BY <1>1, <1>2, <1>5 DEF TopicTypes
  <2>. QED
    BY <1>2, <1>8, <1>11, <2>1, <2>2 DEF TopicTypes
<1>13. PhrasesFiled'
  <2>. SUFFICES ASSUME NEW d \in Cluster, NEW q \in TopicPhrase
                PROVE  q \in clusters'[d].phrases <=> phraseToCluster'[q] = d
    BY DEF PhrasesFiled
  <2>1. q \in clusters[d].phrases <=> phraseToCluster[q] = d
    BY <1>1 DEF PhrasesFiled
  <2>2. phraseToCluster'[q] = IF q = p THEN c ELSE phraseToCluster[q]
    BY <1>1, <1>2, <1>5 DEF TopicTypes
  <2>3. CASE d = c
    BY <1>3, <1>8, <2>1, <2>2, <2>3
  <2>4. CASE d # c
    BY <1>8, <1>10, <2>1, <2>2, <2>4, TopicAssumption
  <2>. QED
    BY <2>3, <2>4
<1>14. RowsBehind'
  <2>. SUFFICES ASSUME NEW d \in Cluster
                PROVE  clusterRows'[d].phrases \subseteq clusters'[d].phrases
    BY DEF RowsBehind
  <2>1. clusterRows[d].phrases \subseteq clusters[d].phrases
    BY <1>1 DEF RowsBehind
  <2>2. CASE d = c
    BY <1>3, <1>8, <1>11, <2>1, <2>2
  <2>3. CASE d # c
    BY <1>8, <1>11, <2>1, <2>3
  <2>. QED
    BY <2>2, <2>3
<1>15. ViewsAgree'
  <2>1. \A d \in Cluster : signatures'[d] = clusters'[d].centroid
    BY <1>1, <1>5, <1>8 DEF TopicTypes, ViewsAgree
  <2>2. [matcher.clusters EXCEPT ![c] = clusters'[c]] = clusters'
    BY <1>1, <1>4, <1>8 DEF ViewsAgree
  <2>3. ASSUME NEW q \in TopicPhrase
        PROVE  matcher.phraseToTopics[q] \union (IF q \in clusters'[c].phrases THEN {c} ELSE {})
                 = {d \in Cluster : q \in clusters'[d].phrases}
    <3>1. matcher.phraseToTopics[q] = {d \in Cluster : q \in clusters[d].phrases}
      BY <1>1 DEF ViewsAgree, TopicsOf
    <3>2. q \in clusters[c].phrases => q \in clusters'[c].phrases
      BY <1>3, <1>8
    <3>. QED
      BY <1>8, <3>1, <3>2
  <2>4. matcher' = [clusters |-> clusters', phraseToTopics |-> TopicsOf(clusters')]
    BY <1>5, <2>2, <2>3 DEF SetCluster, TopicsOf
  <2>. QED
    BY <2>1, <2>4 DEF ViewsAgree, TopicsOf
<1>16. TopicsSurvive'
  <2>1. \A d \in Cluster \ stale' : clusterRows'[d] = clusters'[d]
    BY <1>1, <1>8, <1>9, <1>11 DEF TopicsSurvive
  <2>2. Existing(clusters) \union {c} \subseteq Existing(clusters')
    BY <1>3, <1>8 DEF Existing
  <2>3. Existing(clusterRows) \subseteq Existing(clusterRows')
    BY <1>3, <1>11 DEF Existing
  <2>4. watched' \subseteq Existing(clusters')
    BY <1>1, <1>6, <2>2 DEF TopicsSurvive
  <2>5. activeRows' \subseteq Existing(clusterRows')
    <3>1. clusterRows'[c] # Empty => c \in Existing(clusterRows')
      BY DEF Existing
    <3>. QED
      BY <1>1, <1>7, <2>3, <3>1 DEF TopicsSurvive
  <2>6. Existing(clusters') = Existing(clusters)' /\ Existing(clusterRows') = Existing(clusterRows)'
    BY DEF Existing
  <2>. QED
    BY <2>1, <2>4, <2>5, <2>6 DEF TopicsSurvive
<1>. QED
  BY <1>12, <1>13, <1>14, <1>15, <1>16 DEF TopicInv

LEMMA MinerRestartKeeps == ASSUME TopicInv, MinerRestart PROVE TopicInv'
<1>1. TopicTypes /\ RowsBehind /\ TopicsSurvive /\ OneTopicPerPhrase /\ PhrasesFiled
  BY FiledIsOne DEF TopicInv
<1>2. PICK ended \in SUBSET activeRows : Bootstrap(ended)
  BY DEF MinerRestart
<1>3. /\ clusters' = clusterRows /\ clusterRows' = clusterRows
      /\ signatures' = [c \in Cluster |-> clusterRows[c].centroid]
      /\ matcher' = [clusters |-> clusterRows, phraseToTopics |-> TopicsOf(clusterRows)]
      /\ watched' \subseteq activeRows /\ activeRows' \subseteq activeRows
      /\ phraseToCluster' \in [TopicPhrase -> Cluster \union {NoCluster}]
      /\ todo' = <<>> /\ stale' = {}
  BY <1>2 DEF MinerRestart, Bootstrap
<1>4. \A p \in TopicPhrase :
        IF TopicsOf(clusterRows)[p] = {} THEN phraseToCluster'[p] = NoCluster
        ELSE phraseToCluster'[p] \in TopicsOf(clusterRows)[p]
  BY <1>2 DEF Bootstrap
<1>5. TopicTypes'
  BY <1>1, <1>3 DEF TopicTypes, TopicRecord
<1>6. ASSUME NEW c \in Cluster, NEW p \in TopicPhrase
      PROVE  p \in clusterRows[c].phrases <=> phraseToCluster'[p] = c
  <2>1. TopicsOf(clusterRows)[p] = {d \in Cluster : p \in clusterRows[d].phrases}
    BY DEF TopicsOf
  <2>2. \A d \in TopicsOf(clusterRows)[p] : d = phraseToCluster[p]
    BY <1>1, <2>1 DEF RowsBehind, PhrasesFiled
  <2>. QED
    BY <1>4, <2>1, <2>2, TopicAssumption
<1>7. PhrasesFiled' /\ RowsBehind'
  BY <1>3, <1>6 DEF PhrasesFiled, RowsBehind
<1>8. ViewsAgree'
  BY <1>3 DEF ViewsAgree, TopicsOf
<1>9. TopicsSurvive'
  BY <1>1, <1>3 DEF TopicsSurvive, Existing
<1>. QED
  BY <1>5, <1>7, <1>8, <1>9 DEF TopicInv

LEMMA TopicStep == TopicInv /\ [TopicNext]_topicVars => TopicInv'
<1>. SUFFICES ASSUME TopicInv, [TopicNext]_topicVars PROVE TopicInv'
  OBVIOUS
<1>1. todo \in Seq(TopicPhrase)
  BY DEF TopicInv, TopicTypes
<1>2. CASE UNCHANGED topicVars
  BY <1>1, <1>2, TopicsUntouched DEF topicVars
<1>3. ASSUME NEW p \in TopicPhrase, ProcessSocial(<<p>>) PROVE TopicInv'
  BY <1>3, TopicsUntouched DEF ProcessSocial
<1>4. ASSUME NEW p \in TopicPhrase, NEW q \in TopicPhrase, ProcessSocial(<<p, q>>)
      PROVE  TopicInv'
  BY <1>4, TopicsUntouched DEF ProcessSocial
<1>5. CASE PassOver
  BY <1>1, <1>5, TopicsUntouched DEF PassOver
<1>6. CASE MinerRestart
  BY <1>6, MinerRestartKeeps
<1>7. ASSUME NEW c \in Cluster, ObservePhrase(c) PROVE TopicInv'
  BY <1>7, ObservePhraseKeeps
<1>8. ASSUME NEW c \in Cluster, CloseWindow(c) PROVE TopicInv'
  BY <1>1, <1>8, TopicsUntouched DEF CloseWindow
<1>9. ASSUME NEW m \in Mint, ProcessCandidate(m) PROVE TopicInv'
  BY <1>1, <1>9, TopicsUntouched DEF ProcessCandidate
<1>10. ASSUME NEW m \in Mint, ForgetMint(m) PROVE TopicInv'
  BY <1>1, <1>10, TopicsUntouched DEF ForgetMint
<1>. QED
  BY <1>2, <1>3, <1>4, <1>5, <1>6, <1>7, <1>8, <1>9, <1>10 DEF TopicNext

\* However posts, lost writes, candidates and restarts follow each other, the topics in
\* memory, their index, the matcher's copy and the rows of the narrative miner agree and
\* give a phrase one topic; and the automaton that looks for the phrases in a name counts
\* each exactly as often as it occurs in what is read, for all phrases and texts.
THEOREM TopicsMatched == SearchSpec /\ TopicSpec => []TopicsAreMatched
<1>1. TopicInv => TopicsConsistent
  BY FiledIsOne DEF TopicInv, TopicsConsistent
<1>2. SearchInv => CountsOccurrences
  BY DEF SearchInv
<1>3. SearchInv /\ TopicInv => TopicsAreMatched
  BY <1>1, <1>2 DEF TopicsAreMatched
<1>. QED
  BY <1>3, SearchBegins, SearchStep, TopicsBegin, TopicStep, PTL DEF SearchSpec, TopicSpec

-----------------------------------------------------------------------------
(* PoolDiscovery: the watcher's subscription *)

USE RaydiumConstants, DiscoveryConstants DEF RaydiumConstants, DiscoveryConstants

RaydiumTypes ==
    /\ stopped \in BOOLEAN /\ removing \in BOOLEAN /\ disturbed \in BOOLEAN
    /\ removing => stopped
    /\ subscriptionId \in Nat /\ lastId \in Nat
    /\ registered \subseteq Nat \ {0}
    /\ restart \in [Restart -> {"idle", "waiting", "removing"}]

\* While nothing is disturbed one restart runs at most, it removes the listener
\* there is, and none runs once the watcher is stopped.
OneRestart ==
    ~ disturbed =>
        /\ registered \subseteq {subscriptionId}
        /\ stopped => registered = {} /\ \A r \in Restart : restart[r] = "idle"
        /\ \A r \in Restart : restart[r] = "removing" => registered = {}
        /\ \A q, r \in Restart : restart[q] # "idle" /\ restart[r] # "idle" => q = r

RaydiumInv == RaydiumTypes /\ OneRestart

\* A new subscription, or none, where there is no listener.
LEMMA Subscribed ==
    ASSUME RaydiumInv, NEW r \in Restart, restart[r] # "idle", Subscribe(r),
           ~ disturbed => registered = {}
    PROVE  RaydiumInv'
<1>. USE DEF RaydiumInv
<1>1. UNCHANGED <<stopped, removing, disturbed>>
  BY DEF Subscribe
<1>2. CASE /\ lastId' = lastId + 1 /\ subscriptionId' = lastId'
           /\ registered' = registered \union {lastId'}
           /\ restart' = [restart EXCEPT ![r] = "idle"]
  <2>1. RaydiumTypes'
    BY <1>1, <1>2 DEF RaydiumTypes
  <2>2. OneRestart'
    <3>. SUFFICES ASSUME ~ disturbed PROVE OneRestart'
      BY <1>1 DEF OneRestart
    <3>1. \A q \in Restart : restart'[q] = "idle"
      BY <1>2 DEF OneRestart, RaydiumTypes
    <3>2. ~ stopped
      BY DEF OneRestart
    <3>3. registered' = {subscriptionId'}
      BY <1>2
    <3>. QED
      BY <1>1, <3>1, <3>2, <3>3 DEF OneRestart
  <2>. QED
    BY <2>1, <2>2
<1>3. CASE /\ subscriptionId' = 0
           /\ restart' = [restart EXCEPT ![r] = IF stopped THEN "idle" ELSE "waiting"]
           /\ UNCHANGED <<registered, lastId>>
  <2>1. RaydiumTypes'
    BY <1>1, <1>3 DEF RaydiumTypes
  <2>2. OneRestart'
    <3>. SUFFICES ASSUME ~ disturbed PROVE OneRestart'
      BY <1>1 DEF OneRestart
    <3>1. ~ stopped
      BY DEF OneRestart
    <3>2. \A q \in Restart : q # r => restart[q] = "idle" /\ restart'[q] = "idle"
      BY <1>3 DEF OneRestart, RaydiumTypes
    <3>. QED
      BY <1>1, <1>3, <3>1, <3>2 DEF OneRestart
  <2>. QED
    BY <2>1, <2>2
<1>. QED
  BY <1>2, <1>3 DEF Subscribe

LEMMA RaydiumSteps == RaydiumInv /\ [RaydiumNext]_raydiumVars => RaydiumInv'
<1>. SUFFICES ASSUME RaydiumInv, [RaydiumNext]_raydiumVars PROVE RaydiumInv'
  OBVIOUS
<1>. USE DEF RaydiumInv
<1>1. ASSUME NEW r \in Restart, SocketLost(r) PROVE RaydiumInv'
  <2>1. /\ ~ stopped /\ restart[r] = "idle"
        /\ restart' = [restart EXCEPT ![r] = "waiting"]
        /\ disturbed' = (disturbed \/ \E q \in Restart : restart[q] # "idle")
        /\ UNCHANGED <<stopped, subscriptionId, registered, lastId, removing>>
    BY <1>1 DEF SocketLost
  <2>2. RaydiumTypes'
    BY <2>1 DEF RaydiumTypes
  <2>3. OneRestart'
    <3>. SUFFICES ASSUME ~ disturbed' PROVE OneRestart'
      BY DEF OneRestart
    <3>1. ~ disturbed /\ \A q \in Restart : restart[q] = "idle"
      BY <2>1
    <3>2. \A q \in Restart : q # r => restart'[q] = "idle"
      BY <2>1, <3>1 DEF RaydiumTypes
    <3>3. restart'[r] = "waiting"
      BY <2>1 DEF RaydiumTypes
    <3>. QED
      BY <2>1, <3>1, <3>2, <3>3 DEF OneRestart
  <2>. QED
    BY <2>2, <2>3
<1>2. ASSUME NEW r \in Restart, BackoffOver(r) PROVE RaydiumInv'
  <2>0. restart[r] = "waiting"
    BY <1>2 DEF BackoffOver
  <2>1. CASE subscriptionId = 0
    <3>1. Subscribe(r)
      BY <1>2, <2>1 DEF BackoffOver
    <3>2. ~ disturbed => registered = {}
      BY <2>1 DEF OneRestart, RaydiumTypes
    <3>. QED
      BY <2>0, <3>1, <3>2, Subscribed
  <2>2. CASE subscriptionId # 0
    <3>1. /\ registered' = registered \ {subscriptionId}
          /\ restart' = [restart EXCEPT ![r] = "removing"]
          /\ UNCHANGED <<stopped, subscriptionId, lastId, removing, disturbed>>
      BY <1>2, <2>2 DEF BackoffOver
    <3>2. RaydiumTypes'
      BY <3>1 DEF RaydiumTypes
    <3>3. OneRestart'
      <4>. SUFFICES ASSUME ~ disturbed PROVE OneRestart'
        BY <3>1 DEF OneRestart
      <4>1. ~ stopped /\ registered' = {}
        BY <2>0, <3>1 DEF OneRestart
      <4>2. \A q \in Restart : q # r => restart'[q] = "idle"
        BY <2>0, <3>1 DEF OneRestart, RaydiumTypes
      <4>. QED
        BY <3>1, <4>1, <4>2 DEF OneRestart
    <3>. QED
      BY <3>2, <3>3
  <2>. QED
    BY <2>1, <2>2
<1>3. ASSUME NEW r \in Restart, RestartRemoved(r) PROVE RaydiumInv'
  <2>1. restart[r] = "removing" /\ Subscribe(r)
    BY <1>3 DEF RestartRemoved
  <2>2. ~ disturbed => registered = {}
    BY <2>1 DEF OneRestart
  <2>. QED
    BY <2>1, <2>2, Subscribed
<1>4. CASE Stop
  <2>1. /\ stopped' = TRUE /\ removing' \in BOOLEAN
        /\ registered' = registered \ {subscriptionId}
        /\ disturbed' = (disturbed \/ \E q \in Restart : restart[q] # "idle")
        /\ UNCHANGED <<subscriptionId, lastId, restart>>
    BY <1>4 DEF Stop
  <2>2. RaydiumTypes'
    BY <2>1 DEF RaydiumTypes
  <2>3. OneRestart'
    <3>. SUFFICES ASSUME ~ disturbed' PROVE OneRestart'
      BY DEF OneRestart
    <3>1. ~ disturbed /\ \A q \in Restart : restart[q] = "idle"
      BY <2>1
    <3>2. registered' = {}
      BY <2>1, <3>1 DEF OneRestart
    <3>. QED
      BY <2>1, <3>1, <3>2 DEF OneRestart
  <2>. QED
    BY <2>2, <2>3
<1>5. CASE StopRemoved
  <2>1. /\ removing' = FALSE /\ subscriptionId' = 0 /\ removing
        /\ UNCHANGED <<stopped, registered, lastId, restart, disturbed>>
    BY <1>5 DEF StopRemoved
  <2>2. RaydiumTypes'
    BY <2>1 DEF RaydiumTypes
  <2>3. OneRestart'
    <3>. SUFFICES ASSUME ~ disturbed PROVE OneRestart'
      BY <2>1 DEF OneRestart
    <3>1. stopped /\ registered = {} /\ \A r \in Restart : restart[r] = "idle"
      BY <2>1 DEF OneRestart, RaydiumTypes
    <3>. QED
      BY <2>1, <3>1 DEF OneRestart
  <2>. QED
    BY <2>2, <2>3
<1>6. CASE UNCHANGED raydiumVars
  BY <1>6 DEF raydiumVars, RaydiumTypes, OneRestart
<1>. QED
  BY <1>1, <1>2, <1>3, <1>4, <1>5, <1>6 DEF RaydiumNext

-----------------------------------------------------------------------------
(* Handlers and attempts *)

DiscoveryTypes ==
    /\ handler \in [Event -> {"none", "fetching", "asking", "retrying", "building", "done"}]
    /\ attempt \in [Event -> Nat]
    /\ attempts \in [NewPool -> Nat] /\ asked \in [NewPool -> Nat]
    /\ raw \in [Other -> {"none", "building"}]
    /\ lastEmitted \subseteq Key
    /\ candidates \in [Key -> Nat] /\ expiries \in [Key -> Nat]

\* A handler has an attempt from its first request on, and retries below the limit.
AttemptsHaveStages ==
    \A e \in Event :
        /\ handler[e] \in {"none", "fetching"} => attempt[e] = 0
        /\ handler[e] \in {"asking", "retrying", "building"} => attempt[e] > 0
        /\ handler[e] = "retrying" => attempt[e] < MaxAttempts

Listener == 1..MaxListener

\* Of a pool's handlers: those that began, those through with it, and those whose
\* last attempt lets them retry.
Begun(p) == {l \in Listener : attempt[<<l, p>>] > 0}
Through(p) == {l \in Begun(p) : handler[<<l, p>>] = "done"}
MayRetry(p) == {l \in Begun(p) : handler[<<l, p>>] # "done" /\ attempt[<<l, p>>] < MaxAttempts}

Retries == MaxAttempts - 1
\* Retries the present count of the pool has let begin, or will.
Granted(p) == IF attempts[p] < Retries THEN attempts[p] ELSE Retries

\* The count starts over only when a handler is through, so each that is through
\* has used up the retries of one count; one count is not used up yet.
AsksAreCounted(p) ==
    /\ asked[p] + Cardinality(MayRetry(p))
         <= Cardinality(Begun(p)) + Retries * Cardinality(Through(p)) + Granted(p)
    /\ Through(p) = Begun(p) =>
         asked[p] <= Cardinality(Begun(p)) + Retries * Cardinality(Through(p))

LEMMA EventPairs ==
    ASSUME NEW e \in Event
    PROVE  /\ e[1] \in Listener /\ e[2] \in NewPool /\ e = <<e[1], e[2]>>
           /\ \A l \in Listener, p \in NewPool :
                 <<l, p>> \in Event /\ (<<l, p>> = e <=> l = e[1] /\ p = e[2])
BY DEF Event, Listener

LEMMA Finite ==
    ASSUME NEW p
    PROVE  /\ IsFiniteSet(Begun(p)) /\ IsFiniteSet(Through(p)) /\ IsFiniteSet(MayRetry(p))
           /\ Cardinality(Begun(p)) \in Nat /\ Cardinality(Through(p)) \in Nat
           /\ Cardinality(MayRetry(p)) \in Nat /\ Cardinality(Through(p)) <= Cardinality(Begun(p))
           /\ Cardinality(Through(p)) = Cardinality(Begun(p)) => Through(p) = Begun(p)
<1>1. IsFiniteSet(Listener)
  BY FS_Interval DEF Listener
<1>2. IsFiniteSet(Begun(p))
  <2>1. Begun(p) \in SUBSET Listener
    BY DEF Begun
  <2>. QED
    BY <1>1, <2>1, FS_Subset
<1>3. Through(p) \in SUBSET Begun(p) /\ MayRetry(p) \in SUBSET Begun(p)
  BY DEF Through, MayRetry
<1>4. IsFiniteSet(Through(p)) /\ IsFiniteSet(MayRetry(p))
  BY <1>2, <1>3, FS_Subset
<1>5. /\ Cardinality(Through(p)) <= Cardinality(Begun(p))
      /\ Cardinality(Through(p)) = Cardinality(Begun(p)) => Through(p) = Begun(p)
  BY <1>2, <1>3, FS_Subset
<1>6. /\ Cardinality(Begun(p)) \in Nat /\ Cardinality(Through(p)) \in Nat
      /\ Cardinality(MayRetry(p)) \in Nat
  BY <1>2, <1>4, FS_CardinalityType
<1>. QED
  BY <1>2, <1>4, <1>5, <1>6

\* The bound follows.
LEMMA CountedIsBounded ==
    ASSUME DiscoveryTypes, NEW p \in NewPool, AsksAreCounted(p)
    PROVE  asked[p] <= MaxAttempts * Cardinality(Begun(p))
<1>. DEFINE b == Cardinality(Begun(p))
            d == Cardinality(Through(p))
            t == Cardinality(MayRetry(p))
            m == Retries
            a == asked[p]
            g == Granted(p)
<1>1. /\ b \in Nat /\ d \in Nat /\ t \in Nat /\ d <= b
      /\ d = b => Through(p) = Begun(p)
  BY Finite
<1>2. a \in Nat /\ g \in Nat /\ g <= m /\ m \in Nat /\ MaxAttempts = m + 1
  BY DEF DiscoveryTypes, Granted, Retries
<1>3. a + t <= b + m * d + g /\ (Through(p) = Begun(p) => a <= b + m * d)
  BY DEF AsksAreCounted
<1>. HIDE DEF b, d, t, m, a, g
<1>4. m * d \in Nat /\ m * b \in Nat /\ MaxAttempts * b = m * b + b
  BY <1>1, <1>2
<1>5. ASSUME d = b PROVE a <= MaxAttempts * b
  BY <1>1, <1>2, <1>3, <1>4, <1>5
<1>6. ASSUME d # b PROVE a <= MaxAttempts * b
  <2>1. d + 1 <= b
    BY <1>1, <1>6
  <2>2. m * d + m <= m * b
    <3>1. PICK k \in Nat : b = (d + 1) + k
      <4>1. b - (d + 1) \in Nat /\ b = (d + 1) + (b - (d + 1))
        BY <1>1, <2>1
      <4>. QED
        BY <4>1
    <3>2. m * b = m * d + m + m * k /\ m * k \in Nat
      BY <1>1, <1>2, <3>1
    <3>. QED
      BY <1>2, <1>4, <3>2
  <2>. QED
    BY <1>1, <1>2, <1>3, <1>4, <2>2
<1>7. a <= MaxAttempts * b
  BY <1>5, <1>6
<1>. QED
  BY <1>7 DEF a, b

SameCounts(p) ==
    /\ Begun(p)' = Begun(p) /\ Through(p)' = Through(p) /\ MayRetry(p)' = MayRetry(p)
    /\ asked'[p] = asked[p] /\ attempts'[p] = attempts[p]

LEMMA CountsKept ==
    ASSUME NEW p \in NewPool, AsksAreCounted(p), SameCounts(p)
    PROVE  AsksAreCounted(p)'
BY DEF AsksAreCounted, SameCounts, Granted

\* What one handler does leaves the counts of other pools alone.
LEMMA OtherPools ==
    ASSUME NEW e \in Event, NEW p \in NewPool, p # e[2],
           \A f \in Event : f # e => handler'[f] = handler[f] /\ attempt'[f] = attempt[f],
           asked'[p] = asked[p], attempts'[p] = attempts[p]
    PROVE  SameCounts(p)
<1>1. \A l \in Listener : /\ handler'[<<l, p>>] = handler[<<l, p>>]
                          /\ attempt'[<<l, p>>] = attempt[<<l, p>>]
  BY EventPairs
<1>2. Begun(p)' = Begun(p)
  BY <1>1 DEF Begun
<1>3. Begun(p) \subseteq Listener
  BY DEF Begun
<1>4. Through(p)' = Through(p)
  BY <1>1, <1>2, <1>3 DEF Through
<1>5. MayRetry(p)' = MayRetry(p)
  BY <1>1, <1>2, <1>3 DEF MayRetry
<1>. QED
  BY <1>2, <1>4, <1>5 DEF SameCounts

\* Nor does a step that begins and ends nothing.
LEMMA StageChanges ==
    ASSUME DiscoveryTypes, NEW e \in Event, NEW s,
           handler' = [handler EXCEPT ![e] = s], handler[e] # "done",
           s # "done" \/ attempt[e] = 0,
           UNCHANGED <<attempt, attempts, asked>>,
           NEW p \in NewPool
    PROVE  SameCounts(p)
<1>1. \A f \in Event : (f # e => handler'[f] = handler[f]) /\ handler'[e] = s
  BY DEF DiscoveryTypes
<1>2. \A l \in Begun(p) : (handler'[<<l, p>>] = "done") <=> (handler[<<l, p>>] = "done")
  <2>1. ASSUME NEW l \in Begun(p)
        PROVE  (handler'[<<l, p>>] = "done") <=> (handler[<<l, p>>] = "done")
    <3>1. l \in Listener /\ attempt[<<l, p>>] > 0 /\ <<l, p>> \in Event
      BY EventPairs DEF Begun
    <3>2. CASE <<l, p>> = e
      <4>1. attempt[e] # 0
        BY <3>1, <3>2
      <4>. QED
        BY <1>1, <3>2, <4>1
    <3>3. CASE <<l, p>> # e
      BY <1>1, <3>1, <3>3
    <3>. QED
      BY <3>2, <3>3
  <2>. QED
    BY <2>1
<1>3. Begun(p)' = Begun(p)
  BY DEF Begun
<1>. QED
  BY <1>2, <1>3 DEF SameCounts, Through, MayRetry

\* One more attempt of a handler.
LEMMA AskCounts ==
    ASSUME DiscoveryTypes, AttemptsHaveStages, NEW e \in Event,
           handler[e] \in {"fetching", "retrying"},
           handler' = [handler EXCEPT ![e] = "asking"],
           attempt' = [attempt EXCEPT ![e] = attempts[e[2]] + 1],
           attempts' = [attempts EXCEPT ![e[2]] = @ + 1],
           asked' = [asked EXCEPT ![e[2]] = @ + 1],
           AsksAreCounted(e[2])
    PROVE  AsksAreCounted(e[2])'
<1>. DEFINE l == e[1]
            p == e[2]
            a == attempts[p]
<1>1. /\ l \in Listener /\ p \in NewPool /\ e = <<l, p>>
      /\ \A k \in Listener : <<k, p>> \in Event /\ (k # l => <<k, p>> # e)
  BY EventPairs
<1>. HIDE DEF l, p
<1>2. /\ a \in Nat /\ asked[p] \in Nat /\ attempts'[p] = a + 1 /\ asked'[p] = asked[p] + 1
      /\ attempt'[e] = a + 1 /\ handler'[e] = "asking"
      /\ \A f \in Event : f # e => handler'[f] = handler[f] /\ attempt'[f] = attempt[f]
  BY <1>1 DEF DiscoveryTypes, p
<1>. HIDE DEF a
<1>3. \A k \in Listener : k # l => /\ handler'[<<k, p>>] = handler[<<k, p>>]
                                   /\ attempt'[<<k, p>>] = attempt[<<k, p>>]
  BY <1>1, <1>2
<1>4. attempt'[<<l, p>>] = a + 1 /\ handler'[<<l, p>>] = "asking" /\ handler[<<l, p>>] # "done"
  BY <1>1, <1>2
<1>5. Begun(p)' = Begun(p) \union {l}
  BY <1>1, <1>2, <1>3, <1>4 DEF Begun
<1>6. Through(p)' = Through(p) /\ l \notin Through(p)
  <2>1. l \notin Through(p)
    BY <1>4 DEF Through
  <2>2. \A k \in Begun(p)' : k = l \/ (k \in Begun(p) /\ k \in Listener)
    BY <1>5 DEF Begun
  <2>3. \A k \in Begun(p) : k \in Begun(p)' /\ k \in Listener
    BY <1>5 DEF Begun
  <2>4. l \notin Through(p)'
    BY <1>4 DEF Through
  <2>. QED
    BY <1>3, <2>1, <2>2, <2>3, <2>4 DEF Through
<1>7. MayRetry(p)' = IF a + 1 < MaxAttempts THEN MayRetry(p) \union {l} ELSE MayRetry(p) \ {l}
  <2>1. \A k \in Listener : k # l => (k \in MayRetry(p)' <=> k \in MayRetry(p))
    BY <1>3 DEF MayRetry, Begun
  <2>2. l \in MayRetry(p)' <=> a + 1 < MaxAttempts
    BY <1>1, <1>4, <1>5 DEF MayRetry
  <2>3. MayRetry(p)' \subseteq Listener /\ MayRetry(p) \subseteq Listener
    BY DEF MayRetry, Begun
  <2>. QED
    BY <1>1, <2>1, <2>2, <2>3
<1>8. /\ handler[e] = "fetching" => l \notin Begun(p) /\ l \notin MayRetry(p)
      /\ handler[e] = "retrying" => l \in Begun(p) /\ l \in MayRetry(p)
  <2>1. handler[e] = "fetching" => ~ (attempt[e] > 0)
    BY DEF AttemptsHaveStages
  <2>2. handler[e] = "retrying" => attempt[e] > 0 /\ attempt[e] < MaxAttempts
    BY DEF AttemptsHaveStages
  <2>. QED
    BY <1>1, <2>1, <2>2 DEF Begun, MayRetry
<1>. DEFINE b == Cardinality(Begun(p))
            b1 == Cardinality(Begun(p) \union {l})
            d == Cardinality(Through(p))
            t == Cardinality(MayRetry(p))
            t1 == Cardinality(MayRetry(p)')
            q == asked[p]
<1>9. b \in Nat /\ d \in Nat /\ t \in Nat
  BY Finite
<1>10. b1 = IF l \in Begun(p) THEN b ELSE b + 1
  BY Finite, FS_AddElement
<1>11. t1 = IF a + 1 < MaxAttempts THEN (IF l \in MayRetry(p) THEN t ELSE t + 1)
                                   ELSE (IF l \in MayRetry(p) THEN t - 1 ELSE t)
  <2>1. Cardinality(MayRetry(p) \union {l}) = IF l \in MayRetry(p) THEN t ELSE t + 1
    BY Finite, FS_AddElement
  <2>2. Cardinality(MayRetry(p) \ {l}) = IF l \in MayRetry(p) THEN t - 1 ELSE t
    BY Finite, FS_RemoveElement
  <2>. QED
    BY <1>7, <2>1, <2>2
<1>12. q + t <= b + Retries * d + Granted(p)
  BY DEF AsksAreCounted, p
<1>13. Retries \in Nat /\ MaxAttempts = Retries + 1
  BY DEF Retries
<1>14. Granted(p) = (IF a < Retries THEN a ELSE Retries)
       /\ Granted(p)' = (IF a + 1 < Retries THEN a + 1 ELSE Retries)
  BY <1>2 DEF Granted, Retries, a
<1>15. Through(p)' # Begun(p)'
  BY <1>5, <1>6
<1>16. b1 = Cardinality(Begun(p)') /\ d = Cardinality(Through(p)')
  BY <1>5, <1>6
<1>. HIDE DEF b, b1, d, t, t1, q
<1>17. Retries * d \in Nat
  BY <1>9, <1>13
<1>18. q \in Nat /\ asked'[p] = q + 1
  BY <1>2 DEF q
<1>19. (q + 1) + t1 <= b1 + Retries * d + Granted(p)'
  <2>1. CASE handler[e] = "fetching"
    <3>1. CASE a + 1 < MaxAttempts
      BY <1>2, <1>8, <1>9, <1>10, <1>11, <1>12, <1>13, <1>14, <1>17, <1>18, <2>1, <3>1
    <3>2. CASE ~ (a + 1 < MaxAttempts)
      BY <1>2, <1>8, <1>9, <1>10, <1>11, <1>12, <1>13, <1>14, <1>17, <1>18, <2>1, <3>2
    <3>. QED
      BY <3>1, <3>2
  <2>2. CASE handler[e] = "retrying"
    <3>1. CASE a + 1 < MaxAttempts
      BY <1>2, <1>8, <1>9, <1>10, <1>11, <1>12, <1>13, <1>14, <1>17, <1>18, <2>2, <3>1
    <3>2. CASE ~ (a + 1 < MaxAttempts)
      BY <1>2, <1>8, <1>9, <1>10, <1>11, <1>12, <1>13, <1>14, <1>17, <1>18, <2>2, <3>2
    <3>. QED
      BY <3>1, <3>2
  <2>. QED
    BY <2>1, <2>2
<1>20. /\ asked'[p] + Cardinality(MayRetry(p)')
            <= Cardinality(Begun(p)') + Retries * Cardinality(Through(p)') + Granted(p)'
       /\ Through(p)' # Begun(p)'
  BY <1>15, <1>16, <1>18, <1>19 DEF t1
<1>21. p' = p
  BY DEF p
<1>. QED
  BY <1>20 DEF AsksAreCounted, Retries, p

\* A handler that began is through; the count starts over or stays.
LEMMA EndCounts ==
    ASSUME DiscoveryTypes, NEW e \in Event, handler[e] # "done", attempt[e] > 0,
           handler' = [handler EXCEPT ![e] = "done"],
           UNCHANGED <<attempt, asked>>, attempts'[e[2]] \in {0, attempts[e[2]]},
           AsksAreCounted(e[2])
    PROVE  AsksAreCounted(e[2])'
<1>. DEFINE l == e[1]
            p == e[2]
<1>1. /\ l \in Listener /\ p \in NewPool /\ e = <<l, p>>
      /\ \A k \in Listener : <<k, p>> \in Event /\ (k # l => <<k, p>> # e)
  BY EventPairs
<1>. HIDE DEF l, p
<1>2. /\ \A k \in Listener : k # l => handler'[<<k, p>>] = handler[<<k, p>>]
      /\ handler'[<<l, p>>] = "done" /\ handler[<<l, p>>] # "done" /\ attempt[<<l, p>>] > 0
  BY <1>1 DEF DiscoveryTypes
<1>3. Begun(p)' = Begun(p) /\ l \in Begun(p) /\ Begun(p) \subseteq Listener
  BY <1>1, <1>2 DEF Begun
<1>4. Through(p)' = Through(p) \union {l} /\ l \notin Through(p)
  BY <1>2, <1>3 DEF Through
<1>5. MayRetry(p)' = MayRetry(p) \ {l}
  BY <1>2, <1>3 DEF MayRetry
<1>. DEFINE b == Cardinality(Begun(p))
            d == Cardinality(Through(p))
            d1 == Cardinality(Through(p)')
            t == Cardinality(MayRetry(p))
            t1 == Cardinality(MayRetry(p)')
            q == asked[p]
            m == Retries
            g == Granted(p)
            g1 == Granted(p)'
<1>6. b \in Nat /\ d \in Nat /\ t \in Nat
  BY Finite
<1>7. d1 = d + 1
  BY <1>4, Finite, FS_AddElement
<1>8. t1 = IF l \in MayRetry(p) THEN t - 1 ELSE t
  BY <1>5, Finite, FS_RemoveElement
<1>9. t1 \in Nat
  <2>1. IsFiniteSet(MayRetry(p)')
    BY <1>5, Finite, FS_RemoveElement
  <2>. QED
    BY <2>1, FS_CardinalityType
<1>10. q + t <= b + m * d + g
  BY DEF AsksAreCounted, p
<1>11. m \in Nat /\ q \in Nat /\ g \in Nat /\ g <= m /\ g1 \in Nat
  <2>1. attempts[p] \in Nat /\ attempts'[p] \in Nat
    BY <1>1 DEF DiscoveryTypes, p
  <2>. QED
    BY <1>1, <2>1 DEF DiscoveryTypes, Granted, Retries
<1>12. b = Cardinality(Begun(p)')
  BY <1>3
<1>. HIDE DEF b, d, d1, t, t1, q, m, g, g1
<1>13. m * d \in Nat /\ m * d1 = m * d + m
  BY <1>6, <1>7, <1>11
<1>14. q + t1 <= b + m * d1 + g1 /\ q <= b + m * d1
  BY <1>6, <1>8, <1>9, <1>10, <1>11, <1>13
<1>15. /\ asked'[p] + Cardinality(MayRetry(p)')
            <= Cardinality(Begun(p)') + Retries * Cardinality(Through(p)') + Granted(p)'
       /\ asked'[p] <= Cardinality(Begun(p)') + Retries * Cardinality(Through(p)')
  BY <1>12, <1>14 DEF t1, d1, g1, m, q
<1>. QED
  BY <1>15 DEF AsksAreCounted, Retries, p

-----------------------------------------------------------------------------
(* Candidates *)

EventsOf(k) == {e \in Event : handler[e] = "building" /\ k = <<"mint", e[2]>>}
OthersOf(k) == {o \in Other : raw[o] = "building" /\ k = KeyOf(o)}
Building(k) == EventsOf(k) # {} \/ OthersOf(k) # {}

\* Who builds under a key has claimed it, alone, and has not brought its candidate.
OneBuilds ==
    \A k \in Key :
        /\ Building(k) => k \in lastEmitted
        /\ EventsOf(k) = {} \/ OthersOf(k) = {}
        /\ \A e, f \in EventsOf(k) : e = f
        /\ \A o, q \in OthersOf(k) : o = q
        /\ candidates[k] <= expiries[k] + (IF k \in lastEmitted /\ ~ Building(k) THEN 1 ELSE 0)

CandidatesInv == DiscoveryTypes /\ OneBuilds

SameBuilders(k) == EventsOf(k)' = EventsOf(k) /\ OthersOf(k)' = OthersOf(k)
SameCandidates(k) ==
    /\ SameBuilders(k) /\ candidates'[k] = candidates[k] /\ expiries'[k] = expiries[k]
    /\ (k \in lastEmitted') <=> (k \in lastEmitted)

\* What OneBuilds says of one key.
OneBuildsUnder(k) ==
    /\ Building(k) => k \in lastEmitted
    /\ EventsOf(k) = {} \/ OthersOf(k) = {}
    /\ \A e, f \in EventsOf(k) : e = f
    /\ \A o, q \in OthersOf(k) : o = q
    /\ candidates[k] <= expiries[k] + (IF k \in lastEmitted /\ ~ Building(k) THEN 1 ELSE 0)

LEMMA EachKey == OneBuilds <=> \A k \in Key : OneBuildsUnder(k)
BY DEF OneBuilds, OneBuildsUnder

LEMMA CandidatesKept ==
    ASSUME NEW k \in Key, OneBuildsUnder(k), SameCandidates(k)
    PROVE  OneBuildsUnder(k)'
BY DEF OneBuildsUnder, SameCandidates, SameBuilders, Building

LEMMA Keys ==
    /\ \A p \in NewPool : <<"mint", p>> \in Key
    /\ \A e \in Event : e[2] \in NewPool /\ <<"mint", e[2]>> \in Key
    /\ \A o \in Other : KeyOf(o) \in Key
BY DEF Key, Event, Other, KeyOf

\* Steps of the handlers that neither claim nor build.
LEMMA StageBuilds ==
    ASSUME DiscoveryTypes, OneBuilds, NEW e \in Event, NEW s,
           handler' = [handler EXCEPT ![e] = s], handler[e] # "building", s # "building",
           UNCHANGED <<raw, lastEmitted, candidates, expiries>>
    PROVE  OneBuilds'
<1>1. ASSUME NEW k \in Key PROVE SameCandidates(k)
  <2>1. EventsOf(k)' = EventsOf(k)
    BY DEF EventsOf, DiscoveryTypes
  <2>2. OthersOf(k)' = OthersOf(k)
    BY DEF OthersOf
  <2>. QED
    BY <2>1, <2>2 DEF SameCandidates, SameBuilders
<1>. QED
  BY <1>1, EachKey, CandidatesKept DEF OneBuilds, OneBuildsUnder

\* The key c is claimed by an event or by another source.
LEMMA Claimed ==
    ASSUME DiscoveryTypes, OneBuilds, NEW c \in Key, Claim(c),
           \/ /\ \E e \in Event : /\ handler[e] # "building" /\ c = <<"mint", e[2]>>
                                  /\ handler' = [handler EXCEPT ![e] = "building"]
              /\ raw' = raw
           \/ /\ \E o \in Other : /\ raw[o] # "building" /\ c = KeyOf(o)
                                  /\ raw' = [raw EXCEPT ![o] = "building"]
              /\ handler' = handler,
           UNCHANGED <<candidates, expiries>>
    PROVE  OneBuilds'
<1>1. c \notin lastEmitted /\ lastEmitted' = lastEmitted \union {c}
  BY DEF Claim
<1>2. EventsOf(c) = {} /\ OthersOf(c) = {}
  BY <1>1 DEF OneBuilds, Building
<1>3. \/ EventsOf(c)' = {} /\ \E o \in Other : OthersOf(c)' = {o}
      \/ OthersOf(c)' = {} /\ \E e \in Event : EventsOf(c)' = {e}
  <2>1. ASSUME NEW e \in Event, handler[e] # "building", c = <<"mint", e[2]>>,
               handler' = [handler EXCEPT ![e] = "building"], raw' = raw
        PROVE  OthersOf(c)' = {} /\ EventsOf(c)' = {e}
    BY <1>2, <2>1 DEF EventsOf, OthersOf, DiscoveryTypes
  <2>2. ASSUME NEW o \in Other, raw[o] # "building", c = KeyOf(o),
               raw' = [raw EXCEPT ![o] = "building"], handler' = handler
        PROVE  EventsOf(c)' = {} /\ OthersOf(c)' = {o}
    BY <1>2, <2>2 DEF EventsOf, OthersOf, DiscoveryTypes
  <2>. QED
    BY <2>1, <2>2
<1>4. candidates[c] <= expiries[c]
  <2>1. candidates[c] <= expiries[c] + 0
    BY <1>1 DEF OneBuilds
  <2>2. expiries[c] \in Nat
    BY DEF DiscoveryTypes
  <2>. QED
    BY <2>1, <2>2
<1>5. OneBuildsUnder(c)'
  <2>1. Building(c)' /\ c \in lastEmitted'
    BY <1>1, <1>3 DEF Building
  <2>2. candidates'[c] <= expiries'[c] + 0
    <3>1. expiries[c] \in Nat
      BY DEF DiscoveryTypes
    <3>. QED
      BY <1>4, <3>1
  <2>3. EventsOf(c)' = {} \/ OthersOf(c)' = {}
    BY <1>3
  <2>4. (\A e, f \in EventsOf(c)' : e = f) /\ (\A o, q \in OthersOf(c)' : o = q)
    BY <1>3
  <2>. QED
    BY <2>1, <2>2, <2>3, <2>4 DEF OneBuildsUnder
<1>6. ASSUME NEW k \in Key, k # c PROVE SameCandidates(k)
  <2>1. EventsOf(k)' = EventsOf(k)
    BY <1>6 DEF EventsOf, DiscoveryTypes
  <2>2. OthersOf(k)' = OthersOf(k)
    BY <1>6 DEF OthersOf, DiscoveryTypes
  <2>. QED
    BY <1>1, <1>6, <2>1, <2>2 DEF SameCandidates, SameBuilders
<1>7. \A k \in Key : OneBuildsUnder(k)'
  <2>1. ASSUME NEW k \in Key PROVE OneBuildsUnder(k)'
    <3>1. OneBuildsUnder(k)
      BY EachKey
    <3>2. CASE k = c
      BY <1>5, <3>2
    <3>3. CASE k # c
      BY <1>6, <3>1, <3>3, CandidatesKept
    <3>. QED
      BY <3>2, <3>3
  <2>. QED
    BY <2>1
<1>. QED
  BY <1>7 DEF OneBuilds, OneBuildsUnder

\* The one that built under c brings a candidate, or frees the key.
LEMMA Built ==
    ASSUME DiscoveryTypes, OneBuilds, NEW c \in Key, Outcome(c),
           \/ /\ \E e \in EventsOf(c) : handler' = [handler EXCEPT ![e] = "done"]
              /\ raw' = raw
           \/ /\ \E o \in OthersOf(c) : raw' = [raw EXCEPT ![o] = "none"]
              /\ handler' = handler,
           UNCHANGED expiries
    PROVE  OneBuilds'
<1>1. Building(c) /\ c \in lastEmitted
  BY DEF OneBuilds, Building
<1>2. EventsOf(c)' = {} /\ OthersOf(c)' = {}
  <2>1. ASSUME NEW e \in EventsOf(c), handler' = [handler EXCEPT ![e] = "done"], raw' = raw
        PROVE  EventsOf(c)' = {} /\ OthersOf(c)' = {}
    <3>1. OthersOf(c) = {} /\ \A f \in EventsOf(c) : f = e
      BY DEF OneBuilds
    <3>2. OthersOf(c)' = OthersOf(c)
      BY <2>1 DEF OthersOf
    <3>. QED
      BY <2>1, <3>1, <3>2 DEF EventsOf, DiscoveryTypes
  <2>2. ASSUME NEW o \in OthersOf(c), raw' = [raw EXCEPT ![o] = "none"], handler' = handler
        PROVE  EventsOf(c)' = {} /\ OthersOf(c)' = {}
    <3>1. EventsOf(c) = {} /\ \A q \in OthersOf(c) : q = o
      BY DEF OneBuilds
    <3>2. EventsOf(c)' = EventsOf(c)
      BY <2>2 DEF EventsOf
    <3>. QED
      BY <2>2, <3>1, <3>2 DEF OthersOf, DiscoveryTypes
  <2>. QED
    BY <2>1, <2>2
<1>3. /\ candidates[c] <= expiries[c] + 0
      /\ candidates[c] \in Nat /\ expiries[c] \in Nat
  BY <1>1 DEF OneBuilds, DiscoveryTypes
<1>4. candidates[c] <= expiries[c] /\ candidates[c] + 1 <= expiries[c] + 1
      /\ expiries[c] + 0 = expiries[c]
  BY <1>3
<1>5. OneBuildsUnder(c)'
  <2>1. ~ Building(c)'
    BY <1>2 DEF Building
  <2>2. CASE candidates' = [candidates EXCEPT ![c] = @ + 1] /\ UNCHANGED lastEmitted
    <3>1. candidates'[c] = candidates[c] + 1 /\ c \in lastEmitted' /\ expiries'[c] = expiries[c]
      BY <1>1, <2>2 DEF DiscoveryTypes
    <3>2. candidates'[c] <= expiries'[c] + 1
      BY <1>4, <3>1
    <3>. QED
      BY <1>2, <2>1, <3>1, <3>2 DEF OneBuildsUnder
  <2>3. CASE lastEmitted' = lastEmitted \ {c} /\ UNCHANGED candidates
    <3>1. candidates'[c] = candidates[c] /\ c \notin lastEmitted' /\ expiries'[c] = expiries[c]
      BY <2>3
    <3>2. candidates'[c] <= expiries'[c] + 0
      BY <1>3, <3>1
    <3>. QED
      BY <1>2, <2>1, <3>1, <3>2 DEF OneBuildsUnder
  <2>. QED
    BY <2>2, <2>3 DEF Outcome
<1>6. ASSUME NEW k \in Key, k # c PROVE SameCandidates(k)
  <2>1. EventsOf(k)' = EventsOf(k)
    <3>1. ASSUME NEW e \in EventsOf(c), handler' = [handler EXCEPT ![e] = "done"]
          PROVE  EventsOf(k)' = EventsOf(k)
      BY <1>6, <3>1 DEF EventsOf, DiscoveryTypes
    <3>2. CASE handler' = handler
      BY <3>2 DEF EventsOf
    <3>. QED
      BY <3>1, <3>2
  <2>2. OthersOf(k)' = OthersOf(k)
    <3>1. ASSUME NEW o \in OthersOf(c), raw' = [raw EXCEPT ![o] = "none"]
          PROVE  OthersOf(k)' = OthersOf(k)
      BY <1>6, <3>1 DEF OthersOf, DiscoveryTypes
    <3>2. CASE raw' = raw
      BY <3>2 DEF OthersOf
    <3>. QED
      BY <3>1, <3>2
  <2>3. candidates'[k] = candidates[k] /\ ((k \in lastEmitted') <=> (k \in lastEmitted))
    BY <1>6 DEF Outcome, DiscoveryTypes
  <2>. QED
    BY <2>1, <2>2, <2>3 DEF SameCandidates, SameBuilders
<1>7. ASSUME NEW k \in Key PROVE OneBuildsUnder(k)'
  <2>1. OneBuildsUnder(k)
    BY EachKey
  <2>2. CASE k = c
    BY <1>5, <2>2
  <2>3. CASE k # c
    BY <1>6, <2>1, <2>3, CandidatesKept
  <2>. QED
    BY <2>2, <2>3
<1>. QED
  BY <1>7 DEF OneBuilds, OneBuildsUnder

LEMMA Expired ==
    ASSUME DiscoveryTypes, OneBuilds, NEW c \in Key, DebounceExpires(c)
    PROVE  OneBuilds'
<1>1. /\ c \in lastEmitted /\ lastEmitted' = lastEmitted \ {c}
      /\ expiries' = [expiries EXCEPT ![c] = @ + 1]
      /\ UNCHANGED <<handler, raw, candidates>>
  BY DEF DebounceExpires
<1>2. EventsOf(c) = {} /\ OthersOf(c) = {}
  BY DEF DebounceExpires, EventsOf, OthersOf
<1>3. \A k \in Key : SameBuilders(k)
  BY <1>1 DEF SameBuilders, EventsOf, OthersOf
<1>4. OneBuildsUnder(c)'
  <2>1. EventsOf(c)' = {} /\ OthersOf(c)' = {} /\ c \notin lastEmitted'
    BY <1>1, <1>2, <1>3 DEF SameBuilders
  <2>2. /\ candidates[c] <= expiries[c] + 1 /\ expiries[c] \in Nat
        /\ expiries'[c] = expiries[c] + 1 /\ candidates'[c] = candidates[c]
    BY <1>1, <1>2 DEF OneBuilds, Building, DiscoveryTypes
  <2>3. candidates'[c] <= expiries'[c] + 0
    BY <2>2
  <2>. QED
    BY <2>1, <2>3 DEF OneBuildsUnder, Building
<1>5. ASSUME NEW k \in Key, k # c PROVE SameCandidates(k)
  BY <1>1, <1>3, <1>5 DEF SameCandidates, DiscoveryTypes
<1>6. ASSUME NEW k \in Key PROVE OneBuildsUnder(k)'
  <2>1. OneBuildsUnder(k)
    BY EachKey
  <2>2. CASE k = c
    BY <1>4, <2>2
  <2>3. CASE k # c
    BY <1>5, <2>1, <2>3, CandidatesKept
  <2>. QED
    BY <2>2, <2>3
<1>. QED
  BY <1>6 DEF OneBuilds, OneBuildsUnder

-----------------------------------------------------------------------------
(* The two together *)

PoolsInv ==
    /\ DiscoveryTypes /\ AttemptsHaveStages /\ OneBuilds
    /\ \A p \in NewPool : AsksAreCounted(p)

DiscoveryInv == RaydiumInv /\ PoolsInv

LEMMA DiscoveryStarts == DiscoveryInit => DiscoveryInv
<1>. SUFFICES ASSUME DiscoveryInit PROVE DiscoveryInv
  OBVIOUS
<1>1. RaydiumInv
  <2>1. /\ stopped = FALSE /\ removing = FALSE /\ disturbed = FALSE
        /\ subscriptionId = 1 /\ registered = {1} /\ lastId = 1
        /\ restart = [r \in Restart |-> "idle"]
    BY DEF DiscoveryInit, RaydiumInit
  <2>2. /\ stopped \in BOOLEAN /\ removing \in BOOLEAN /\ disturbed \in BOOLEAN
        /\ removing => stopped
    BY <2>1
  <2>3. /\ subscriptionId \in Nat /\ lastId \in Nat /\ registered \subseteq Nat \ {0}
        /\ restart \in [Restart -> {"idle", "waiting", "removing"}]
    BY <2>1
  <2>4. ~ stopped /\ registered \subseteq {subscriptionId} /\ \A r \in Restart : restart[r] = "idle"
    BY <2>1
  <2>. QED
    BY <2>2, <2>3, <2>4 DEF RaydiumInv, RaydiumTypes, OneRestart
<1>2. /\ handler = [e \in Event |-> "none"] /\ attempt = [e \in Event |-> 0]
      /\ attempts = [p \in NewPool |-> 0] /\ raw = [o \in Other |-> "none"]
      /\ lastEmitted = {} /\ candidates = [k \in Key |-> 0] /\ expiries = [k \in Key |-> 0]
      /\ asked = [p \in NewPool |-> 0]
  BY DEF DiscoveryInit
<1>3. DiscoveryTypes /\ AttemptsHaveStages
  BY <1>2 DEF DiscoveryTypes, AttemptsHaveStages
<1>4. OneBuilds
  <2>1. \A k \in Key : EventsOf(k) = {} /\ OthersOf(k) = {}
    BY <1>2 DEF EventsOf, OthersOf
  <2>2. \A k \in Key : ~ Building(k) /\ k \notin lastEmitted
    BY <1>2, <2>1 DEF Building
  <2>3. \A k \in Key : candidates[k] <= expiries[k] + 0
    BY <1>2
  <2>. QED
    BY <2>1, <2>2, <2>3 DEF OneBuilds
<1>5. ASSUME NEW p \in NewPool PROVE AsksAreCounted(p)
  <2>1. Begun(p) = {}
    BY <1>2, EventPairs DEF Begun, Event, Listener
  <2>2. Through(p) = {} /\ MayRetry(p) = {}
    BY <2>1 DEF Through, MayRetry
  <2>3. Cardinality({}) = 0
    BY FS_EmptySet
  <2>4. asked[p] = 0 /\ attempts[p] = 0
    BY <1>2
  <2>5. Granted(p) = 0 /\ Retries * 0 = 0
    BY <2>4 DEF Granted, Retries
  <2>. QED
    BY <2>1, <2>2, <2>3, <2>4, <2>5 DEF AsksAreCounted
<1>. QED
  BY <1>1, <1>3, <1>4, <1>5 DEF DiscoveryInv, PoolsInv

\* A step of a handler that begins, ends and builds nothing.
LEMMA Passes ==
    ASSUME PoolsInv, NEW e \in Event,
           NEW s \in {"fetching", "retrying", "done"},
           handler' = [handler EXCEPT ![e] = s], handler[e] \notin {"building", "done"},
           s = "done" => handler[e] = "fetching",
           s = "fetching" => handler[e] = "none",
           s = "retrying" => handler[e] = "asking" /\ attempt[e] < MaxAttempts,
           UNCHANGED <<attempt, attempts, raw, lastEmitted, candidates, expiries, asked>>
    PROVE  PoolsInv'
<1>. USE DEF PoolsInv
<1>1. DiscoveryTypes'
  BY DEF DiscoveryTypes
<1>2. AttemptsHaveStages'
  BY DEF AttemptsHaveStages, DiscoveryTypes
<1>3. OneBuilds'
  BY StageBuilds
<1>4. s # "done" \/ attempt[e] = 0
  BY DEF AttemptsHaveStages
<1>5. ASSUME NEW p \in NewPool PROVE AsksAreCounted(p)'
  <2>1. SameCounts(p)
    BY <1>4, StageChanges
  <2>. QED
    BY <2>1, CountsKept
<1>. QED
  BY <1>1, <1>2, <1>3, <1>5

\* A handler that asked is through, and builds nothing or has built.
LEMMA CountsOfEnd ==
    ASSUME PoolsInv, NEW e \in Event, handler[e] \in {"asking", "building"},
           handler' = [handler EXCEPT ![e] = "done"], UNCHANGED <<attempt, asked>>,
           attempts' = attempts \/ Forget(e[2])
    PROVE  /\ handler' \in [Event -> {"none", "fetching", "asking", "retrying", "building", "done"}]
           /\ attempt' \in [Event -> Nat] /\ attempts' \in [NewPool -> Nat]
           /\ asked' \in [NewPool -> Nat]
           /\ AttemptsHaveStages' /\ \A p \in NewPool : AsksAreCounted(p)'
<1>. USE DEF PoolsInv
<1>1. /\ handler' \in [Event -> {"none", "fetching", "asking", "retrying", "building", "done"}]
      /\ attempt' \in [Event -> Nat] /\ attempts' \in [NewPool -> Nat]
      /\ asked' \in [NewPool -> Nat]
  BY DEF DiscoveryTypes, Forget
<1>2. AttemptsHaveStages'
  BY DEF AttemptsHaveStages, DiscoveryTypes
<1>3. attempt[e] > 0
  BY DEF AttemptsHaveStages
<1>4. e[2] \in NewPool /\ attempts'[e[2]] \in {0, attempts[e[2]]}
      /\ \A p \in NewPool : p # e[2] => attempts'[p] = attempts[p]
  BY Keys DEF Forget, DiscoveryTypes
<1>5. ASSUME NEW p \in NewPool PROVE AsksAreCounted(p)'
  <2>1. CASE p = e[2]
    <3>1. AsksAreCounted(e[2])
      BY <1>4
    <3>2. AsksAreCounted(e[2])'
      BY <1>3, <1>4, <3>1, EndCounts
    <3>. QED
      BY <2>1, <3>2
  <2>2. CASE p # e[2]
    <3>1. \A f \in Event : f # e => handler'[f] = handler[f] /\ attempt'[f] = attempt[f]
      BY DEF DiscoveryTypes
    <3>2. SameCounts(p)
      BY <1>4, <2>2, <3>1, OtherPools
    <3>. QED
      BY <3>2, CountsKept
  <2>. QED
    BY <2>1, <2>2
<1>. QED
  BY <1>1, <1>2, <1>5

LEMMA EventSteps ==
    ASSUME PoolsInv, NEW e \in Event,
           InitializeSeen(e) \/ FetchFails(e) \/ HandlePoolInit(e) \/ NoPair(e)
             \/ AskFails(e) \/ PairFound(e) \/ Build(e)
    PROVE  PoolsInv'
<1>. USE DEF PoolsInv
<1>0. e[2] \in NewPool /\ <<"mint", e[2]>> \in Key
  BY Keys
<1>1. CASE InitializeSeen(e)
  BY <1>1, Passes DEF InitializeSeen, To
<1>2. CASE FetchFails(e)
  BY <1>2, Passes DEF FetchFails, To
<1>3. CASE HandlePoolInit(e)
  <2>1. /\ handler[e] \in {"fetching", "retrying"} /\ handler' = [handler EXCEPT ![e] = "asking"]
        /\ attempt' = [attempt EXCEPT ![e] = attempts[e[2]] + 1]
        /\ attempts' = [attempts EXCEPT ![e[2]] = @ + 1]
        /\ asked' = [asked EXCEPT ![e[2]] = @ + 1]
        /\ UNCHANGED <<raw, lastEmitted, candidates, expiries>>
    BY <1>3 DEF HandlePoolInit, To
  <2>2. DiscoveryTypes'
    BY <1>0, <2>1 DEF DiscoveryTypes
  <2>3. AttemptsHaveStages'
    <3>1. attempts[e[2]] \in Nat
      BY <1>0 DEF DiscoveryTypes
    <3>. QED
      BY <2>1, <3>1 DEF AttemptsHaveStages, DiscoveryTypes
  <2>4. OneBuilds'
    BY <2>1, StageBuilds
  <2>5. ASSUME NEW p \in NewPool PROVE AsksAreCounted(p)'
    <3>1. CASE p = e[2]
      <4>1. AsksAreCounted(e[2])'
        BY <1>0, <2>1, AskCounts
      <4>. QED
        BY <3>1, <4>1
    <3>2. CASE p # e[2]
      <4>1. /\ \A f \in Event : f # e => handler'[f] = handler[f] /\ attempt'[f] = attempt[f]
            /\ asked'[p] = asked[p] /\ attempts'[p] = attempts[p]
        BY <2>1, <3>2 DEF DiscoveryTypes
      <4>2. SameCounts(p)
        BY <3>2, <4>1, OtherPools
      <4>. QED
        BY <4>2, CountsKept
    <3>. QED
      BY <3>1, <3>2
  <2>. QED
    BY <2>2, <2>3, <2>4, <2>5
<1>4. CASE NoPair(e)
  <2>1. /\ handler[e] = "asking"
        /\ UNCHANGED <<attempt, raw, lastEmitted, candidates, expiries, asked>>
    BY <1>4 DEF NoPair
  <2>2. CASE attempt[e] < MaxAttempts
    BY <1>4, <2>1, <2>2, Passes DEF NoPair, To
  <2>3. CASE ~ (attempt[e] < MaxAttempts)
    <3>1. handler' = [handler EXCEPT ![e] = "done"] /\ Forget(e[2])
      BY <1>4, <2>3 DEF NoPair, To
    <3>2. OneBuilds'
      BY <2>1, <3>1, StageBuilds
    <3>. QED
      BY <2>1, <3>1, <3>2, CountsOfEnd DEF DiscoveryTypes
  <2>. QED
    BY <2>2, <2>3
<1>5. CASE AskFails(e)
  <2>1. /\ handler[e] = "asking" /\ handler' = [handler EXCEPT ![e] = "done"]
        /\ UNCHANGED <<attempt, attempts, raw, lastEmitted, candidates, expiries, asked>>
    BY <1>5 DEF AskFails, To
  <2>2. OneBuilds'
    BY <2>1, StageBuilds
  <2>. QED
    BY <2>1, <2>2, CountsOfEnd DEF DiscoveryTypes
<1>6. CASE PairFound(e)
  <2>1. /\ handler[e] = "asking" /\ UNCHANGED <<attempt, raw, candidates, expiries, asked>>
    BY <1>6 DEF PairFound
  <2>2. CASE Claim(<<"mint", e[2]>>) /\ To(e, "building") /\ UNCHANGED attempts
    <3>1. handler' = [handler EXCEPT ![e] = "building"] /\ UNCHANGED attempts
      BY <2>2 DEF To
    <3>2. DiscoveryTypes'
      BY <1>0, <2>1, <2>2, <3>1 DEF DiscoveryTypes, Claim
    <3>3. AttemptsHaveStages'
      BY <2>1, <3>1 DEF AttemptsHaveStages, DiscoveryTypes
    <3>4. OneBuilds'
      BY <1>0, <2>1, <2>2, <3>1, Claimed
    <3>5. ASSUME NEW p \in NewPool PROVE AsksAreCounted(p)'
      <4>1. SameCounts(p)
        BY <2>1, <3>1, StageChanges
      <4>. QED
        BY <4>1, CountsKept
    <3>. QED
      BY <3>2, <3>3, <3>4, <3>5
  <2>3. CASE To(e, "done") /\ Forget(e[2]) /\ UNCHANGED lastEmitted
    <3>1. handler' = [handler EXCEPT ![e] = "done"]
      BY <2>3 DEF To
    <3>2. OneBuilds'
      BY <2>1, <2>3, <3>1, StageBuilds
    <3>. QED
      BY <2>1, <2>3, <3>1, <3>2, CountsOfEnd DEF DiscoveryTypes
  <2>. QED
    BY <1>6, <2>2, <2>3 DEF PairFound
<1>7. CASE Build(e)
  <2>1. /\ handler[e] = "building" /\ Outcome(<<"mint", e[2]>>)
        /\ handler' = [handler EXCEPT ![e] = "done"] /\ Forget(e[2])
        /\ UNCHANGED <<attempt, raw, expiries, asked>>
    BY <1>7 DEF Build, To
  <2>2. OneBuilds'
    <3>1. e \in EventsOf(<<"mint", e[2]>>)
      BY <2>1 DEF EventsOf
    <3>. QED
      BY <1>0, <2>1, <3>1, Built
  <2>3. lastEmitted' \subseteq Key /\ candidates' \in [Key -> Nat]
    BY <1>0, <2>1 DEF Outcome, DiscoveryTypes
  <2>. QED
    BY <2>1, <2>2, <2>3, CountsOfEnd DEF DiscoveryTypes
<1>. QED
  BY <1>1, <1>2, <1>3, <1>4, <1>5, <1>6, <1>7

\* Steps that are no handler's.
LEMMA OthersPass ==
    ASSUME PoolsInv, UNCHANGED <<handler, attempt, attempts, asked>>,
           lastEmitted' \subseteq Key, raw' \in [Other -> {"none", "building"}],
           candidates' \in [Key -> Nat], expiries' \in [Key -> Nat], OneBuilds'
    PROVE  PoolsInv'
<1>. USE DEF PoolsInv
<1>1. \A p \in NewPool : SameCounts(p)
  BY DEF SameCounts, Begun, Through, MayRetry
<1>2. \A p \in NewPool : AsksAreCounted(p)'
  BY <1>1, CountsKept
<1>3. DiscoveryTypes' /\ AttemptsHaveStages'
  BY DEF DiscoveryTypes, AttemptsHaveStages
<1>. QED
  BY <1>2, <1>3

LEMMA DiscoverySteps == DiscoveryInv /\ [DiscoveryNext]_feedVars => DiscoveryInv'
<1>. SUFFICES ASSUME DiscoveryInv, [DiscoveryNext]_feedVars PROVE DiscoveryInv'
  OBVIOUS
<1>0. RaydiumInv /\ PoolsInv /\ DiscoveryTypes /\ OneBuilds
  BY DEF DiscoveryInv, PoolsInv
<1>1. UNCHANGED raydiumVars => RaydiumInv'
  BY <1>0, RaydiumSteps
<1>2. UNCHANGED discoveryVars => PoolsInv'
  <2>. SUFFICES ASSUME UNCHANGED discoveryVars PROVE PoolsInv'
    OBVIOUS
  <2>1. UNCHANGED <<handler, attempt, attempts, raw, lastEmitted, candidates, expiries, asked>>
    BY DEF discoveryVars
  <2>2. OneBuilds'
    BY <1>0, <2>1 DEF OneBuilds, Building, EventsOf, OthersOf
  <2>. QED
    BY <1>0, <2>1, <2>2, OthersPass DEF DiscoveryTypes
<1>3. CASE RaydiumNext /\ UNCHANGED discoveryVars
  BY <1>0, <1>2, <1>3, RaydiumSteps DEF DiscoveryInv
<1>4. ASSUME NEW e \in Event, UNCHANGED raydiumVars,
             InitializeSeen(e) \/ FetchFails(e) \/ HandlePoolInit(e) \/ NoPair(e)
               \/ AskFails(e) \/ PairFound(e) \/ Build(e)
      PROVE  DiscoveryInv'
  BY <1>0, <1>1, <1>4, EventSteps DEF DiscoveryInv
<1>5. ASSUME NEW o \in Other, UNCHANGED raydiumVars, RawEvent(o) PROVE DiscoveryInv'
  <2>1. /\ raw[o] = "none" /\ Claim(KeyOf(o)) /\ raw' = [raw EXCEPT ![o] = "building"]
        /\ UNCHANGED <<handler, attempt, attempts, candidates, expiries, asked>>
    BY <1>5 DEF RawEvent
  <2>2. KeyOf(o) \in Key
    BY Keys
  <2>3. OneBuilds'
    BY <1>0, <2>1, <2>2, Claimed
  <2>4. lastEmitted' \subseteq Key /\ raw' \in [Other -> {"none", "building"}]
    BY <1>0, <2>1, <2>2 DEF Claim, DiscoveryTypes
  <2>5. PoolsInv'
    BY <1>0, <2>1, <2>3, <2>4, OthersPass DEF DiscoveryTypes
  <2>. QED
    BY <1>1, <1>5, <2>5 DEF DiscoveryInv
<1>6. ASSUME NEW o \in Other, UNCHANGED raydiumVars, RawBuild(o) PROVE DiscoveryInv'
  <2>1. /\ raw[o] = "building" /\ Outcome(KeyOf(o)) /\ raw' = [raw EXCEPT ![o] = "none"]
        /\ UNCHANGED <<handler, attempt, attempts, expiries, asked>>
    BY <1>6 DEF RawBuild
  <2>2. KeyOf(o) \in Key /\ o \in OthersOf(KeyOf(o))
    BY <2>1, Keys DEF OthersOf
  <2>3. OneBuilds'
    BY <1>0, <2>1, <2>2, Built
  <2>4. /\ lastEmitted' \subseteq Key /\ raw' \in [Other -> {"none", "building"}]
        /\ candidates' \in [Key -> Nat]
    BY <1>0, <2>1, <2>2 DEF Outcome, DiscoveryTypes
  <2>5. PoolsInv'
    BY <1>0, <2>1, <2>3, <2>4, OthersPass DEF DiscoveryTypes
  <2>. QED
    BY <1>1, <1>6, <2>5 DEF DiscoveryInv
<1>7. ASSUME NEW k \in Key, UNCHANGED raydiumVars, DebounceExpires(k) PROVE DiscoveryInv'
  <2>1. /\ lastEmitted' = lastEmitted \ {k} /\ expiries' = [expiries EXCEPT ![k] = @ + 1]
        /\ UNCHANGED <<handler, attempt, attempts, raw, candidates, asked>>
    BY <1>7 DEF DebounceExpires
  <2>2. OneBuilds'
    BY <1>0, <1>7, Expired
  <2>3. lastEmitted' \subseteq Key /\ expiries' \in [Key -> Nat]
    BY <1>0, <2>1 DEF DiscoveryTypes
  <2>4. PoolsInv'
    BY <1>0, <2>1, <2>2, <2>3, OthersPass DEF DiscoveryTypes
  <2>. QED
    BY <1>1, <1>7, <2>4 DEF DiscoveryInv
<1>8. CASE UNCHANGED feedVars
  BY <1>1, <1>2, <1>8 DEF feedVars, DiscoveryInv
<1>. QED
  BY <1>3, <1>4, <1>5, <1>6, <1>7, <1>8 DEF DiscoveryNext

\* With any number of listeners, pools and overlapping restarts: a pool is asked for at
\* most MaxAttempts times for each handler that began (handlePoolInit and its retries
\* share and clear one count), a key brings one candidate per debounce, and the watcher
\* loses its listener only when restarts overlap or stop comes during one.
THEOREM PoolsHandledOnce == DiscoverySpec => []PoolsAreHandledOnce
<1>1. DiscoveryInv => PoolsAreHandledOnce
  <2>. SUFFICES ASSUME DiscoveryInv PROVE PoolsAreHandledOnce
    OBVIOUS
  <2>1. AttemptsAreBounded
    <3>1. \A p \in NewPool : asked[p] <= MaxAttempts * Cardinality(Begun(p))
      BY CountedIsBounded DEF DiscoveryInv, PoolsInv
    <3>. QED
      BY <3>1 DEF AttemptsAreBounded, Begun, Listener
  <2>2. OneCandidatePerDebounce
    <3>1. ASSUME NEW k \in Key PROVE candidates[k] <= 1 + expiries[k]
      <4>1. /\ candidates[k] \in Nat /\ expiries[k] \in Nat
            /\ \/ candidates[k] <= expiries[k] + 1
               \/ candidates[k] <= expiries[k] + 0
        BY DEF DiscoveryInv, PoolsInv, DiscoveryTypes, OneBuilds
      <4>. QED
        BY <4>1
    <3>. QED
      BY <3>1 DEF OneCandidatePerDebounce
  <2>3. ListenerIsKnown
    BY DEF DiscoveryInv, RaydiumInv, OneRestart, ListenerIsKnown
  <2>. QED
    BY <2>1, <2>2, <2>3 DEF PoolsAreHandledOnce
<1>. QED
  BY <1>1, DiscoveryStarts, DiscoverySteps, PTL DEF DiscoverySpec

-----------------------------------------------------------------------------
(* SocialFirehose *)

Handling == [event : 0..MaxSeq, stage : {"none", "mkdir", "writing"}, text : Nat]
FirehoseTypes ==
    /\ newestEvent \in 0..MaxSeq /\ cursor \in Nat /\ cursorFile \in Nat /\ nextEvent \in Nat
    /\ socket \in {"off", "backoff", "open"} /\ (socket = "open" => nextEvent > 0)
    /\ handled \in [Slot -> Handling]
    /\ \A k \in Slot : handled[k] # Idle => handled[k].event > 0
    /\ crashes \in Nat /\ arrived \in [1..MaxSeq -> Nat]

\* What a process has emitted it has seen: a new one begins without.
SeenOncePerProcess ==
    \A e \in 1..MaxSeq : /\ arrived[e] <= 1 + crashes
                         /\ e \notin seenPosts => arrived[e] <= crashes
                         /\ e \in seenPosts => arrived[e] > 0

Accounted(e) ==
    \/ arrived[e] > 0
    \/ e \in lostInCrash \union unseen
    \/ \E k \in Slot : handled[k].event = e
\* What a cursor is past, or what the socket has brought, or what a write under way will
\* put into the file.
Passed(e) ==
    \/ e <= cursor \/ e <= cursorFile
    \/ socket = "open" /\ e < nextEvent
    \/ \E k \in Slot : handled[k].stage = "writing" /\ e <= handled[k].text
PassedAreAccounted == \A e \in 1..MaxSeq : Passed(e) => Accounted(e)

FirehoseInv == FirehoseTypes /\ SeenOncePerProcess /\ PassedAreAccounted

LEMMA FirehoseBegins == FirehoseInit => FirehoseInv
<1>. SUFFICES ASSUME FirehoseInit PROVE FirehoseInv
  OBVIOUS
<1>1. FirehoseTypes
  BY FirehoseConstants DEF FirehoseInit, FirehoseTypes, Handling, Idle, Slot
<1>2. SeenOncePerProcess
  BY DEF FirehoseInit, SeenOncePerProcess
<1>3. PassedAreAccounted
  <2>. SUFFICES ASSUME NEW e \in 1..MaxSeq PROVE ~Passed(e)
    BY DEF PassedAreAccounted
  <2>1. \A k \in Slot : handled[k].stage = "none"
    BY DEF FirehoseInit, Idle
  <2>. QED
    BY <2>1 DEF FirehoseInit, Passed
<1>. QED
  BY <1>1, <1>2, <1>3 DEF FirehoseInv

\* The socket opens where a cursor is that is known, or where what has been is noted.
LEMMA ConnectsBehind ==
    ASSUME FirehoseInv, NEW from \in {cursor, cursorFile}, ConnectFrom(from),
           UNCHANGED <<newestEvent, handled, arrived, lostInCrash>>
    PROVE  /\ nextEvent' \in Nat /\ nextEvent' > 0 /\ socket' = "open"
           /\ \A e \in 1..MaxSeq : Accounted(e) => Accounted(e)'
           /\ \A e \in 1..MaxSeq : e < nextEvent' => Accounted(e)'
<1>1. from \in Nat /\ newestEvent \in Nat /\ socket' = "open"
  BY FirehoseConstants DEF FirehoseInv, FirehoseTypes, ConnectFrom
<1>2. \A e \in 1..MaxSeq : Accounted(e) => Accounted(e)'
  BY DEF Accounted, ConnectFrom
<1>3. CASE from = 0
  <2>1. nextEvent' = newestEvent + 1 /\ unseen' = unseen \union 1..newestEvent
    BY <1>3 DEF ConnectFrom, Resume
  <2>2. \A e \in 1..MaxSeq : e < nextEvent' => e \in unseen'
    BY <1>1, <2>1, FirehoseConstants
  <2>. QED
    BY <1>1, <1>2, <2>1, <2>2 DEF Accounted
<1>4. CASE from # 0
  <2>1. nextEvent' \in {from, from + 1}
    BY <1>4 DEF ConnectFrom, Resume
  <2>2. \A e \in 1..MaxSeq : e < nextEvent' => e <= from
    BY <1>1, <2>1, FirehoseConstants
  <2>3. \A e \in 1..MaxSeq : e <= from => Accounted(e)
    BY DEF FirehoseInv, PassedAreAccounted, Passed
  <2>4. nextEvent' \in Nat /\ nextEvent' > 0
    BY <1>1, <1>4, <2>1
  <2>. QED
    BY <1>1, <1>2, <2>2, <2>3, <2>4
<1>. QED
  BY <1>3, <1>4

\* What is accounted for stays so, and nothing is passed that was not.
LEMMA NothingPassed ==
    ASSUME FirehoseInv, FirehoseTypes', SeenOncePerProcess',
           \A e \in 1..MaxSeq : Accounted(e) => Accounted(e)',
           \A e \in 1..MaxSeq : Passed(e)' => Passed(e) \/ Accounted(e)'
    PROVE  FirehoseInv'
  BY DEF FirehoseInv, PassedAreAccounted

LEMMA StartFirehoseKeeps == ASSUME FirehoseInv, StartFirehose PROVE FirehoseInv'
<1>1. /\ cursor' = cursorFile /\ ConnectFrom(cursorFile)
      /\ UNCHANGED <<jetstreamVars, cursorFile, handled, seenPosts, arrived, lostInCrash>>
  BY DEF StartFirehose
<1>2. /\ nextEvent' \in Nat /\ nextEvent' > 0 /\ socket' = "open"
      /\ \A e \in 1..MaxSeq : Accounted(e) => Accounted(e)'
      /\ \A e \in 1..MaxSeq : e < nextEvent' => Accounted(e)'
  BY <1>1, ConnectsBehind DEF jetstreamVars
<1>3. FirehoseTypes'
  BY <1>1, <1>2 DEF FirehoseInv, FirehoseTypes, jetstreamVars
<1>4. SeenOncePerProcess'
  BY <1>1 DEF FirehoseInv, SeenOncePerProcess, jetstreamVars
<1>5. \A e \in 1..MaxSeq : Passed(e)' => Passed(e) \/ Accounted(e)'
  BY <1>1, <1>2 DEF Passed
<1>. QED
  BY <1>2, <1>3, <1>4, <1>5, NothingPassed

LEMMA ReconnectKeeps == ASSUME FirehoseInv, Reconnect PROVE FirehoseInv'
<1>1. /\ ConnectFrom(cursor)
      /\ UNCHANGED <<jetstreamVars, cursor, cursorFile, handled, seenPosts, arrived, lostInCrash>>
  BY DEF Reconnect
<1>2. /\ nextEvent' \in Nat /\ nextEvent' > 0 /\ socket' = "open"
      /\ \A e \in 1..MaxSeq : Accounted(e) => Accounted(e)'
      /\ \A e \in 1..MaxSeq : e < nextEvent' => Accounted(e)'
  BY <1>1, ConnectsBehind DEF jetstreamVars
<1>3. FirehoseTypes'
  BY <1>1, <1>2 DEF FirehoseInv, FirehoseTypes, jetstreamVars
<1>4. SeenOncePerProcess'
  BY <1>1 DEF FirehoseInv, SeenOncePerProcess, jetstreamVars
<1>5. \A e \in 1..MaxSeq : Passed(e)' => Passed(e) \/ Accounted(e)'
  BY <1>1, <1>2 DEF Passed
<1>. QED
  BY <1>2, <1>3, <1>4, <1>5, NothingPassed

LEMMA SocketClosesKeeps == ASSUME FirehoseInv, SocketCloses PROVE FirehoseInv'
<1>1. FirehoseTypes'
  BY DEF SocketCloses, FirehoseInv, FirehoseTypes, historyVars
<1>2. SeenOncePerProcess'
  BY DEF SocketCloses, FirehoseInv, SeenOncePerProcess, historyVars
<1>3. \A e \in 1..MaxSeq : Accounted(e) => Accounted(e)'
  BY DEF SocketCloses, Accounted, historyVars
<1>4. \A e \in 1..MaxSeq : Passed(e)' => Passed(e)
  BY DEF SocketCloses, Passed
<1>. QED
  BY <1>1, <1>2, <1>3, <1>4, NothingPassed

LEMMA EventAppearsKeeps == ASSUME FirehoseInv, EventAppears PROVE FirehoseInv'
<1>1. FirehoseTypes'
  <2>1. newestEvent' \in 0..MaxSeq
    BY FirehoseConstants DEF EventAppears, FirehoseInv, FirehoseTypes
  <2>. QED
    BY <2>1 DEF EventAppears, FirehoseInv, FirehoseTypes, historyVars
<1>2. SeenOncePerProcess'
  BY DEF EventAppears, FirehoseInv, SeenOncePerProcess, historyVars
<1>3. \A e \in 1..MaxSeq : Accounted(e) => Accounted(e)'
  BY DEF EventAppears, Accounted, historyVars
<1>4. \A e \in 1..MaxSeq : Passed(e)' => Passed(e)
  BY DEF EventAppears, Passed
<1>. QED
  BY <1>1, <1>2, <1>3, <1>4, NothingPassed

LEMMA MessageArrivesKeeps ==
    ASSUME FirehoseInv, NEW k \in Slot, MessageArrives(k) PROVE FirehoseInv'
<1>. DEFINE h == [event |-> nextEvent, stage |-> "mkdir", text |-> 0]
<1>1. /\ socket = "open" /\ nextEvent <= newestEvent /\ handled[k] = Idle
      /\ cursor' = nextEvent /\ nextEvent' = nextEvent + 1
      /\ handled' = [handled EXCEPT ![k] = h]
      /\ UNCHANGED <<jetstreamVars, cursorFile, socket, seenPosts, historyVars>>
  BY DEF MessageArrives
<1>2. nextEvent \in 1..MaxSeq /\ nextEvent \in 0..MaxSeq /\ nextEvent + 1 \in Nat /\ nextEvent + 1 > 0
  BY <1>1, FirehoseConstants DEF FirehoseInv, FirehoseTypes
<1>3. h \in Handling /\ h.event = nextEvent /\ h.stage = "mkdir"
  BY <1>2 DEF Handling
<1>. HIDE DEF h
<1>4. /\ handled' \in [Slot -> Handling] /\ handled'[k] = h
      /\ \A j \in Slot \ {k} : handled'[j] = handled[j]
  BY <1>1, <1>3 DEF FirehoseInv, FirehoseTypes
<1>5. FirehoseTypes'
  BY <1>1, <1>2, <1>3, <1>4 DEF FirehoseInv, FirehoseTypes, jetstreamVars, historyVars
<1>6. SeenOncePerProcess'
  BY <1>1 DEF FirehoseInv, SeenOncePerProcess, jetstreamVars, historyVars
<1>7. \A e \in 1..MaxSeq : Accounted(e) => Accounted(e)'
  <2>1. \A j \in Slot : handled[j].event # 0 => j # k
    BY <1>1 DEF Idle
  <2>. QED
    BY <1>1, <1>4, <2>1 DEF Accounted, historyVars
<1>8. ASSUME NEW e \in 1..MaxSeq, Passed(e)' PROVE Passed(e) \/ Accounted(e)'
  <2>1. CASE e = nextEvent
    BY <1>3, <1>4, <2>1 DEF Accounted
  <2>2. CASE e < nextEvent
    BY <1>1, <2>2 DEF Passed
  <2>3. CASE e > nextEvent
    <3>1. ~(e <= cursor') /\ ~(e < nextEvent')
      BY <1>1, <1>2, <2>3
    <3>. QED
      BY <1>1, <1>3, <1>4, <1>8, <3>1 DEF Passed
  <2>. QED
    BY <1>2, <2>1, <2>2, <2>3
<1>. QED
  BY <1>5, <1>6, <1>7, <1>8, NothingPassed

LEMMA OpenFileKeeps ==
    ASSUME FirehoseInv, NEW k \in Slot, OpenFile(k) PROVE FirehoseInv'
<1>. DEFINE h == [handled[k] EXCEPT !.stage = "writing", !.text = cursor]
<1>1. /\ handled[k].stage = "mkdir" /\ cursorFile' = 0
      /\ handled' = [handled EXCEPT ![k] = h]
      /\ UNCHANGED <<jetstreamVars, cursor, socket, nextEvent, seenPosts, historyVars>>
  BY DEF OpenFile, FirehoseInv, FirehoseTypes
<1>2. /\ h \in Handling /\ h.event = handled[k].event /\ h.text = cursor
  BY DEF FirehoseInv, FirehoseTypes, Handling
<1>. HIDE DEF h
<1>3. /\ handled' \in [Slot -> Handling] /\ handled'[k] = h
      /\ \A j \in Slot \ {k} : handled'[j] = handled[j]
  BY <1>1, <1>2 DEF FirehoseInv, FirehoseTypes
<1>4. FirehoseTypes'
  <2>1. handled[k] # Idle
    BY <1>1 DEF Idle
  <2>. QED
    BY <1>1, <1>2, <1>3, <2>1 DEF FirehoseInv, FirehoseTypes, jetstreamVars, historyVars
<1>5. SeenOncePerProcess'
  BY <1>1 DEF FirehoseInv, SeenOncePerProcess, jetstreamVars, historyVars
<1>6. \A e \in 1..MaxSeq : Accounted(e) => Accounted(e)'
  BY <1>1, <1>2, <1>3 DEF Accounted, historyVars
<1>7. ASSUME NEW e \in 1..MaxSeq, Passed(e)' PROVE Passed(e)
  <2>1. ~(e <= cursorFile')
    BY <1>1
  <2>2. CASE \E j \in Slot : handled'[j].stage = "writing" /\ e <= handled'[j].text
    BY <1>2, <1>3, <2>2 DEF Passed
  <2>3. CASE e <= cursor' \/ (socket' = "open" /\ e < nextEvent')
    BY <1>1, <2>3 DEF Passed
  <2>. QED
    BY <1>7, <2>1, <2>2, <2>3 DEF Passed
<1>. QED
  BY <1>4, <1>5, <1>6, <1>7, NothingPassed

\* The rest of a handler, whether or not its write went through.
LEMMA EmitPostKeeps ==
    ASSUME FirehoseInv, NEW k \in Slot, handled[k] # Idle, EmitPost(k),
           \/ UNCHANGED cursorFile
           \/ handled[k].stage = "writing" /\ cursorFile' = handled[k].text
    PROVE  FirehoseInv'
<1>. DEFINE x == handled[k].event
<1>1. /\ seenPosts' = seenPosts \union {x}
      /\ arrived' = IF x \in seenPosts THEN arrived ELSE [arrived EXCEPT ![x] = @ + 1]
      /\ handled' = [handled EXCEPT ![k] = Idle]
      /\ UNCHANGED <<jetstreamVars, cursor, socket, nextEvent, lostInCrash, unseen>>
  BY DEF EmitPost
<1>2. x \in 1..MaxSeq /\ handled[k] \in Handling /\ handled[k].text \in Nat
  BY FirehoseConstants DEF FirehoseInv, FirehoseTypes, Handling
<1>3. Idle \in Handling /\ Idle.event = 0 /\ Idle.stage = "none"
  BY FirehoseConstants DEF Idle, Handling
<1>4. /\ handled' \in [Slot -> Handling] /\ handled'[k] = Idle
      /\ \A j \in Slot \ {k} : handled'[j] = handled[j]
  BY <1>1, <1>3 DEF FirehoseInv, FirehoseTypes
<1>. HIDE DEF x
<1>5. /\ arrived' \in [1..MaxSeq -> Nat]
      /\ \A e \in 1..MaxSeq \ {x} : arrived'[e] = arrived[e]
      /\ \/ x \in seenPosts /\ arrived'[x] = arrived[x]
         \/ x \notin seenPosts /\ arrived'[x] = arrived[x] + 1
  BY <1>1, <1>2 DEF FirehoseInv, FirehoseTypes
<1>6. FirehoseTypes'
  BY <1>1, <1>2, <1>4, <1>5 DEF FirehoseInv, FirehoseTypes, jetstreamVars
<1>7. arrived'[x] > 0
  <2>1. x \in seenPosts => arrived[x] > 0
    BY <1>2 DEF FirehoseInv, SeenOncePerProcess
  <2>2. arrived[x] \in Nat
    BY <1>2 DEF FirehoseInv, FirehoseTypes
  <2>. QED
    BY <1>5, <2>1, <2>2
<1>8. SeenOncePerProcess'
  <2>. SUFFICES ASSUME NEW e \in 1..MaxSeq
                PROVE  /\ arrived'[e] <= 1 + crashes /\ (e \notin seenPosts' => arrived'[e] <= crashes)
                       /\ (e \in seenPosts' => arrived'[e] > 0)
    BY <1>1 DEF SeenOncePerProcess, jetstreamVars
  <2>1. CASE e = x
    <3>1. /\ arrived[x] \in Nat /\ crashes \in Nat /\ arrived[x] <= 1 + crashes
          /\ (x \notin seenPosts => arrived[x] <= crashes)
      BY <1>2 DEF FirehoseInv, FirehoseTypes, SeenOncePerProcess
    <3>2. arrived'[x] <= 1 + crashes
      BY <1>5, <3>1
    <3>. QED
      BY <1>1, <1>7, <2>1, <3>2
  <2>2. CASE e # x
    <3>1. /\ arrived[e] <= 1 + crashes /\ (e \notin seenPosts => arrived[e] <= crashes)
          /\ (e \in seenPosts => arrived[e] > 0)
      BY DEF FirehoseInv, SeenOncePerProcess
    <3>2. arrived'[e] = arrived[e] /\ (e \in seenPosts' => e \in seenPosts) /\ (e \notin seenPosts' => e \notin seenPosts)
      BY <1>1, <1>5, <2>2
    <3>. QED
      BY <3>1, <3>2
  <2>. QED
    BY <2>1, <2>2
<1>9. ASSUME NEW e \in 1..MaxSeq, Accounted(e) PROVE Accounted(e)'
  <2>1. CASE e = x
    BY <1>7, <2>1 DEF Accounted
  <2>2. CASE e # x
    <3>1. arrived'[e] = arrived[e]
      BY <1>5, <2>2
    <3>2. \A j \in Slot : handled[j].event = e => j # k
      BY <2>2 DEF x
    <3>. QED
      BY <1>1, <1>4, <1>9, <3>1, <3>2 DEF Accounted
  <2>. QED
    BY <2>1, <2>2
<1>10. ASSUME NEW e \in 1..MaxSeq, Passed(e)' PROVE Passed(e)
  <2>1. \A j \in Slot : handled'[j].stage = "writing" => handled'[j] = handled[j]
    BY <1>3, <1>4
  <2>. QED
    BY <1>1, <1>10, <2>1 DEF Passed
<1>. QED
  BY <1>6, <1>8, <1>9, <1>10, NothingPassed

LEMMA FirehoseCrashesKeeps == ASSUME FirehoseInv, FirehoseCrashes PROVE FirehoseInv'
<1>1. /\ crashes' = crashes + 1
      /\ lostInCrash' = lostInCrash \union ({handled[k].event : k \in Slot} \ {0})
      /\ handled' = [k \in Slot |-> Idle]
      /\ socket' = "off" /\ cursor' = 0 /\ nextEvent' = 0 /\ seenPosts' = {}
      /\ UNCHANGED <<newestEvent, breaks, cursorFile, arrived, unseen>>
  BY DEF FirehoseCrashes
<1>2. Idle \in Handling /\ Idle.event = 0 /\ Idle.stage = "none"
  BY FirehoseConstants DEF Idle, Handling
<1>3. FirehoseTypes'
  BY <1>1, <1>2 DEF FirehoseInv, FirehoseTypes
<1>4. SeenOncePerProcess'
  <2>. SUFFICES ASSUME NEW e \in 1..MaxSeq PROVE arrived[e] <= 1 + (crashes + 1) /\ arrived[e] <= crashes + 1
    BY <1>1 DEF SeenOncePerProcess
  <2>1. arrived[e] \in Nat /\ crashes \in Nat /\ arrived[e] <= 1 + crashes
    BY DEF FirehoseInv, FirehoseTypes, SeenOncePerProcess
  <2>. QED
    BY <2>1
<1>5. ASSUME NEW e \in 1..MaxSeq, Accounted(e) PROVE Accounted(e)'
  <2>1. e # 0
    OBVIOUS
  <2>. QED
    BY <1>1, <1>5, <2>1 DEF Accounted
<1>6. ASSUME NEW e \in 1..MaxSeq, Passed(e)' PROVE Passed(e)
  <2>1. ~(e <= cursor') /\ socket' # "open" /\ \A k \in Slot : handled'[k].stage # "writing"
    BY <1>1, <1>2
  <2>. QED
    BY <1>1, <1>6, <2>1 DEF Passed
<1>. QED
  BY <1>3, <1>4, <1>5, <1>6, NothingPassed

LEMMA FirehoseStep == FirehoseInv /\ [FirehoseNext]_firehoseVars => FirehoseInv'
<1>1. ASSUME FirehoseInv, UNCHANGED firehoseVars PROVE FirehoseInv'
  <2>1. FirehoseTypes' /\ SeenOncePerProcess'
    BY <1>1 DEF firehoseVars, jetstreamVars, historyVars, FirehoseInv, FirehoseTypes, SeenOncePerProcess
  <2>2. PassedAreAccounted'
    BY <1>1 DEF firehoseVars, jetstreamVars, historyVars, FirehoseInv, PassedAreAccounted, Passed,
       Accounted
  <2>. QED
    BY <2>1, <2>2 DEF FirehoseInv
<1>2. ASSUME FirehoseInv, NEW k \in Slot, WriteEnds(k) \/ WriteFails(k) PROVE FirehoseInv'
  <2>1. CASE WriteEnds(k)
    <3>1. handled[k] # Idle
      BY <2>1 DEF WriteEnds, Idle
    <3>. QED
      BY <1>2, <2>1, <3>1, EmitPostKeeps DEF WriteEnds
  <2>2. CASE WriteFails(k)
    BY <1>2, <2>2, EmitPostKeeps DEF WriteFails
  <2>. QED
    BY <1>2, <2>1, <2>2
<1>. QED
  BY <1>1, <1>2, StartFirehoseKeeps, ReconnectKeeps, SocketClosesKeeps, EventAppearsKeeps,
     FirehoseCrashesKeeps, MessageArrivesKeeps, OpenFileKeeps DEF FirehoseNext

LEMMA FirehoseSuffices == FirehoseInv => MissedOnlyAtCrash /\ RepeatedOnlyByRestart
  BY DEF FirehoseInv, PassedAreAccounted, Passed, Accounted, SeenOncePerProcess,
     MissedOnlyAtCrash, RepeatedOnlyByRestart

-----------------------------------------------------------------------------
(* SocialSources *)

States == {"idle", "running", "error"}
SourceTypes ==
    /\ sourceState \in [AllSources -> States] /\ posts \in [Message -> Nat]
    /\ toStart \union startedSources \subseteq AllSources /\ toStop \subseteq startedSources

\* What is still to be started reports nothing.
NotYetStarted ==
    \A s \in toStart : s \notin startedSources /\ sourceState[s] = "idle"
\* A number is seen since a message that has it came, and was emitted if it has a text.
SeenSinceReached ==
    /\ \A m \in Message : posts[m] <= 1 /\ (posts[m] > 0 => m \in reached)
    /\ \A m \in reached : m.id \in seenMessages
    /\ \A id \in seenMessages :
          \E m \in reached : m \in Message /\ m.id = id /\ (m.text => posts[m] > 0)

SourcesInv == SourceTypes /\ NotYetStarted /\ HealthServesStates /\ SeenSinceReached

LEMMA SourcesBegin == SourcesInit => SourcesInv
<1>. SUFFICES ASSUME SourcesInit PROVE SourcesInv
  OBVIOUS
<1>1. SourceTypes /\ NotYetStarted
  BY DEF SourcesInit, SourceTypes, NotYetStarted, States
<1>2. HealthServesStates
  BY DEF SourcesInit, HealthServesStates
<1>3. SeenSinceReached
  BY DEF SourcesInit, SeenSinceReached
<1>. QED
  BY <1>1, <1>2, <1>3 DEF SourcesInv

LEMMA NothingDelivered ==
    ASSUME SourcesInv, UNCHANGED <<seenMessages, reached, posts>> PROVE SeenSinceReached'
  BY DEF SourcesInv, SeenSinceReached

\* A source reports: it is not to be started any more, and runs only if it was started.
LEMMA ReportIsServed ==
    ASSUME SourcesInv, NEW s \in AllSources, NEW state \in States, Reports(s, state),
           toStart' \subseteq toStart, startedSources \subseteq startedSources',
           startedSources' \intersect toStart' = {},
           s \notin toStart', state = "running" => s \in startedSources',
           UNCHANGED <<seenMessages, reached, posts>>, startedSources' \subseteq AllSources,
           toStop' \subseteq startedSources'
    PROVE  SourcesInv'
<1>1. /\ sourceState' \in [AllSources -> States] /\ sourceState'[s] = state
      /\ \A t \in AllSources \ {s} : sourceState'[t] = sourceState[t]
      /\ statusMap' = sourceState'
  BY DEF Reports, SourcesInv, SourceTypes, HealthServesStates
<1>2. SourceTypes'
  BY <1>1 DEF SourcesInv, SourceTypes
<1>3. \A t \in AllSources : t \in toStart' => t \in toStart /\ t # s
  OBVIOUS
<1>4. NotYetStarted'
  <2>1. toStart' \subseteq AllSources
    BY DEF SourcesInv, SourceTypes
  <2>. QED
    BY <1>1, <1>3, <2>1 DEF SourcesInv, NotYetStarted
<1>5. HealthServesStates'
  BY <1>1 DEF SourcesInv, HealthServesStates
<1>. QED
  BY <1>2, <1>4, <1>5, NothingDelivered DEF SourcesInv

LEMMA SkipSourceKeeps == ASSUME SourcesInv, NEW s \in AllSources, SkipSource(s) PROVE SourcesInv'
<1>1. /\ s \in toStart /\ toStart' = toStart \ {s} /\ statusMap' = [statusMap EXCEPT ![s] = "idle"]
      /\ UNCHANGED <<hasKeys, toStop, startedSources, sourceState, telegramVars>>
  BY DEF SkipSource
<1>2. statusMap' = statusMap
  <2>1. statusMap \in [AllSources -> States] /\ statusMap[s] = "idle"
    BY <1>1 DEF SourcesInv, SourceTypes, HealthServesStates, NotYetStarted
  <2>. QED
    BY <1>1, <2>1
<1>3. SourceTypes' /\ NotYetStarted' /\ HealthServesStates'
  BY <1>1, <1>2 DEF SourcesInv, SourceTypes, NotYetStarted, HealthServesStates, telegramVars
<1>. QED
  BY <1>1, <1>3, NothingDelivered DEF SourcesInv, telegramVars

LEMMA SourcesReport ==
    ASSUME SourcesInv, NEW s \in AllSources,
           StartPolled(s) \/ PollReports(s) \/ StopOne(s)
    PROVE  SourcesInv'
<1>0. /\ startedSources \intersect toStart = {}
      /\ toStart \union startedSources \subseteq AllSources /\ toStop \subseteq startedSources
  BY DEF SourcesInv, SourceTypes, NotYetStarted
<1>1. CASE StartPolled(s)
  <2>1. /\ toStart' = toStart \ {s} /\ startedSources' = startedSources \union {s}
        /\ \E state \in {"idle", "running"} : Reports(s, state)
        /\ UNCHANGED <<hasKeys, toStop, telegramVars>>
    BY <1>1 DEF StartPolled
  <2>2. PICK state \in {"idle", "running"} : Reports(s, state)
    BY <2>1
  <2>3. state \in States
    BY DEF States
  <2>. QED
    BY <1>0, <2>1, <2>2, <2>3, ReportIsServed DEF telegramVars
<1>2. CASE PollReports(s)
  <2>1. PICK state \in {"running", "error"} : Reports(s, state)
    BY <1>2 DEF PollReports
  <2>2. state \in States /\ s \in startedSources /\ UNCHANGED <<lifeVars, telegramVars>>
    BY <1>2 DEF States, PollReports
  <2>. QED
    BY <1>0, <2>1, <2>2, ReportIsServed DEF lifeVars, telegramVars
<1>3. CASE StopOne(s)
  <2>1. /\ s \in toStop /\ toStop' = toStop \ {s} /\ Reports(s, "idle")
        /\ UNCHANGED <<hasKeys, toStart, startedSources, toJoin, allowedChats, seenMessages,
                       deliveries, reached, posts>>
    BY <1>3 DEF StopOne
  <2>. QED
    BY <1>0, <2>1, ReportIsServed DEF States
<1>. QED
  BY <1>1, <1>2, <1>3

\* bootstrap's start of telegram returns, in whichever state.
LEMMA TelegramStarts ==
    ASSUME SourcesInv, NEW state \in States, TelegramStarted, Reports(Telegram, state),
           UNCHANGED <<seenMessages, reached, posts>>
    PROVE  SourcesInv'
<1>1. /\ startedSources \intersect toStart = {}
      /\ toStart \union startedSources \subseteq AllSources /\ toStop \subseteq startedSources
  BY DEF SourcesInv, SourceTypes, NotYetStarted
<1>2. Telegram \in AllSources
  BY DEF AllSources
<1>. QED
  BY <1>1, <1>2, ReportIsServed DEF TelegramStarted

LEMMA TelegramKeeps ==
    ASSUME SourcesInv, BeginTelegram \/ TelegramIdle \/ LoginFails \/ LoggedIn \/ Listen
    PROVE  SourcesInv'
<1>1. CASE BeginTelegram \/ LoggedIn
  BY <1>1, NothingDelivered DEF BeginTelegram, LoggedIn, lifeVars, SourcesInv, SourceTypes, NotYetStarted,
     HealthServesStates
<1>2. CASE TelegramIdle
  BY <1>2, TelegramStarts DEF TelegramIdle, States, telegramVars
<1>3. CASE LoginFails
  BY <1>3, TelegramStarts DEF LoginFails, States
<1>4. CASE Listen
  BY <1>4, TelegramStarts DEF Listen, States
<1>. QED
  BY <1>1, <1>2, <1>3, <1>4

LEMMA JoiningAndShutdownKeep ==
    ASSUME SourcesInv, BeginShutdown \/ \E c \in Chat : JoinChat(c)
    PROVE  SourcesInv'
<1>1. /\ UNCHANGED <<hasKeys, toStart, startedSources, sourceState, statusMap, seenMessages, reached, posts>>
      /\ toStop' \in {toStop, startedSources}
  BY DEF BeginShutdown, JoinChat, lifeVars, telegramVars
<1>. QED
  BY <1>1, NothingDelivered DEF SourcesInv, SourceTypes, NotYetStarted, HealthServesStates

LEMMA HandleUpdateKeeps ==
    ASSUME SourcesInv, NEW m \in Message, HandleUpdate(m) PROVE SourcesInv'
<1>. DEFINE comes == telegramAt = "listening" /\ m.chat \in allowedChats
<1>1. /\ UNCHANGED <<lifeVars, sourceState, statusMap>>
      /\ reached' = IF comes THEN reached \union {m} ELSE reached
      /\ IF ~comes \/ m.id \in seenMessages
         THEN UNCHANGED <<seenMessages, posts>>
         ELSE /\ seenMessages' = seenMessages \union {m.id}
              /\ posts' = IF m.text THEN [posts EXCEPT ![m] = @ + 1] ELSE posts
  BY DEF HandleUpdate, Delivered, EmitsMessage
<1>. HIDE DEF comes
<1>2. posts \in [Message -> Nat] /\ m.text \in BOOLEAN
  BY DEF SourcesInv, SourceTypes, Message
<1>3. CASE ~comes \/ m.id \in seenMessages
  <2>1. /\ UNCHANGED <<seenMessages, posts>> /\ reached \subseteq reached' /\ reached' \subseteq reached \union {m}
        /\ (m \in reached' => m \in reached \/ m.id \in seenMessages)
    BY <1>1, <1>3
  <2>2. SeenSinceReached'
    BY <2>1 DEF SourcesInv, SeenSinceReached
  <2>. QED
    BY <1>1, <2>1, <2>2 DEF SourcesInv, SourceTypes, NotYetStarted, HealthServesStates, lifeVars
<1>4. CASE comes /\ m.id \notin seenMessages
  <2>1. /\ reached' = reached \union {m} /\ seenMessages' = seenMessages \union {m.id}
        /\ posts' = IF m.text THEN [posts EXCEPT ![m] = @ + 1] ELSE posts
    BY <1>1, <1>4
  <2>2. m \notin reached /\ posts[m] = 0
    <3>1. m \notin reached
      BY <1>4 DEF SourcesInv, SeenSinceReached
    <3>2. ~(posts[m] > 0)
      BY <3>1 DEF SourcesInv, SeenSinceReached
    <3>. QED
      BY <1>2, <3>1, <3>2
  <2>3. /\ posts' \in [Message -> Nat] /\ \A x \in Message \ {m} : posts'[x] = posts[x]
        /\ posts'[m] = IF m.text THEN 1 ELSE 0
    <3>1. CASE m.text
      BY <1>2, <2>1, <2>2, <3>1
    <3>2. CASE ~m.text
      BY <1>2, <2>1, <2>2, <3>2
    <3>. QED
      BY <3>1, <3>2
  <2>4. SeenSinceReached'
    <3>1. \A x \in Message : posts'[x] <= 1 /\ (posts'[x] > 0 => x \in reached')
      <4>1. \A x \in Message \ {m} : posts[x] <= 1 /\ (posts[x] > 0 => x \in reached)
        BY DEF SourcesInv, SeenSinceReached
      <4>. QED
        BY <2>1, <2>3, <4>1
    <3>2. \A x \in reached' : x.id \in seenMessages'
      BY <2>1 DEF SourcesInv, SeenSinceReached
    <3>3. ASSUME NEW id \in seenMessages'
          PROVE  \E x \in reached' : x \in Message /\ x.id = id /\ (x.text => posts'[x] > 0)
      <4>1. CASE id = m.id
        <5>1. m \in reached' /\ m \in Message /\ (m.text => posts'[m] > 0)
          BY <2>1, <2>3
        <5>. QED
          BY <4>1, <5>1
      <4>2. CASE id # m.id
        <5>1. PICK x \in reached : x \in Message /\ x.id = id /\ (x.text => posts[x] > 0)
          BY <2>1, <4>2 DEF SourcesInv, SeenSinceReached
        <5>2. x # m /\ x \in reached'
          BY <2>1, <2>2, <5>1
        <5>. QED
          BY <2>3, <5>1, <5>2
      <4>. QED
        BY <4>1, <4>2
    <3>. QED
      BY <3>1, <3>2, <3>3 DEF SeenSinceReached
  <2>. QED
    BY <1>1, <2>3, <2>4 DEF SourcesInv, SourceTypes, NotYetStarted, HealthServesStates, lifeVars
<1>. QED
  BY <1>3, <1>4

LEMMA SourcesStep == SourcesInv /\ [SourcesNext]_sourcesVars => SourcesInv'
<1>1. ASSUME SourcesInv, UNCHANGED sourcesVars PROVE SourcesInv'
  BY <1>1, NothingDelivered DEF sourcesVars, lifeVars, telegramVars, SourcesInv, SourceTypes, NotYetStarted,
     HealthServesStates
<1>. QED
  BY <1>1, SkipSourceKeeps, SourcesReport, TelegramKeeps, JoiningAndShutdownKeep, HandleUpdateKeeps
     DEF SourcesNext

LEMMA SourcesSuffice == SourcesInv => SourcesAreHeard
<1>. SUFFICES ASSUME SourcesInv PROVE MessagesArrive
  BY DEF SourcesInv, SourcesAreHeard
<1>. SUFFICES ASSUME NEW m \in Message
              PROVE  /\ posts[m] <= 1 /\ (posts[m] = 1 => m \in reached)
                     /\ m \in reached /\ m.text /\ posts[m] = 0 =>
                           \E other \in reached \ {m} : other.id = m.id
  BY DEF MessagesArrive
<1>1. posts[m] \in Nat /\ posts[m] <= 1 /\ (posts[m] > 0 => m \in reached)
  BY DEF SourcesInv, SourceTypes, SeenSinceReached
<1>2. ASSUME m \in reached, m.text, posts[m] = 0 PROVE \E other \in reached \ {m} : other.id = m.id
  <2>1. PICK r \in reached : r \in Message /\ r.id = m.id /\ (r.text => posts[r] > 0)
    BY <1>2 DEF SourcesInv, SeenSinceReached
  <2>2. r # m
    BY <1>2, <2>1
  <2>. QED
    BY <2>1, <2>2
<1>. QED
  BY <1>1, <1>2

-----------------------------------------------------------------------------
(* SocialPolling: an answer is a fold over its posts *)

KnownPosts == [ids : Seq(Post), emits : [Post -> Nat], drops : [Post -> Nat]]
\* A post is emitted no more often than its id was dropped, and once more while it is seen.
OnceEach(ids, emits, drops) ==
    \A p \in Post : /\ emits[p] <= 1 + drops[p]
                    /\ ~Contains(ids, p) => emits[p] <= drops[p]
Once(known) == known \in KnownPosts /\ OnceEach(known.ids, known.emits, known.drops)

LEMMA PostTaken ==
    ASSUME NEW known, Once(known), NEW p \in Post PROVE Once(TakePost(known, p))
<1>. DEFINE ids == known.ids  emits == known.emits  drops == known.drops
            full == Len(ids) >= MaxSeen
            kept == IF full THEN Tail(ids) ELSE ids
            more == [emits EXCEPT ![p] = @ + 1]
            less == IF full THEN [drops EXCEPT ![Head(ids)] = @ + 1] ELSE drops
<1>1. CASE Contains(ids, p)
  BY <1>1 DEF TakePost
<1>2. CASE ~Contains(ids, p)
  <2>1. TakePost(known, p) = [ids |-> Append(kept, p), emits |-> more, drops |-> less]
    BY <1>2 DEF TakePost
  <2>2. ids \in Seq(Post) /\ emits \in [Post -> Nat] /\ drops \in [Post -> Nat]
    BY DEF Once, KnownPosts
  <2>3. \A q \in Post : /\ emits[q] <= 1 + drops[q] /\ (~Contains(ids, q) => emits[q] <= drops[q])
    BY DEF Once, OnceEach
  <2>. HIDE DEF ids, emits, drops
  <2>4. full => /\ Head(ids) \in Post /\ Tail(ids) \in Seq(Post) /\ Len(Tail(ids)) = Len(ids) - 1
                /\ Len(ids) > 0 /\ Head(ids) = ids[1]
                /\ \A i \in 2..Len(ids) : i - 1 \in 1..Len(Tail(ids)) /\ Tail(ids)[i - 1] = ids[i]
    <3>1. Len(ids) \in Nat /\ MaxSeen \in Nat \ {0}
      BY <2>2, PollingConstants
    <3>2. full => Len(ids) > 0
      BY <3>1
    <3>3. Len(ids) > 0 =>
             /\ Head(ids) \in Post /\ Tail(ids) \in Seq(Post) /\ Len(Tail(ids)) = Len(ids) - 1
             /\ Head(ids) = ids[1]
             /\ \A i \in 2..Len(ids) : i - 1 \in 1..Len(Tail(ids)) /\ Tail(ids)[i - 1] = ids[i]
      BY <2>2
    <3>. QED
      BY <3>2, <3>3
  <2>5. kept \in Seq(Post)
    BY <2>2, <2>4
  <2>6. /\ more \in [Post -> Nat] /\ more[p] = emits[p] + 1 /\ \A q \in Post \ {p} : more[q] = emits[q]
    BY <2>2
  <2>7. /\ less \in [Post -> Nat] /\ \A q \in Post : less[q] >= drops[q]
        /\ full => less[Head(ids)] = drops[Head(ids)] + 1
    <3>1. CASE full
      BY <2>2, <2>4, <3>1
    <3>2. CASE ~full
      BY <2>2, <3>2
    <3>. QED
      BY <3>1, <3>2
  <2>8. ASSUME NEW q \in Post, Contains(ids, q)
        PROVE  Contains(kept, q) \/ (full /\ q = Head(ids))
    <3>1. PICK i \in 1..Len(ids) : ids[i] = q
      BY <2>8 DEF Contains
    <3>2. CASE full
      <4>1. CASE i = 1
        BY <2>4, <3>1, <3>2, <4>1
      <4>2. CASE i # 1
        <5>1. i - 1 \in 1..Len(Tail(ids)) /\ Tail(ids)[i - 1] = q
          BY <2>2, <2>4, <3>1, <3>2, <4>2
        <5>. QED
          BY <3>2, <5>1 DEF Contains
      <4>. QED
        BY <4>1, <4>2
    <3>3. CASE ~full
      BY <2>8, <3>3
    <3>. QED
      BY <3>2, <3>3
  <2>. HIDE DEF full, kept, more, less
  <2>9. Append(kept, p) \in Seq(Post) /\ \A q \in Post : Contains(kept, q) \/ q = p => Contains(Append(kept, p), q)
    <3>1. /\ Append(kept, p) \in Seq(Post) /\ Len(Append(kept, p)) = Len(kept) + 1
          /\ Append(kept, p)[Len(kept) + 1] = p
          /\ \A i \in 1..Len(kept) : Append(kept, p)[i] = kept[i] /\ i \in 1..(Len(kept) + 1)
          /\ Len(kept) + 1 \in 1..(Len(kept) + 1)
      BY <2>5
    <3>. QED
      BY <3>1 DEF Contains
  <2>10. OnceEach(Append(kept, p), more, less)
    <3>. SUFFICES ASSUME NEW q \in Post
                  PROVE  more[q] <= 1 + less[q] /\ (~Contains(Append(kept, p), q) => more[q] <= less[q])
      BY DEF OnceEach
    <3>1. /\ emits[q] \in Nat /\ drops[q] \in Nat /\ less[q] \in Nat /\ less[q] >= drops[q]
          /\ emits[q] <= 1 + drops[q]
      BY <2>2, <2>3, <2>7
    <3>2. CASE q = p
      <4>1. Contains(Append(kept, p), q) /\ emits[q] <= drops[q] /\ more[q] = emits[q] + 1
        BY <1>2, <2>3, <2>6, <2>9, <3>2 DEF ids
      <4>. QED
        BY <3>1, <4>1
    <3>3. CASE q # p
      <4>1. more[q] = emits[q]
        BY <2>6, <3>3
      <4>2. ASSUME ~Contains(Append(kept, p), q) PROVE emits[q] <= less[q]
        <5>1. ~Contains(ids, q) \/ (full /\ q = Head(ids))
          BY <2>8, <2>9, <4>2
        <5>2. CASE ~Contains(ids, q)
          <6>1. emits[q] <= drops[q]
            BY <2>3, <5>2
          <6>. QED
            BY <3>1, <6>1
        <5>3. CASE full /\ q = Head(ids)
          <6>1. less[q] = drops[q] + 1
            BY <2>7, <5>3
          <6>. QED
            BY <3>1, <6>1
        <5>. QED
          BY <5>1, <5>2, <5>3
      <4>. QED
        BY <3>1, <4>1, <4>2
    <3>. QED
      BY <3>2, <3>3
  <2>11. [ids |-> Append(kept, p), emits |-> more, drops |-> less] \in KnownPosts
    BY <2>6, <2>7, <2>9 DEF KnownPosts
  <2>. QED
    BY <2>1, <2>10, <2>11 DEF Once
<1>. QED
  BY <1>1, <1>2

LEMMA LastIndex ==
    ASSUME NEW n \in Nat, NEW s \in SUBSET (1..n), s # {} PROVE Max(s) \in s
<1>. DEFINE bounds == {k \in Nat : \A i \in s : i <= k}
<1>1. n \in bounds /\ bounds \subseteq Nat
  OBVIOUS
<1>. HIDE DEF bounds
<1>2. PICK k \in bounds : \A m \in bounds : k <= m
  BY <1>1, LeastBound
<1>. USE DEF bounds
<1>3. k \in s
  <2>. SUFFICES ASSUME k \notin s PROVE FALSE
    OBVIOUS
  <2>1. \A i \in s : i <= k - 1
    BY <1>2
  <2>2. k - 1 \in Nat
    <3>1. PICK i \in s : i \in 1..n
      OBVIOUS
    <3>2. i <= k - 1 /\ k \in Nat
      BY <1>2, <2>1
    <3>. QED
      BY <3>1, <3>2
  <2>3. k - 1 \in bounds
    BY <2>1, <2>2
  <2>. QED
    BY <1>2, <2>3
<1>4. \A i \in s : k >= i
  BY <1>2
<1>. QED
  BY <1>3, <1>4 DEF Max

\* The fold takes one post after the other.  Its value is a recursive function that is chosen:
\* one exists for sets up to any size, so there is one for all, and the least set at which it
\* breaks the bound cannot be.
LEMMA AnswerTaken ==
    ASSUME NEW listing \in Seq(Post), NEW known, Once(known)
    PROVE  Once(FoldLeft(TakePost, known, listing))
<1>. DEFINE S == DOMAIN listing
            Step(g, s) == IF s = {} THEN known
                          ELSE TakePost(g[s \ {Max(s)}], listing[Max(s)])
            iter == CHOOSE g : g = [s \in SUBSET S |-> Step(g, s)]
<1>1. FoldLeft(TakePost, known, listing) = iter[S]
  BY DEF FoldLeft, MapThenFoldSet
<1>2. Len(listing) \in Nat /\ S = 1..Len(listing)
  OBVIOUS
<1>3. ASSUME NEW s \in SUBSET S
      PROVE  /\ IsFiniteSet(s) /\ Cardinality(s) \in Nat /\ (Cardinality(s) = 0 => s = {})
             /\ s # {} => /\ Max(s) \in s /\ s \ {Max(s)} \in SUBSET S
                          /\ Cardinality(s \ {Max(s)}) = Cardinality(s) - 1
                          /\ listing[Max(s)] \in Post
  <2>1. IsFiniteSet(s) /\ Cardinality(s) \in Nat /\ (Cardinality(s) = 0 => s = {})
    <3>1. IsFiniteSet(1..Len(listing))
      BY <1>2, FS_Interval
    <3>2. IsFiniteSet(s)
      BY <1>2, <3>1, FS_Subset
    <3>. QED
      BY <3>2, FS_CardinalityType, FS_EmptySet
  <2>2. s # {} => Max(s) \in s
    BY <1>2, LastIndex
  <2>3. s # {} => Cardinality(s \ {Max(s)}) = Cardinality(s) - 1
    BY <2>1, <2>2, FS_RemoveElement
  <2>. QED
    BY <2>1, <2>2, <2>3
<1>. DEFINE Unfolds(n) == \E g : \A s \in SUBSET S : Cardinality(s) <= n => g[s] = Step(g, s)
            Stuck == {n \in Nat : ~Unfolds(n)}
<1>4. Unfolds(0)
  <2>. DEFINE g == [s \in SUBSET S |-> known]
  <2>1. ASSUME NEW s \in SUBSET S, Cardinality(s) <= 0 PROVE g[s] = Step(g, s)
    <3>1. Cardinality(s) \in Nat
      BY <1>3
    <3>2. Cardinality(s) = 0
      BY <2>1, <3>1
    <3>3. s = {}
      BY <1>3, <3>2
    <3>. QED
      BY <3>3
  <2>. QED
    BY <2>1
<1>5. ASSUME NEW n \in Nat, Unfolds(n) PROVE Unfolds(n + 1)
  <2>1. PICK g : \A s \in SUBSET S : Cardinality(s) <= n => g[s] = Step(g, s)
    BY <1>5
  <2>. DEFINE h == [s \in SUBSET S |-> Step(g, s)]
  <2>2. ASSUME NEW s \in SUBSET S, Cardinality(s) <= n + 1 PROVE h[s] = Step(h, s)
    <3>1. CASE s = {}
      BY <3>1
    <3>2. CASE s # {}
      <4>. DEFINE t == s \ {Max(s)}
      <4>0. t \in SUBSET S /\ Cardinality(t) = Cardinality(s) - 1 /\ Cardinality(s) \in Nat
        BY <1>3, <3>2
      <4>1. t \in SUBSET S /\ Cardinality(t) <= n
        BY <2>2, <4>0
      <4>2. h[t] = g[t]
        BY <2>1, <4>1
      <4>. QED
        BY <3>2, <4>2
    <3>. QED
      BY <3>1, <3>2
  <2>. QED
    BY <2>2
<1>. HIDE DEF Unfolds
<1>6. \A n \in Nat : Unfolds(n)
  <2>. SUFFICES ASSUME Stuck # {} PROVE FALSE
    OBVIOUS
  <2>1. PICK n \in Stuck : \A m \in Stuck : n <= m
    <3>. HIDE DEF Stuck
    <3>1. Stuck \subseteq Nat
      BY DEF Stuck
    <3>. QED
      BY <3>1, LeastBound
  <2>2. n # 0 /\ n \in Nat
    BY <1>4, <2>1
  <2>3. n - 1 \in Nat /\ n - 1 \notin Stuck
    BY <2>1, <2>2
  <2>. QED
    BY <1>5, <2>1, <2>2, <2>3
<1>7. \E g : g = [s \in SUBSET S |-> Step(g, s)]
  <2>1. PICK g : \A s \in SUBSET S : Cardinality(s) <= Cardinality(S) => g[s] = Step(g, s)
    <3>1. Cardinality(S) \in Nat
      BY <1>3
    <3>. QED
      BY <1>6, <3>1 DEF Unfolds
  <2>2. ASSUME NEW s \in SUBSET S PROVE g[s] = Step(g, s)
    <3>1. Cardinality(s) <= Cardinality(S)
      BY <1>3, FS_Subset
    <3>. QED
      BY <2>1, <3>1
  <2>. DEFINE h == [s \in SUBSET S |-> g[s]]
  <2>3. ASSUME NEW s \in SUBSET S PROVE h[s] = Step(h, s)
    <3>1. CASE s = {}
      BY <2>2, <3>1
    <3>2. CASE s # {}
      <4>1. h[s \ {Max(s)}] = g[s \ {Max(s)}]
        BY <1>3, <3>2
      <4>. QED
        BY <2>2, <3>2, <4>1
    <3>. QED
      BY <3>1, <3>2
  <2>4. h = [s \in SUBSET S |-> Step(h, s)]
    BY <2>3
  <2>. QED
    BY <2>4
<1>8. iter = [s \in SUBSET S |-> Step(iter, s)]
  BY <1>7
<1>. HIDE DEF iter
<1>9. ASSUME NEW s \in SUBSET S PROVE Once(iter[s])
  <2>. SUFFICES ASSUME ~Once(iter[s]) PROVE FALSE
    OBVIOUS
  <2>. DEFINE Bad == {n \in Nat : \E t \in SUBSET S : Cardinality(t) = n /\ ~Once(iter[t])}
  <2>1. Cardinality(s) \in Bad /\ Bad \subseteq Nat
    BY <1>3
  <2>2. PICK n \in Bad : \A m \in Bad : n <= m
    <3>. HIDE DEF Bad
    <3>. QED
      BY <2>1, LeastBound
  <2>3. PICK t \in SUBSET S : Cardinality(t) = n /\ ~Once(iter[t])
    BY <2>2
  <2>4. iter[t] = Step(iter, t)
    BY <1>8
  <2>5. t # {}
    BY <2>3, <2>4
  <2>. DEFINE rest == t \ {Max(t)}
  <2>6. rest \in SUBSET S /\ Cardinality(rest) = n - 1 /\ n \in Nat /\ n - 1 \in Nat
    BY <1>3, <2>3, <2>5
  <2>7. Once(iter[rest])
    BY <2>2, <2>6
  <2>8. iter[t] = TakePost(iter[rest], listing[Max(t)])
    BY <2>4, <2>5
  <2>. QED
    BY <1>3, <2>3, <2>5, <2>7, <2>8, PostTaken
<1>. QED
  BY <1>1, <1>9

LEMMA ListingsAreSequences == ASSUME NEW listing \in Listing PROVE listing \in Seq(Post)
<1>1. PICK S \in SUBSET Post : IsFiniteSet(S) /\ listing \in SetToSeqs(S)
  BY DEF Listing
<1>2. Cardinality(S) \in Nat
  BY <1>1, FS_CardinalityType
<1>3. listing \in [1..Cardinality(S) -> S]
  BY <1>1 DEF SetToSeqs
<1>. QED
  BY <1>2, <1>3

PollingInv ==
    /\ seenIds \in Seq(Post) /\ timesEmitted \in [Post -> Nat] /\ forgotten \in [Post -> Nat]
    /\ OnceEach(seenIds, timesEmitted, forgotten)

LEMMA PollingBegins == PollingInit => PollingInv
  BY DEF PollingInit, PollingInv, OnceEach

LEMMA PollingStep == PollingInv /\ [PollingNext]_pollingVars => PollingInv'
<1>. SUFFICES ASSUME PollingInv, [PollingNext]_pollingVars PROVE PollingInv'
  OBVIOUS
<1>1. CASE UNCHANGED <<seenIds, timesEmitted, forgotten>>
  BY <1>1 DEF PollingInv, OnceEach
<1>2. ASSUME NEW f \in fetches, QueryAnswers(f) PROVE PollingInv'
  <2>. DEFINE known == [ids |-> seenIds, emits |-> timesEmitted, drops |-> forgotten]
  <2>1. PICK listing \in Listing :
           LET new == FoldLeft(TakePost, known, listing)
           IN  seenIds' = new.ids /\ timesEmitted' = new.emits /\ forgotten' = new.drops
    BY <1>2 DEF QueryAnswers
  <2>2. Once(known)
    BY DEF PollingInv, Once, KnownPosts
  <2>3. Once(FoldLeft(TakePost, known, listing))
    BY <2>2, ListingsAreSequences, AnswerTaken
  <2>. QED
    BY <2>1, <2>3 DEF PollingInv, Once, KnownPosts
<1>3. CASE UNCHANGED pollingVars
  BY <1>1, <1>3 DEF pollingVars
<1>4. CASE PollingNext /\ ~\E f \in fetches : QueryAnswers(f)
  BY <1>1, <1>4 DEF PollingNext, StartSource, TokenFails, NextPoll, LoopEnds, StopSource, QueryFails
<1>. QED
  BY <1>2, <1>3, <1>4

-----------------------------------------------------------------------------
(* The social sources together *)

\* SocialPostsArrive: however polls, sockets, handlers and processes fail and overlap, whatever
\* was seen, brought by a socket or delivered to a listening client has been emitted, once, but
\* for the posts that the property names.
THEOREM PostsArrive == PollingSpec /\ FirehoseSpec /\ SourcesSpec => []SocialPostsArrive
<1>1. PollingInv /\ FirehoseInv /\ SourcesInv => SocialPostsArrive
  <2>1. PollingInv => RepeatedOnlyIfForgotten
    BY DEF PollingInv, OnceEach, RepeatedOnlyIfForgotten
  <2>. QED
    BY <2>1, FirehoseSuffices, SourcesSuffice DEF SocialPostsArrive
<1>2. PollingSpec => []PollingInv
  BY PollingBegins, PollingStep, PTL DEF PollingSpec
<1>3. FirehoseSpec => []FirehoseInv
  BY FirehoseBegins, FirehoseStep, PTL DEF FirehoseSpec
<1>4. SourcesSpec => []SourcesInv
  BY SourcesBegin, SourcesStep, PTL DEF SourcesSpec
<1>. QED
  BY <1>1, <1>2, <1>3, <1>4, PTL
=============================================================================
