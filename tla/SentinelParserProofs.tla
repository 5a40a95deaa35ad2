------------------------ MODULE SentinelParserProofs ------------------------
(***************************************************************************)
(* The sentinel parser implements the terminal's filter, for every         *)
(* sentinel, every alphabet and every way the bytes are split into reads.  *)
(***************************************************************************)
EXTENDS SentinelParser, SequenceTheorems, TLAPS

LineEnds == {<<CR, LF>>, <<LF>>}

LEMMA LineEndsAreSequences ==
  \A e \in LineEnds \cup {<<>>} : e \in Seq(Byte)
<1>1. <<CR, LF>> \in Seq(Byte)
  BY ParserAssumption
<1>2. <<LF>> \in Seq(Byte)
  BY ParserAssumption
<1>3. <<>> \in Seq(Byte)
  OBVIOUS
<1> QED
  BY <1>1, <1>2, <1>3 DEF LineEnds

LEMMA SentinelLength == Len(Sentinel) \in Nat \ {0}
  BY ParserAssumption, EmptySeq, LenProperties

(* A part of a sequence, element by element. *)
LEMMA Part ==
  ASSUME NEW s \in Seq(Byte), NEW m \in Nat, NEW n \in Int, n <= Len(s)
  PROVE  /\ SubSeq(s, m + 1, n) \in Seq(Byte)
         /\ Len(SubSeq(s, m + 1, n)) = IF m <= n THEN n - m ELSE 0
         /\ \A k \in 1..(n - m) : SubSeq(s, m + 1, n)[k] = s[m + k]
<1>1. \A k \in (m + 1)..n : s[k] \in Byte
  BY ElementOfSeq, LenProperties
<1> QED
  BY <1>1, SubSeqProperties

(* Where a sequence is extended, what it held stays in place. *)
LEMMA OccursInPrefix ==
  ASSUME NEW s \in Seq(Byte), NEW t \in Seq(Byte), NEW i \in Nat,
         i + Len(Sentinel) <= Len(s)
  PROVE  Filter!OccursAt(s \o t, i) <=> Filter!OccursAt(s, i)
<1>1. \A k \in 1..Len(Sentinel) : (s \o t)[i + k] = s[i + k]
  BY ConcatProperties, LenProperties, SentinelLength
<1>2. i + Len(Sentinel) <= Len(s \o t)
  BY ConcatProperties, LenProperties, SentinelLength
<1> QED
  BY <1>1, <1>2 DEF Filter!OccursAt

LEMMA OccursInSuffix ==
  ASSUME NEW s \in Seq(Byte), NEW t \in Seq(Byte), NEW i \in Nat
  PROVE  Filter!OccursAt(s \o t, Len(s) + i) <=> Filter!OccursAt(t, i)
<1>1. /\ Len(s) \in Nat /\ Len(t) \in Nat
      /\ Len(s \o t) = Len(s) + Len(t)
      /\ \A k \in 1..(Len(s) + Len(t)) : (s \o t)[k] = IF k <= Len(s) THEN s[k] ELSE t[k - Len(s)]
  BY ConcatProperties, LenProperties
<1>2. ASSUME i + Len(Sentinel) <= Len(t), NEW k \in 1..Len(Sentinel)
      PROVE  (s \o t)[(Len(s) + i) + k] = t[i + k]
  <2>1. (Len(s) + i) + k \in 1..(Len(s) + Len(t)) /\ ~((Len(s) + i) + k <= Len(s))
    BY <1>1, <1>2, SentinelLength
  <2>2. ((Len(s) + i) + k) - Len(s) = i + k
    BY <1>1, SentinelLength
  <2> QED BY <1>1, <2>1, <2>2
<1>3. (Len(s) + i) + Len(Sentinel) <= Len(s \o t) <=> i + Len(Sentinel) <= Len(t)
  BY <1>1, SentinelLength
<1> QED
  BY <1>2, <1>3 DEF Filter!OccursAt

(* The window that find_bytes compares is where the sentinel stands. *)
LEMMA WindowOccurs ==
  ASSUME NEW s \in Seq(Byte), NEW i \in Nat, i + Len(Sentinel) <= Len(s)
  PROVE  Window(s, i) = Sentinel <=> Filter!OccursAt(s, i)
<1> DEFINE w == i + Len(Sentinel)
<1>1. w \in Int /\ w <= Len(s) /\ i <= w /\ w - i = Len(Sentinel)
  BY SentinelLength
<1> HIDE DEF w
<1>a. /\ SubSeq(s, i + 1, w) \in Seq(Byte) /\ Len(SubSeq(s, i + 1, w)) = w - i
      /\ \A k \in 1..(w - i) : SubSeq(s, i + 1, w)[k] = s[i + k]
  BY <1>1, Part
<1>2. /\ Window(s, i) \in Seq(Byte) /\ Len(Window(s, i)) = Len(Sentinel)
      /\ \A k \in 1..Len(Sentinel) : Window(s, i)[k] = s[i + k]
  BY <1>1, <1>a DEF Window, w
<1>3. ASSUME Filter!OccursAt(s, i) PROVE Window(s, i) = Sentinel
  BY <1>2, <1>3, SeqEqual, ParserAssumption DEF Filter!OccursAt
<1> QED
  BY <1>2, <1>3 DEF Filter!OccursAt

LEMMA FoundIsFirst ==
  ASSUME NEW s \in Seq(Byte), NEW i \in Nat
  PROVE  FoundAt(s, i) <=> Filter!FirstAt(s, i)
<1>1. Len(s) \in Nat
  BY LenProperties
<1>2. i \in 0..(Len(s) - Len(Sentinel)) <=> i + Len(Sentinel) <= Len(s)
  BY <1>1, SentinelLength
<1>3. CASE i + Len(Sentinel) <= Len(s)
  <2>1. ASSUME NEW j \in 0..(i - 1)
        PROVE  Window(s, j) = Sentinel <=> Filter!OccursAt(s, j)
    BY <1>1, <1>3, WindowOccurs, SentinelLength
  <2> QED
    BY <1>2, <1>3, <2>1, WindowOccurs DEF FoundAt, Filter!FirstAt
<1>4. CASE ~(i + Len(Sentinel) <= Len(s))
  BY <1>2, <1>4 DEF FoundAt, Filter!FirstAt, Filter!OccursAt
<1> QED
  BY <1>3, <1>4

LEMMA NotFoundIsAbsent ==
  ASSUME NEW s \in Seq(Byte)
  PROVE  NotFound(s) <=> ~Filter!Occurs(s)
<1>1. Len(s) \in Nat
  BY LenProperties
<1>2. \A i \in 0..(Len(s) - Len(Sentinel)) :
        i \in Nat /\ i \in 0..Len(s) /\ i + Len(Sentinel) <= Len(s)
  BY <1>1, SentinelLength
<1>3. \A i \in 0..(Len(s) - Len(Sentinel)) : Window(s, i) = Sentinel <=> Filter!OccursAt(s, i)
  BY <1>2, WindowOccurs
<1>4. \A i \in 0..Len(s) : Filter!OccursAt(s, i) => i \in 0..(Len(s) - Len(Sentinel))
  BY <1>1, SentinelLength DEF Filter!OccursAt
<1> QED
  BY <1>2, <1>3, <1>4 DEF NotFound, Filter!Occurs

(* Stated of a predicate, so that provers find the instances they need.    *)
Associates(x, y, z) == (x \o y) \o z = x \o (y \o z)
LEMMA Associative ==
  ASSUME NEW x \in Seq(Byte), NEW y \in Seq(Byte), NEW z \in Seq(Byte)
  PROVE  Associates(x, y, z)
BY SMTT(30) DEF Associates

(* Parts of a concatenation: inside the first sequence, inside the second, *)
(* and across the seam.                                                    *)
LEMMA PartOfFirst ==
  ASSUME NEW s \in Seq(Byte), NEW t \in Seq(Byte), NEW m \in Nat, NEW k \in Nat,
         m <= k, k <= Len(s)
  PROVE  SubSeq(s \o t, m + 1, k) = SubSeq(s, m + 1, k)
<1>1. /\ Len(s) \in Nat /\ Len(t) \in Nat
      /\ s \o t \in Seq(Byte) /\ Len(s \o t) = Len(s) + Len(t)
      /\ \A j \in 1..(Len(s) + Len(t)) : (s \o t)[j] = IF j <= Len(s) THEN s[j] ELSE t[j - Len(s)]
  BY ConcatProperties, LenProperties
<1>2. /\ SubSeq(s, m + 1, k) \in Seq(Byte) /\ Len(SubSeq(s, m + 1, k)) = k - m
      /\ \A j \in 1..(k - m) : SubSeq(s, m + 1, k)[j] = s[m + j]
  BY Part
<1>3. /\ SubSeq(s \o t, m + 1, k) \in Seq(Byte) /\ Len(SubSeq(s \o t, m + 1, k)) = k - m
      /\ \A j \in 1..(k - m) : SubSeq(s \o t, m + 1, k)[j] = (s \o t)[m + j]
  BY Part, <1>1
<1>4. \A j \in 1..(k - m) : (s \o t)[m + j] = s[m + j]
  BY <1>1
<1> QED
  BY <1>2, <1>3, <1>4, SeqEqual

LEMMA PartOfSecond ==
  ASSUME NEW s \in Seq(Byte), NEW t \in Seq(Byte), NEW m \in Nat, NEW k \in Nat,
         m <= k, k <= Len(t)
  PROVE  SubSeq(s \o t, (Len(s) + m) + 1, Len(s) + k) = SubSeq(t, m + 1, k)
<1> DEFINE mm == Len(s) + m
           kk == Len(s) + k
<1>1. /\ Len(s) \in Nat /\ Len(t) \in Nat
      /\ s \o t \in Seq(Byte) /\ Len(s \o t) = Len(s) + Len(t)
      /\ \A j \in 1..(Len(s) + Len(t)) : (s \o t)[j] = IF j <= Len(s) THEN s[j] ELSE t[j - Len(s)]
  BY ConcatProperties, LenProperties
<1>2. mm \in Nat /\ kk \in Nat /\ mm <= kk /\ kk - mm = k - m /\ kk <= Len(s \o t)
  BY <1>1
<1>3. /\ SubSeq(t, m + 1, k) \in Seq(Byte) /\ Len(SubSeq(t, m + 1, k)) = k - m
      /\ \A j \in 1..(k - m) : SubSeq(t, m + 1, k)[j] = t[m + j]
  BY Part, SMTT(30)
<1>4. ASSUME NEW j \in 1..(k - m) PROVE (s \o t)[mm + j] = t[m + j]
  <2>1. mm + j \in 1..(Len(s) + Len(t)) /\ ~(mm + j <= Len(s)) /\ (mm + j) - Len(s) = m + j
    BY <1>1
  <2> QED BY <1>1, <2>1
<1> HIDE DEF mm, kk
<1>5. /\ SubSeq(s \o t, mm + 1, kk) \in Seq(Byte) /\ Len(SubSeq(s \o t, mm + 1, kk)) = k - m
      /\ \A j \in 1..(k - m) : SubSeq(s \o t, mm + 1, kk)[j] = (s \o t)[mm + j]
  BY Part, <1>1, <1>2
<1>6. SubSeq(s \o t, mm + 1, kk) = SubSeq(t, m + 1, k)
  BY <1>3, <1>4, <1>5, SeqEqual, ZenonT(40)
<1> QED
  BY <1>6 DEF mm, kk

LEMMA PartAcross ==
  ASSUME NEW s \in Seq(Byte), NEW t \in Seq(Byte), NEW m \in Nat, NEW k \in Nat,
         m <= Len(s), k <= Len(t)
  PROVE  SubSeq(s \o t, m + 1, Len(s) + k) = SubSeq(s, m + 1, Len(s)) \o SubSeq(t, 1, k)
<1> DEFINE kk == Len(s) + k
           left == SubSeq(s, m + 1, Len(s))
           right == SubSeq(t, 1, k)
           all == SubSeq(s \o t, m + 1, kk)
<1>1. /\ Len(s) \in Nat /\ Len(t) \in Nat
      /\ s \o t \in Seq(Byte) /\ Len(s \o t) = Len(s) + Len(t)
      /\ \A j \in 1..(Len(s) + Len(t)) : (s \o t)[j] = IF j <= Len(s) THEN s[j] ELSE t[j - Len(s)]
  BY ConcatProperties, LenProperties
<1>2. kk \in Nat /\ m <= kk /\ kk - m = (Len(s) - m) + k /\ kk <= Len(s \o t)
  BY <1>1
<1>3. /\ left \in Seq(Byte) /\ Len(left) = Len(s) - m
      /\ \A j \in 1..(Len(s) - m) : left[j] = s[m + j]
  BY <1>1, Part
<1>4. /\ right \in Seq(Byte) /\ Len(right) = k
      /\ \A j \in 1..k : right[j] = t[j]
  <2>1. /\ SubSeq(t, 0 + 1, k) \in Seq(Byte) /\ Len(SubSeq(t, 0 + 1, k)) = k - 0
        /\ \A j \in 1..(k - 0) : SubSeq(t, 0 + 1, k)[j] = t[0 + j]
    BY <1>1, Part
  <2>2. 0 + 1 = 1 /\ k - 0 = k /\ \A j \in 1..k : 0 + j = j
    OBVIOUS
  <2> QED BY <2>1, <2>2
<1> HIDE DEF left, right
<1>5. /\ left \o right \in Seq(Byte) /\ Len(left \o right) = (Len(s) - m) + k
      /\ \A j \in 1..((Len(s) - m) + k) :
            (left \o right)[j] = IF j <= Len(s) - m THEN left[j] ELSE right[j - (Len(s) - m)]
  <2>1. /\ left \o right \in Seq(Byte) /\ Len(left \o right) = Len(left) + Len(right)
        /\ \A j \in 1..(Len(left) + Len(right)) :
              (left \o right)[j] = IF j <= Len(left) THEN left[j] ELSE right[j - Len(left)]
    BY <1>3, <1>4, ConcatProperties
  <2> QED BY <1>3, <1>4, <2>1
<1>6. ASSUME NEW j \in 1..((Len(s) - m) + k) PROVE (s \o t)[m + j] = (left \o right)[j]
  <2>1. m + j \in 1..(Len(s) + Len(t))
    BY <1>1
  <2>2. CASE j <= Len(s) - m
    <3>1. j \in 1..(Len(s) - m) /\ m + j <= Len(s)
      BY <1>1, <2>2
    <3> QED BY <1>1, <1>3, <1>5, <2>1, <2>2, <3>1
  <2>3. CASE ~(j <= Len(s) - m)
    <3>1. /\ ~(m + j <= Len(s)) /\ (m + j) - Len(s) = j - (Len(s) - m)
          /\ j - (Len(s) - m) \in 1..k
      BY <1>1, <2>3
    <3> QED BY <1>1, <1>4, <1>5, <2>1, <2>3, <3>1
  <2> QED BY <2>2, <2>3
<1> HIDE DEF kk
<1>7. /\ all \in Seq(Byte) /\ Len(all) = (Len(s) - m) + k
      /\ \A j \in 1..((Len(s) - m) + k) : all[j] = (s \o t)[m + j]
  <2>1. /\ all \in Seq(Byte) /\ Len(all) = kk - m
        /\ \A j \in 1..(kk - m) : all[j] = (s \o t)[m + j]
    <3>1. s \o t \in Seq(Byte) /\ kk \in Int /\ kk <= Len(s \o t) /\ m <= kk
      BY <1>1, <1>2
    <3> QED BY <3>1, Part
  <2> HIDE DEF all
  <2> QED BY <1>2, <2>1
<1>8. all = left \o right
  <2> HIDE DEF all
  <2> QED BY <1>5, <1>6, <1>7, SeqEqual
<1> QED
  BY <1>8 DEF left, right, all, kk

LEMMA PartToEnd ==
  ASSUME NEW s \in Seq(Byte), NEW t \in Seq(Byte), NEW m \in Nat, m <= Len(s)
  PROVE  SubSeq(s \o t, m + 1, Len(s \o t)) = SubSeq(s, m + 1, Len(s)) \o t
<1>1. Len(t) \in Nat /\ Len(t) <= Len(t) /\ Len(s \o t) = Len(s) + Len(t)
  BY ConcatProperties, LenProperties
<1>2. SubSeq(s \o t, m + 1, Len(s) + Len(t)) = SubSeq(s, m + 1, Len(s)) \o SubSeq(t, 1, Len(t))
  BY <1>1, PartAcross
<1>3. SubSeq(t, 1, Len(t)) = t
  BY SubSeqFull
<1> QED
  BY <1>1, <1>2, <1>3, Zenon

(* Parts of a part: its beginning, and what follows its beginning.         *)
LEMMA PartOfPart ==
  ASSUME NEW s \in Seq(Byte), NEW n \in Nat, n <= Len(s), NEW k \in Nat, n + k <= Len(s)
  PROVE  /\ SubSeq(SubSeq(s, n + 1, Len(s)), 1, k) = SubSeq(s, n + 1, n + k)
         /\ SubSeq(SubSeq(s, n + 1, Len(s)), k + 1, Len(SubSeq(s, n + 1, Len(s))))
               = SubSeq(s, (n + k) + 1, Len(s))
<1> DEFINE suffix == SubSeq(s, n + 1, Len(s))
           begin == SubSeq(suffix, 1, k)
           all == SubSeq(s, n + 1, n + k)
           rest == SubSeq(suffix, k + 1, Len(suffix))
           end == SubSeq(s, (n + k) + 1, Len(s))
<1>1. Len(s) \in Nat
  BY LenProperties
<1>2. /\ suffix \in Seq(Byte) /\ Len(suffix) = Len(s) - n /\ Len(suffix) \in Nat
      /\ \A j \in 1..(Len(s) - n) : suffix[j] = s[n + j]
  BY <1>1, Part
<1>3. /\ all \in Seq(Byte) /\ Len(all) = k
      /\ \A j \in 1..k : all[j] = s[n + j]
  <2> DEFINE c == n + k
  <2>1. c \in Int /\ n <= c /\ c <= Len(s) /\ c - n = k
    OBVIOUS
  <2> HIDE DEF c
  <2>2. /\ SubSeq(s, n + 1, c) \in Seq(Byte) /\ Len(SubSeq(s, n + 1, c)) = c - n
        /\ \A j \in 1..(c - n) : SubSeq(s, n + 1, c)[j] = s[n + j]
    BY <2>1, Part
  <2> QED BY <2>1, <2>2 DEF c
<1>4. /\ end \in Seq(Byte) /\ Len(end) = (Len(s) - n) - k
      /\ \A j \in 1..((Len(s) - n) - k) : end[j] = s[n + (k + j)]
  <2> DEFINE c == n + k
  <2>1. c \in Nat /\ c <= Len(s) /\ Len(s) - c = (Len(s) - n) - k
    BY <1>1
  <2>2. \A j \in 1..((Len(s) - n) - k) : c + j = n + (k + j)
    OBVIOUS
  <2> HIDE DEF c
  <2>3. /\ SubSeq(s, c + 1, Len(s)) \in Seq(Byte) /\ Len(SubSeq(s, c + 1, Len(s))) = Len(s) - c
        /\ \A j \in 1..(Len(s) - c) : SubSeq(s, c + 1, Len(s))[j] = s[c + j]
    BY <1>1, <2>1, Part
  <2> QED BY <2>1, <2>2, <2>3 DEF c
<1> HIDE DEF suffix
<1>5. /\ begin \in Seq(Byte) /\ Len(begin) = k
      /\ \A j \in 1..k : begin[j] = suffix[j]
  <2>1. k \in Int /\ k <= Len(suffix)
    BY <1>1, <1>2
  <2>2. /\ SubSeq(suffix, 0 + 1, k) \in Seq(Byte) /\ Len(SubSeq(suffix, 0 + 1, k)) = k - 0
        /\ \A j \in 1..(k - 0) : SubSeq(suffix, 0 + 1, k)[j] = suffix[0 + j]
    BY <1>2, <2>1, Part
  <2>3. 0 + 1 = 1 /\ k - 0 = k /\ \A j \in 1..k : 0 + j = j
    OBVIOUS
  <2> QED BY <2>2, <2>3
<1>6. /\ rest \in Seq(Byte) /\ Len(rest) = Len(suffix) - k
      /\ \A j \in 1..(Len(suffix) - k) : rest[j] = suffix[k + j]
  <2>1. k <= Len(suffix)
    BY <1>1, <1>2
  <2> QED BY <1>2, <2>1, Part
<1> HIDE DEF begin, all, rest, end
<1>7. begin = all
  <2>1. \A j \in 1..k : j \in 1..(Len(s) - n)
    BY <1>1
  <2> QED BY <1>2, <1>3, <1>5, <2>1, SeqEqual
<1>8. rest = end
  <2>1. \A j \in 1..((Len(s) - n) - k) : k + j \in 1..(Len(s) - n)
    BY <1>1
  <2> QED BY <1>2, <1>4, <1>6, <2>1, SeqEqual
<1> QED
  BY <1>7, <1>8 DEF begin, all, rest, end, suffix

(* What was removed from a sequence is removed from one that continues it, *)
(* and from one that it continues.                                         *)
LEMMA RemovedContinues ==
  ASSUME NEW s \in Seq(Byte), NEW t \in Seq(Byte), NEW b \in Seq(Byte),
         NEW i \in Nat, NEW e \in Seq(Byte), Filter!Removed(s, t, i, e)
  PROVE  Filter!Removed(s \o b, t \o b, i, e)
<1> DEFINE n == i + Len(Sentinel)
           c == n + Len(e)
           head == SubSeq(s, 1, i)
           tail == SubSeq(s, c + 1, Len(s))
<1>1. /\ Len(s) \in Nat /\ Len(b) \in Nat /\ Len(e) \in Nat /\ n \in Nat /\ c \in Nat
      /\ i <= n /\ n <= c /\ c <= Len(s) /\ i <= Len(s) /\ Len(s \o b) = Len(s) + Len(b)
  BY LenProperties, ConcatProperties, SentinelLength DEF Filter!Removed
<1>2. t = head \o tail /\ SubSeq(s, n + 1, c) = e
  BY DEF Filter!Removed
<1> HIDE DEF n, c
<1>3. SubSeq(s \o b, 1, i) = head
  <2>1. SubSeq(s \o b, 0 + 1, i) = SubSeq(s, 0 + 1, i)
    BY <1>1, PartOfFirst
  <2>2. 0 + 1 = 1
    OBVIOUS
  <2> QED BY <2>1, <2>2, Zenon
<1>4. SubSeq(s \o b, n + 1, c) = e
  BY <1>1, <1>2, PartOfFirst
<1>5. SubSeq(s \o b, c + 1, Len(s \o b)) = tail \o b
  BY <1>1, PartToEnd
<1>6. t \o b = head \o (tail \o b)
  <2>1. head \in Seq(Byte) /\ tail \in Seq(Byte)
    BY Part, <1>1
  <2> HIDE DEF head, tail
  <2>2. Associates(head, tail, b)
    BY <2>1, Associative
  <2> QED BY <1>2, <2>2, Zenon DEF Associates
<1>7. c <= Len(s \o b)
  BY <1>1
<1> HIDE DEF head, tail
<1> QED
  BY <1>3, <1>4, <1>5, <1>6, <1>7, Zenon DEF Filter!Removed, n, c

LEMMA RemovedIsContinued ==
  ASSUME NEW s \in Seq(Byte), NEW t \in Seq(Byte), NEW b \in Seq(Byte),
         NEW i \in Nat, NEW e \in Seq(Byte), Filter!Removed(s, t, i, e)
  PROVE  Filter!Removed(b \o s, b \o t, Len(b) + i, e)
<1> DEFINE n == i + Len(Sentinel)
           c == n + Len(e)
           head == SubSeq(s, 1, i)
           tail == SubSeq(s, c + 1, Len(s))
<1>1. /\ Len(s) \in Nat /\ Len(b) \in Nat /\ Len(e) \in Nat /\ n \in Nat /\ c \in Nat
      /\ i <= n /\ n <= c /\ c <= Len(s) /\ i <= Len(s) /\ Len(b \o s) = Len(b) + Len(s)
      /\ Len(Sentinel) \in Nat
  BY LenProperties, ConcatProperties, SentinelLength, SMTT(30) DEF Filter!Removed
<1>2. t = head \o tail /\ SubSeq(s, n + 1, c) = e
  BY DEF Filter!Removed
<1>3. /\ (Len(b) + i) + Len(Sentinel) = Len(b) + n
      /\ (Len(b) + n) + Len(e) = Len(b) + c
  BY <1>1
<1> HIDE DEF n, c
<1>4. SubSeq(b \o s, 1, Len(b) + i) = b \o head
  <2>1. SubSeq(b \o s, 0 + 1, Len(b) + i) = SubSeq(b, 0 + 1, Len(b)) \o head
    <3>1. 0 \in Nat /\ 0 <= Len(b) /\ i <= Len(s)
      BY <1>1
    <3> QED BY <3>1, PartAcross, ZenonT(40)
  <2>2. 0 + 1 = 1
    OBVIOUS
  <2>3. SubSeq(b, 1, Len(b)) = b
    BY SubSeqFull
  <2> QED BY <2>1, <2>2, <2>3, Zenon
<1>5. SubSeq(b \o s, (Len(b) + n) + 1, Len(b) + c) = e
  BY <1>1, <1>2, PartOfSecond, SMTT(30)
<1>6. SubSeq(b \o s, (Len(b) + c) + 1, Len(b \o s)) = tail
  BY <1>1, PartOfSecond
<1>7. b \o t = (b \o head) \o tail
  <2>1. head \in Seq(Byte) /\ tail \in Seq(Byte)
    BY Part, <1>1
  <2> HIDE DEF head, tail
  <2>2. Associates(b, head, tail)
    BY <2>1, Associative
  <2> QED BY <1>2, <2>2, Zenon DEF Associates
<1>8. Len(b) + c <= Len(b \o s)
  BY <1>1
<1> HIDE DEF head, tail
<1> QED
  BY <1>3, <1>4, <1>5, <1>6, <1>7, <1>8, Zenon DEF Filter!Removed

LEMMA PrefixOfConcat ==
  ASSUME NEW s \in Seq(Byte), NEW t \in Seq(Byte)
  PROVE  SubSeq(s \o t, 1, Len(s)) = s /\ Filter!IsPrefix(s, s \o t)
<1>1. Len(s) \in Nat /\ Len(t) \in Nat /\ Len(s \o t) = Len(s) + Len(t)
  BY ConcatProperties, LenProperties
<1>2. SubSeq(s \o t, 0 + 1, Len(s)) = SubSeq(s, 0 + 1, Len(s))
  <2>1. 0 \in Nat /\ 0 <= Len(s) /\ Len(s) <= Len(s)
    BY <1>1
  <2> QED BY <1>1, <2>1, PartOfFirst, Zenon
<1>3. 0 + 1 = 1
  OBVIOUS
<1>4. SubSeq(s, 1, Len(s)) = s
  BY SubSeqFull
<1>5. Len(s) <= Len(s \o t)
  BY <1>1
<1> QED
  BY <1>2, <1>3, <1>4, <1>5, Zenon DEF Filter!IsPrefix

-----------------------------------------------------------------------------
(***************************************************************************)
(* The invariant.  Before the sentinel: what was received is what was      *)
(* shown and what is kept, it holds no sentinel, and as long as fewer      *)
(* bytes are kept than the parser may keep, none was shown.  After: the    *)
(* sentinel is gone.                                                       *)
(***************************************************************************)
KeepsWhatMayBegin ==
    /\ fed = output \o pending
    /\ ~Filter!Occurs(fed)
    /\ output = <<>> \/ Len(pending) = Len(Sentinel) - 1
PInv ==
    /\ ParserTypeOK
    /\ ~authenticated => KeepsWhatMayBegin
    /\ authenticated => Filter!Cleaned(fed, output)

(* A sentinel that is completed begins among the bytes that were kept or   *)
(* after them: it would need more bytes than are there to begin before.    *)
LEMMA BeginsInKept ==
  ASSUME NEW s \in Seq(Byte), NEW h \in Seq(Byte), NEW b \in Seq(Byte),
         ~Filter!Occurs(s \o h), s = <<>> \/ Len(h) = Len(Sentinel) - 1,
         NEW j \in Nat, Filter!OccursAt(s \o (h \o b), j)
  PROVE  Len(s) <= j
<1>1. /\ Len(s) \in Nat /\ Len(h) \in Nat /\ Len(<<>>) = 0
      /\ s \o h \in Seq(Byte) /\ Len(s \o h) = Len(s) + Len(h)
  BY ConcatProperties, LenProperties, EmptySeq
<1>2. ASSUME j < Len(s) PROVE FALSE
  <2>1. Len(h) = Len(Sentinel) - 1
    BY <1>1, <1>2
  <2>2. j + Len(Sentinel) <= Len(s \o h) /\ j \in 0..Len(s \o h)
    BY <1>1, <1>2, <2>1, SentinelLength
  <2>3. s \o (h \o b) = (s \o h) \o b
    BY Associative DEF Associates
  <2>4. Filter!OccursAt(s \o h, j)
    BY <1>1, <2>2, <2>3, OccursInPrefix
  <2> QED
    BY <2>2, <2>4 DEF Filter!Occurs
<1> QED
  BY <1>1, <1>2

(* So it suffices to look for it there. *)
LEMMA FoundInKept ==
  ASSUME NEW s \in Seq(Byte), NEW h \in Seq(Byte), NEW b \in Seq(Byte),
         ~Filter!Occurs(s \o h), s = <<>> \/ Len(h) = Len(Sentinel) - 1
  PROVE  /\ \A i \in Nat : Filter!FirstAt(h \o b, i) => Filter!FirstAt(s \o (h \o b), Len(s) + i)
         /\ Filter!Occurs(s \o (h \o b)) => Filter!Occurs(h \o b)
<1> DEFINE k == h \o b
           all == s \o k
<1>1. /\ Len(s) \in Nat /\ k \in Seq(Byte) /\ Len(k) \in Nat
      /\ all \in Seq(Byte) /\ Len(all) = Len(s) + Len(k)
  BY ConcatProperties, LenProperties
<1>2. \A j \in Nat : Filter!OccursAt(all, j) => Len(s) <= j
  BY BeginsInKept
<1> HIDE DEF k
<1>3. \A j \in Nat : Filter!OccursAt(all, Len(s) + j) <=> Filter!OccursAt(k, j)
  BY <1>1, OccursInSuffix
<1> HIDE DEF all
<1>4. ASSUME NEW i \in Nat, Filter!FirstAt(k, i)
      PROVE  Filter!FirstAt(all, Len(s) + i)
  <2>1. Filter!OccursAt(all, Len(s) + i)
    BY <1>3, <1>4 DEF Filter!FirstAt
  <2>2. ASSUME NEW j \in 0..((Len(s) + i) - 1), Filter!OccursAt(all, j) PROVE FALSE
    <3>1. j - Len(s) \in 0..(i - 1) /\ j - Len(s) \in Nat /\ j = Len(s) + (j - Len(s))
      BY <1>1, <1>2, <2>2
    <3>2. Filter!OccursAt(k, j - Len(s))
      BY <1>3, <2>2, <3>1, Zenon
    <3> QED BY <1>4, <3>1, <3>2 DEF Filter!FirstAt
  <2> QED BY <2>1, <2>2 DEF Filter!FirstAt
<1>5. ASSUME Filter!Occurs(all) PROVE Filter!Occurs(k)
  <2>1. PICK j \in 0..Len(all) : Filter!OccursAt(all, j)
    BY <1>5 DEF Filter!Occurs
  <2>2. j - Len(s) \in 0..Len(k) /\ j - Len(s) \in Nat /\ j = Len(s) + (j - Len(s))
    BY <1>1, <1>2, <2>1
  <2>3. Filter!OccursAt(k, j - Len(s))
    BY <1>3, <2>1, <2>2, Zenon
  <2> QED BY <2>2, <2>3 DEF Filter!Occurs
<1> QED
  BY <1>4, <1>5 DEF all, k

LEMMA CleanedOccurs ==
  ASSUME NEW s \in Seq(Byte), NEW t, Filter!Cleaned(s, t)
  PROVE  Filter!Occurs(s)
BY DEF Filter!Cleaned, Filter!FirstAt, Filter!Occurs

LEMMA CleanedContinues ==
  ASSUME NEW s \in Seq(Byte), NEW t \in Seq(Byte), NEW b \in Seq(Byte), Filter!Cleaned(s, t)
  PROVE  Filter!Cleaned(s \o b, t \o b)
<1>1. PICK i \in 0..Len(s), e \in LineEnds \cup {<<>>} :
         Filter!FirstAt(s, i) /\ Filter!Removed(s, t, i, e)
  BY DEF Filter!Cleaned, LineEnds
<1>2. /\ Len(s) \in Nat /\ Len(b) \in Nat /\ Len(s \o b) = Len(s) + Len(b)
      /\ i \in Nat /\ i \in 0..Len(s \o b)
  BY ConcatProperties, LenProperties
<1>3. e \in Seq(Byte)
  BY LineEndsAreSequences
<1>4. Filter!Removed(s \o b, t \o b, i, e)
  BY <1>1, <1>2, <1>3, RemovedContinues
<1>5. i + Len(Sentinel) <= Len(s)
  BY <1>1 DEF Filter!FirstAt, Filter!OccursAt
<1>6. \A j \in 0..i : Filter!OccursAt(s \o b, j) <=> Filter!OccursAt(s, j)
  <2> SUFFICES ASSUME NEW j \in 0..i
               PROVE  Filter!OccursAt(s \o b, j) <=> Filter!OccursAt(s, j)
    OBVIOUS
  <2>1. j \in Nat /\ j + Len(Sentinel) <= Len(s)
    BY <1>2, <1>5, SentinelLength
  <2> QED BY <2>1, OccursInPrefix
<1>7. Filter!FirstAt(s \o b, i)
  <2>1. i \in 0..i /\ \A j \in 0..(i - 1) : j \in 0..i
    BY <1>2
  <2> QED BY <1>1, <1>6, <2>1 DEF Filter!FirstAt
<1> QED
  BY <1>1, <1>2, <1>4, <1>7 DEF Filter!Cleaned, LineEnds

LEMMA Halves ==
  ASSUME NEW s \in Seq(Byte), NEW k \in Nat, k <= Len(s)
  PROVE  /\ SubSeq(s, 1, k) \in Seq(Byte) /\ Len(SubSeq(s, 1, k)) = k
         /\ SubSeq(s, k + 1, Len(s)) \in Seq(Byte) /\ Len(SubSeq(s, k + 1, Len(s))) = Len(s) - k
         /\ s = SubSeq(s, 1, k) \o SubSeq(s, k + 1, Len(s))
<1>1. Len(s) \in Nat
  BY LenProperties
<1>2. SubSeq(s, 1, k) \in Seq(Byte) /\ Len(SubSeq(s, 1, k)) = k
  <2>1. SubSeq(s, 0 + 1, k) \in Seq(Byte) /\ Len(SubSeq(s, 0 + 1, k)) = k - 0
    BY <1>1, Part
  <2>2. 0 + 1 = 1 /\ k - 0 = k
    OBVIOUS
  <2> QED BY <2>1, <2>2, Zenon
<1>3. SubSeq(s, k + 1, Len(s)) \in Seq(Byte) /\ Len(SubSeq(s, k + 1, Len(s))) = Len(s) - k
  BY <1>1, Part
<1>4. SubSeq(s, 1, k) \o SubSeq(s, k + 1, Len(s)) = SubSeq(s, 1, Len(s))
  <2>1. 1 \in 1..(Len(s) + 1) /\ k \in (1 - 1)..Len(s) /\ Len(s) \in k..Len(s)
    BY <1>1
  <2> QED BY <2>1, ConcatAdjacentSubSeq
<1>5. SubSeq(s, 1, Len(s)) = s
  BY SubSeqFull
<1> QED
  BY <1>2, <1>3, <1>4, <1>5, Zenon

(* The line end of a suffix is one of the two, or nothing.                 *)
LEMMA LineEndPrefix ==
  ASSUME NEW s \in Seq(Byte)
  PROVE  /\ LineEnd(s) \in LineEnds \cup {<<>>} /\ LineEnd(s) \in Seq(Byte)
         /\ Len(LineEnd(s)) \in Nat /\ Len(LineEnd(s)) <= Len(s)
         /\ SubSeq(s, 1, Len(LineEnd(s))) = LineEnd(s)
<1>1. LineEnd(s) \in LineEnds \cup {<<>>}
  BY DEF LineEnd, LineEnds
<1>2. LineEnd(s) \in Seq(Byte) /\ Len(LineEnd(s)) \in Nat /\ Len(s) \in Nat
  BY <1>1, LineEndsAreSequences, LenProperties
<1>3. CASE LineEnd(s) = <<>>
  BY <1>1, <1>2, <1>3, EmptySeq, SubSeqEmpty
<1>4. CASE LineEnd(s) # <<>>
  <2>1. IsPrefix(LineEnd(s), s)
    BY <1>4 DEF LineEnd
  <2>2. SubSeq(LineEnd(s), 1, Len(LineEnd(s))) = LineEnd(s)
    BY <1>2, SubSeqFull
  <2> QED BY <1>1, <1>2, <2>1, <2>2, Zenon DEF IsPrefix
<1> QED
  BY <1>3, <1>4

-----------------------------------------------------------------------------
(* What each kind of push does to the invariant and to the filter.         *)
LEMMA ThroughStep ==
  ASSUME NEW bytes \in Seq(Byte), PInv, fed' = fed \o bytes, PushThrough(bytes)
  PROVE  PInv' /\ Filter!Receive
<1>1. /\ fed \in Seq(Byte) /\ output \in Seq(Byte) /\ authenticated
      /\ Filter!Cleaned(fed, output)
  BY DEF PInv, ParserTypeOK, PushThrough
<1>2. authenticated' /\ pending' = pending /\ output' = output \o bytes
  BY DEF PushThrough
<1>3. fed' \in Seq(Byte) /\ output' \in Seq(Byte)
  BY <1>1, <1>2, ConcatProperties
<1>4. Filter!Cleaned(fed', output')
  BY <1>1, <1>2, CleanedContinues
<1>5. Filter!Occurs(fed')
  BY <1>3, <1>4, CleanedOccurs
<1>6. Filter!IsPrefix(fed, fed') /\ Filter!IsPrefix(output, output')
  BY <1>1, <1>2, PrefixOfConcat
<1>7. authenticated' = TRUE
  BY DEF PInv, ParserTypeOK, PushThrough
<1>8. ParserTypeOK'
  BY <1>2, <1>3, <1>7 DEF PInv, ParserTypeOK
<1>9. Filter!Cleaned(fed, output)'
  BY <1>4 DEF Filter!Cleaned, Filter!FirstAt, Filter!OccursAt, Filter!Removed
<1>10. PInv'
  BY <1>7, <1>8, <1>9 DEF PInv
<1>11. authenticated' = Filter!Occurs(fed')
  BY <1>5, <1>7 DEF Filter!Occurs
<1> QED
  BY <1>4, <1>6, <1>7, <1>10, <1>11, Zenon DEF Filter!Receive

LEMMA FindsStep ==
  ASSUME NEW bytes \in Seq(Byte), NEW i \in Nat,
         PInv, fed' = fed \o bytes, PushFinds(bytes, i)
  PROVE  PInv' /\ Filter!Receive
<1> DEFINE haystack == pending \o bytes
           n == i + Len(Sentinel)
           suffix == SubSeq(haystack, n + 1, Len(haystack))
           e == LineEnd(suffix)
           rest == SubSeq(suffix, Len(e) + 1, Len(suffix))
           cleaned == SubSeq(haystack, 1, i) \o rest
<1>1. /\ fed \in Seq(Byte) /\ output \in Seq(Byte) /\ pending \in Seq(Byte)
      /\ ~authenticated /\ KeepsWhatMayBegin
  BY DEF PInv, ParserTypeOK, PushFinds
<1>2. /\ FoundAt(haystack, i)
      /\ output' = output \o cleaned
      /\ pending' = <<>> /\ authenticated' = TRUE
  BY DEF PushFinds
<1>3. /\ haystack \in Seq(Byte) /\ Len(haystack) \in Nat /\ n \in Nat
      /\ n <= Len(haystack) /\ i <= n
  BY <1>1, <1>2, ConcatProperties, LenProperties, SentinelLength DEF FoundAt
<1>4. fed' = output \o haystack
  <2>1. Associates(output, pending, bytes)
    BY <1>1, Associative
  <2> QED BY <1>1, <2>1, Zenon DEF KeepsWhatMayBegin, Associates
<1>5. suffix \in Seq(Byte) /\ Len(suffix) = Len(haystack) - n /\ Len(suffix) \in Nat
  <2> HIDE DEF haystack, n
  <2> QED BY <1>3, Halves, LenProperties
<1>6. /\ e \in LineEnds \cup {<<>>} /\ e \in Seq(Byte)
      /\ Len(e) \in Nat /\ Len(e) <= Len(suffix) /\ SubSeq(suffix, 1, Len(e)) = e
  BY <1>5, LineEndPrefix
<1>7. Filter!Removed(haystack, cleaned, i, e)
  <2> HIDE DEF e
  <2>1. n + Len(e) \in Nat /\ n + Len(e) <= Len(haystack)
    BY <1>3, <1>5, <1>6
  <2>2. SubSeq(haystack, n + 1, n + Len(e)) = SubSeq(suffix, 1, Len(e))
    BY <1>3, <1>6, <2>1, PartOfPart
  <2>3. rest = SubSeq(haystack, (n + Len(e)) + 1, Len(haystack))
    BY <1>3, <1>6, <2>1, PartOfPart, ZenonT(40)
  <2> HIDE DEF suffix, haystack, rest
  <2> QED BY <1>6, <2>1, <2>2, <2>3, Zenon DEF Filter!Removed
<1>8. cleaned \in Seq(Byte)
  <2> HIDE DEF e
  <2>1. rest \in Seq(Byte)
    BY <1>5, <1>6, Halves
  <2>2. SubSeq(haystack, 1, i) \in Seq(Byte)
    BY <1>3, Halves
  <2> HIDE DEF rest, haystack
  <2> QED BY <2>1, <2>2, ConcatProperties
<1> HIDE DEF e, cleaned, suffix
<1>9. Filter!Removed(fed', output', Len(output) + i, e)
  BY <1>1, <1>2, <1>3, <1>4, <1>6, <1>7, <1>8, RemovedIsContinued, ZenonT(40)
<1>10. Filter!FirstAt(fed', Len(output) + i)
  <2>1. Filter!FirstAt(haystack, i)
    BY <1>2, <1>3, FoundIsFirst
  <2>2. ~Filter!Occurs(output \o pending) /\ (output = <<>> \/ Len(pending) = Len(Sentinel) - 1)
    BY <1>1 DEF KeepsWhatMayBegin
  <2>3. Filter!FirstAt(output \o haystack, Len(output) + i)
    BY <1>1, <2>1, <2>2, FoundInKept
  <2> QED BY <1>4, <2>3, Zenon
<1>11. fed' \in Seq(Byte) /\ output' \in Seq(Byte) /\ Len(output) + i \in 0..Len(fed')
  BY <1>1, <1>2, <1>3, <1>4, <1>8, ConcatProperties, LenProperties
<1>12. Filter!Cleaned(fed', output')
  BY <1>6, <1>9, <1>10, <1>11 DEF Filter!Cleaned, LineEnds
<1>13. Filter!Occurs(fed')
  BY <1>11, <1>12, CleanedOccurs
<1>14. Filter!IsPrefix(fed, fed') /\ Filter!IsPrefix(output, output')
  BY <1>1, <1>2, <1>8, PrefixOfConcat
<1>15. ParserTypeOK'
  BY <1>2, <1>11, SentinelLength, EmptySeq DEF PInv, ParserTypeOK
<1>16. Filter!Cleaned(fed, output)'
  BY <1>12 DEF Filter!Cleaned, Filter!FirstAt, Filter!OccursAt, Filter!Removed
<1>17. PInv'
  BY <1>2, <1>15, <1>16 DEF PInv
<1>18. authenticated' = Filter!Occurs(fed')
  BY <1>2, <1>13 DEF Filter!Occurs
<1> QED
  BY <1>2, <1>12, <1>14, <1>17, <1>18, Zenon DEF Filter!Receive

LEMMA KeepsStep ==
  ASSUME NEW bytes \in Seq(Byte), PInv, fed' = fed \o bytes, PushKeeps(bytes)
  PROVE  PInv' /\ Filter!Receive
<1> DEFINE haystack == pending \o bytes
           split == Len(haystack) - Kept(haystack)
           front == SubSeq(haystack, 1, split)
           back == SubSeq(haystack, split + 1, Len(haystack))
<1>1. /\ fed \in Seq(Byte) /\ output \in Seq(Byte) /\ pending \in Seq(Byte)
      /\ ~authenticated /\ authenticated = FALSE /\ KeepsWhatMayBegin
  BY DEF PInv, ParserTypeOK, PushKeeps
<1>2. /\ NotFound(haystack) /\ authenticated' = FALSE
      /\ output' = output \o front /\ pending' = back
  BY <1>1 DEF PushKeeps
<1>3. /\ haystack \in Seq(Byte) /\ Len(haystack) \in Nat
      /\ Len(haystack) = Len(pending) + Len(bytes)
      /\ Len(pending) \in Nat /\ Len(bytes) \in Nat
  BY <1>1, ConcatProperties, LenProperties
<1>4. /\ split \in Nat /\ split <= Len(haystack)
      /\ Len(haystack) - split < Len(Sentinel)
      /\ split = 0 \/ Len(haystack) - split = Len(Sentinel) - 1
      /\ Len(haystack) >= Len(Sentinel) - 1 => Len(haystack) - split = Len(Sentinel) - 1
  <2>1. Kept(haystack) = IF Len(haystack) < Len(Sentinel) - 1 THEN Len(haystack) ELSE Len(Sentinel) - 1
    BY DEF Kept
  <2> DEFINE k == Kept(haystack)
             l == Len(haystack)
  <2>2. k \in Nat /\ k <= l /\ k < Len(Sentinel) /\ (k = l \/ k = Len(Sentinel) - 1)
        /\ (l >= Len(Sentinel) - 1 => k = Len(Sentinel) - 1) /\ l \in Nat
    <3> HIDE DEF haystack
    <3> QED BY <1>3, <2>1, SentinelLength
  <2> HIDE DEF k, l
  <2>3. /\ l - k \in Nat /\ l - k <= l /\ l - (l - k) = k
        /\ k = l => l - k = 0
    BY <2>2
  <2> QED BY <2>2, <2>3 DEF k, l
<1>5. fed' = output \o haystack
  <2>1. Associates(output, pending, bytes)
    BY <1>1, Associative
  <2> QED BY <1>1, <2>1, Zenon DEF KeepsWhatMayBegin, Associates
<1> HIDE DEF split
<1>6. /\ front \in Seq(Byte) /\ Len(front) = split
      /\ back \in Seq(Byte) /\ Len(back) = Len(haystack) - split
      /\ haystack = front \o back
  BY <1>3, <1>4, Halves
<1>7. ~Filter!Occurs(fed')
  <2>1. ~Filter!Occurs(haystack)
    BY <1>2, <1>3, NotFoundIsAbsent
  <2>2. ~Filter!Occurs(output \o pending) /\ (output = <<>> \/ Len(pending) = Len(Sentinel) - 1)
    BY <1>1 DEF KeepsWhatMayBegin
  <2>3. ~Filter!Occurs(output \o haystack)
    BY <1>1, <2>1, <2>2, FoundInKept
  <2> QED BY <1>5, <2>3, Zenon
<1> HIDE DEF haystack, front, back
<1>8. /\ fed' = output' \o pending'
      /\ output' \in Seq(Byte) /\ pending' \in Seq(Byte) /\ fed' \in Seq(Byte)
      /\ Len(fed') = Len(output') + Len(pending')
  <2>1. fed' = (output \o front) \o back
    <3>1. Associates(output, front, back)
      BY <1>1, <1>6, Associative
    <3> QED BY <1>5, <1>6, <3>1, Zenon DEF Associates
  <2>2. output' \in Seq(Byte) /\ pending' \in Seq(Byte)
    BY <1>1, <1>2, <1>6, ConcatProperties
  <2> QED BY <1>2, <2>1, <2>2, ConcatProperties
<1>9. Len(pending') < Len(Sentinel)
  BY <1>2, <1>4, <1>6
<1>10. output' = <<>> \/ Len(pending') = Len(Sentinel) - 1
  <2>1. CASE Len(haystack) - split = Len(Sentinel) - 1
    BY <1>2, <1>6, <2>1
  <2>2. CASE Len(haystack) < Len(Sentinel) - 1 /\ split = 0
    <3>1. Len(pending) # Len(Sentinel) - 1
      BY <1>3, <2>2, SentinelLength
    <3>2. output = <<>>
      BY <1>1, <3>1 DEF KeepsWhatMayBegin
    <3>3. front = <<>>
      BY <1>6, <2>2, EmptySeq
    <3> QED BY <1>2, <3>2, <3>3, ConcatEmptySeq, EmptySeq
  <2> QED BY <1>3, <1>4, <2>1, <2>2, SentinelLength
<1>11. Filter!IsPrefix(fed, fed') /\ Filter!IsPrefix(output, output')
  BY <1>1, <1>2, <1>6, PrefixOfConcat
<1>12. Filter!Withheld(fed', output')
  <2>1. /\ Len(output') \in 0..Len(fed')
        /\ Len(fed') - Len(output') < Len(Sentinel)
    BY <1>8, <1>9, LenProperties, SentinelLength
  <2>2. output' = SubSeq(fed', 1, Len(output'))
    BY <1>8, PrefixOfConcat
  <2> QED BY <2>1, <2>2 DEF Filter!Withheld
<1>13. ParserTypeOK'
  BY <1>2, <1>8, <1>9 DEF ParserTypeOK
<1>14. KeepsWhatMayBegin'
  BY <1>7, <1>8, <1>10 DEF KeepsWhatMayBegin, Filter!Occurs, Filter!OccursAt
<1>15. PInv'
  BY <1>2, <1>13, <1>14 DEF PInv
<1>16. authenticated' = Filter!Occurs(fed')
  BY <1>2, <1>7 DEF Filter!Occurs
<1> QED
  BY <1>2, <1>11, <1>12, <1>15, <1>16, Zenon DEF Filter!Receive

LEMMA PushStep ==
  ASSUME PInv, ParserNext
  PROVE  PInv' /\ Filter!Receive
<1>1. PICK n \in 1..(MaxInput - Len(fed)) : \E bytes \in [1..n -> Byte] : Push(bytes)
  BY DEF ParserNext
<1>2. PICK bytes \in [1..n -> Byte] : Push(bytes)
  BY <1>1
<1>3. bytes \in Seq(Byte)
  BY <1>2, SeqDef
<1>4. \A i \in 0..(Len(pending) + Len(bytes)) : i \in Nat
  OBVIOUS
<1> QED
  BY <1>2, <1>3, <1>4, ThroughStep, FindsStep, KeepsStep DEF Push

LEMMA ParserInvariant == ParserSpec => []PInv
<1>1. ParserInit => PInv
  <2> SUFFICES ASSUME ParserInit PROVE PInv
    OBVIOUS
  <2>1. ~Filter!Occurs(fed)
    BY SentinelLength, EmptySeq DEF ParserInit, Filter!Occurs, Filter!OccursAt
  <2>2. fed = output \o pending
    BY DEF ParserInit
  <2>3. ParserTypeOK
    <3>1. /\ pending \in Seq(Byte) /\ fed \in Seq(Byte) /\ output \in Seq(Byte)
          /\ Len(pending) < Len(Sentinel)
      BY SentinelLength, EmptySeq DEF ParserInit
    <3>2. authenticated \in BOOLEAN
      BY DEF ParserInit
    <3> QED BY <3>1, <3>2 DEF ParserTypeOK
  <2>4. output = <<>> /\ ~authenticated
    BY DEF ParserInit
  <2> QED BY <2>1, <2>2, <2>3, <2>4 DEF PInv, KeepsWhatMayBegin
<1>2. PInv /\ [ParserNext]_pvars => PInv'
  <2>1. CASE ParserNext
    BY <2>1, PushStep
  <2>2. CASE UNCHANGED pvars
    BY <2>2 DEF pvars, PInv, ParserTypeOK, KeepsWhatMayBegin, Filter!Occurs, Filter!OccursAt,
                Filter!Cleaned, Filter!FirstAt, Filter!Removed
  <2> QED BY <2>1, <2>2
<1> QED
  BY <1>1, <1>2, PTL DEF ParserSpec

(* Type correctness of the parser; it never keeps a whole sentinel         *)
(* (native_ssh.rs 67-71).                                                  *)
THEOREM ParserTypeCorrect == ParserSpec => []ParserTypeOK
<1>1. PInv => ParserTypeOK
  BY DEF PInv
<1> QED
  BY <1>1, ParserInvariant, PTL

(* The parser implements the terminal's filter: however a session is split *)
(* into reads, the sentinel is found with its last byte, only it and the   *)
(* line end after it are removed, and nothing that cannot begin a sentinel *)
(* is withheld (native_ssh.rs 254-274).                                    *)
THEOREM ParserFilters == ParserSpec => FiltersTerminal
<1>1. ParserInit => Filter!FilterInit
  BY DEF ParserInit, Filter!FilterInit
<1>2. PInv /\ [ParserNext]_pvars => [Filter!Receive]_Filter!filter
  BY PushStep DEF pvars, Filter!filter
<1> QED
  BY <1>1, <1>2, ParserInvariant, PTL DEF ParserSpec, FiltersTerminal, Filter!FilterSpec
=============================================================================
